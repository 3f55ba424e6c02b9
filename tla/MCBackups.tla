----------------------------- MODULE MCBackups ------------------------------
(***************************************************************************)
(* Two backups of a database that is served, to one destination, for TLC.  *)
(***************************************************************************)
EXTENDS StorageFiles, TLC

MCPrograms == {"app", "first", "second"}

MCRole == "app" :> "serve" @@ "first" :> "backup" @@ "second" :> "backup"

MCCodeVersion == [p \in MCPrograms |-> 1]

MCPathOf == [p \in MCPrograms |-> "live"]

MCSource == [p \in MCPrograms |-> "snapshot"]

MCWaits == [p \in MCPrograms |-> {}]
=============================================================================
