----------------------------- MODULE MCService ------------------------------
(***************************************************************************)
(* The request path and the storage layer, for TLC.                        *)
(***************************************************************************)
EXTENDS Service, MCWriteSafety

CONSTANTS t1, t2, t3, t4, t5, t6, a, b

OneTenant == [t \in {t1, t2, t3, t4, t5, t6} |-> a]

\* Three entries of one chain, one of them with a report, and another tenant;
\* one proposal, two executions, an expiry, two outcomes; and both, on the one
\* writer of SQLite.
MCAudits ==
    [appends |->
        [txns |-> {t1, t2, t3, t4}, dialect |-> "postgresql",
         operation |-> t1 :> "append" @@ t2 :> "report" @@ t3 :> "append" @@ t4 :> "append",
         tenant |-> t1 :> a @@ t2 :> a @@ t3 :> a @@ t4 :> b],
     proposals |->
        [txns |-> {t1, t2, t3, t4, t5, t6}, dialect |-> "postgresql", tenant |-> OneTenant,
         operation |-> t1 :> "proposal" @@ t2 :> "execute" @@ t3 :> "execute"
                       @@ t4 :> "expire" @@ t5 :> "settle" @@ t6 :> "settle"],
     one_writer |->
        [txns |-> {t1, t2, t3, t4, t5, t6}, dialect |-> "sqlite", tenant |-> OneTenant,
         operation |-> t1 :> "proposal" @@ t2 :> "execute" @@ t3 :> "execute"
                       @@ t4 :> "report" @@ t5 :> "append" @@ t6 :> "append"]]

\* Old code serves, is backed up, and new code takes the restored file over
\* once the operator has seen the restore succeed; two versions of the code
\* and a verification open one file.
MCFiles ==
    [recovery |->
        [programs |-> {"old", "backup", "restore", "new"},
         version |-> "old" :> 1 @@ "backup" :> 1 @@ "restore" :> 2 @@ "new" :> 2,
         role |-> "old" :> "serve" @@ "backup" :> "backup" @@ "restore" :> "restore"
                  @@ "new" :> "serve",
         path |-> "old" :> "live" @@ "backup" :> "live" @@ "restore" :> "restored"
                  @@ "new" :> "restored",
         source |-> [p \in {"old", "backup", "restore", "new"} |-> "snapshot"],
         waits |-> "old" :> {} @@ "backup" :> {} @@ "restore" :> {} @@ "new" :> {"restore"},
         paths |-> {"live", "snapshot", "restored"}, keys |-> {"k1", "k2"}, starts |-> 2],
     opening |->
        [programs |-> {"old", "new", "admin"},
         version |-> "old" :> 2 @@ "new" :> 3 @@ "admin" :> 3,
         role |-> "old" :> "serve" @@ "new" :> "serve" @@ "admin" :> "verify",
         path |-> [p \in {"old", "new", "admin"} |-> "live"],
         source |-> [p \in {"old", "new", "admin"} |-> "live"],
         waits |-> [p \in {"old", "new", "admin"} |-> {}],
         paths |-> {"live"}, keys |-> {"k1"}, starts |-> 2]]
=============================================================================
