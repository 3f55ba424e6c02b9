----------------------------- MODULE WriteOnce -----------------------------
(***************************************************************************)
(* What the write boundary promises, without its mechanism.  A key is      *)
(* claimed by one request at a time.  Only the claimant may send, and only *)
(* while its claim is open.  A claim is closed as settled (the outcome is  *)
(* known) or as blocked (it is not); a settled claim may be taken over     *)
(* after the retention period, an open or a blocked one never.             *)
(***************************************************************************)
EXTENDS Naturals

CONSTANTS Requests, Keys, TTL, NoRequest

VARIABLES now, claimant, claimedAt, claim, sent

onceVars == <<now, claimant, claimedAt, claim, sent>>

OnceInit ==
    /\ now = 0
    /\ claimant = [k \in Keys |-> NoRequest]
    /\ claimedAt = [k \in Keys |-> 0]
    /\ claim = [k \in Keys |-> "none"]
    /\ sent = {}

Claim(k, r) ==
    /\ \/ claim[k] = "none"
       \/ claim[k] = "settled" /\ claimedAt[k] + TTL <= now
    /\ r \notin sent
    /\ claimant' = [claimant EXCEPT ![k] = r]
    /\ claimedAt' = [claimedAt EXCEPT ![k] = now]
    /\ claim' = [claim EXCEPT ![k] = "open"]
    /\ UNCHANGED <<now, sent>>

Send(k, r) ==
    /\ claimant[k] = r
    /\ claim[k] = "open"
    /\ r \notin sent
    /\ sent' = sent \cup {r}
    /\ UNCHANGED <<now, claimant, claimedAt, claim>>

Close(k) ==
    /\ claim[k] = "open"
    /\ \E to \in {"settled", "blocked"} : claim' = [claim EXCEPT ![k] = to]
    /\ UNCHANGED <<now, claimant, claimedAt, sent>>

Pass ==
    /\ now' \in Nat
    /\ now' > now
    /\ UNCHANGED <<claimant, claimedAt, claim, sent>>

OnceNext ==
    \/ \E k \in Keys, r \in Requests : Claim(k, r) \/ Send(k, r)
    \/ \E k \in Keys : Close(k)
    \/ Pass

OnceSpec == OnceInit /\ [][OnceNext]_onceVars

=============================================================================
