----------------------------- MODULE SharedAuth -----------------------------
(***************************************************************************)
(* Shared Hosted enrollment and OAuth: SharedConnectorLifecycle            *)
(* (app/shared_lifecycle.py), SharedOAuthProvider (app/shared_auth.py) and *)
(* the handlers and the writer lease of app/shared.py.                     *)
(*                                                                         *)
(* A worker is one application process.  Its handlers run database         *)
(* transactions without yielding to the event loop, so one worker never    *)
(* interleaves with itself inside a handler, except at the await of        *)
(* EnrollmentValidator.validate.  SQLite admits one worker (the lease).    *)
(* PostgreSQL admits several, at READ COMMITTED: what a transaction reads  *)
(* may be stale when it writes, and only the WHERE clauses are evaluated   *)
(* again.  A read and the write that follows it are therefore two steps    *)
(* where the write depends on the read (commit, activate, exchange and     *)
(* refresh); the statements of one write are one step.  With PostgreSQL    *)
(* the model has fewer interleavings than the code, so what it shows to go *)
(* wrong there can go wrong, and only the local runs show what cannot.     *)
(***************************************************************************)
EXTENDS Naturals, Sequences

CONSTANTS
    Workers,                \* application processes
    StorageKind,            \* "local" (SQLite) or "postgresql"
    Sessions,               \* authorization sessions
    Clients, ClientOf,      \* the OAuth client each session belongs to
    Selections,             \* company selections a user may consent to
    AuthorizationTTL, SessionTTL, AccessTTL, RefreshTTL,
    MaxClock, MaxConnectors, MaxPairs,    \* bounds
    NoSession, NoSelection                \* NULL

ASSUME SharedAuthAssumption ==
    /\ StorageKind \in {"local", "postgresql"}
    /\ ClientOf \in [Sessions -> Clients]
    /\ NoSession \notin Sessions
    /\ NoSelection \notin Selections
    /\ {AuthorizationTTL, SessionTTL, AccessTTL, RefreshTTL} \subseteq Nat
    /\ {MaxClock, MaxConnectors, MaxPairs} \subseteq Nat

VARIABLES
    clock,
    session,     \* oauth_authorization_sessions
    connectors,  \* erp_connections, in order of creation
    grants,      \* oauth_grants, in order of creation
    pairs,       \* oauth_tokens, an access and a refresh token per issue
    verifying,   \* prepare handlers awaiting EnrollmentValidator.validate
    frame        \* the handler each worker is in, and what it has read

vars == <<clock, session, connectors, grants, pairs, verifying, frame>>

Null == 0

----------------------------------------------------------------------------
\* Rows.

SessionRow == [status : {"absent", "pending", "authorized", "consumed"},
               connector : Nat, superseded : Nat, expires : Nat]

ConnectorRow == [status : {"pending", "active", "revoked", "expired", "deleted"},
                 handle : Sessions \cup {NoSession},
                 consumed : Sessions \cup {NoSession},
                 allowed : Selections \cup {NoSelection},
                 expires : Nat]

GrantRow == [status : {"active", "revoked"}, connector : Nat, client : Clients]

TokenState == {"live", "rotated", "revoked"}

PairRow == [grant : Nat, access : TokenState, refresh : TokenState,
            access_expires : Nat, refresh_expires : Nat,
            from_code : Sessions \cup {NoSession}, from_refresh : Nat]

Steps == {"down", "up", "binding", "discarding", "committing", "committed",
          "activating", "exchanging", "refreshing"}

Frame == [step : Steps, session : Sessions \cup {NoSession}, connector : Nat,
          selection : Selections \cup {NoSelection}, ref : Nat, fresh : BOOLEAN]

Idle(step) == [step |-> step, session |-> NoSession, connector |-> Null,
               selection |-> NoSelection, ref |-> Null, fresh |-> FALSE]

Up(w) == frame[w].step = "up"
In(w, step) == frame[w].step = step
Enter(w, f) == frame' = [frame EXCEPT ![w] = f]
Return(w) == Enter(w, Idle("up"))

\* session_summary: pending and not expired.
OpenSession(s) == session[s].status = "pending" /\ session[s].expires > clock

Unexpired(c) == connectors[c].expires > clock

ActiveGrants(c) ==
    {g \in DOMAIN grants : grants[g].connector = c /\ grants[g].status = "active"}

\* _token_row: the token of pair p that "type" names is accepted.
TokenRow(p, type) ==
    LET g == pairs[p].grant IN
    /\ pairs[p][type] = "live"
    /\ clock < IF type = "access" THEN pairs[p].access_expires
                                  ELSE pairs[p].refresh_expires
    /\ grants[g].status = "active"
    /\ connectors[grants[g].connector].status = "active"

----------------------------------------------------------------------------
Init ==
    /\ clock = 0
    /\ session = [s \in Sessions |-> [status |-> "absent", connector |-> Null,
                                      superseded |-> Null, expires |-> 0]]
    /\ connectors = <<>>
    /\ grants = <<>>
    /\ pairs = <<>>
    /\ verifying = {}
    /\ frame = [w \in Workers |-> Idle("down")]

----------------------------------------------------------------------------
\* open_shared_app: take the lease, then expire_pending.

LeaseFree(w) ==
    StorageKind = "local" => \A v \in Workers : In(v, "down")

Expired(row) ==
    IF row.status = "pending" /\ row.expires <= clock
      THEN [row EXCEPT !.status = "expired", !.handle = NoSession]
      ELSE row

Start(w) ==
    /\ In(w, "down")
    /\ LeaseFree(w)
    /\ connectors' = [c \in DOMAIN connectors |-> Expired(connectors[c])]
    /\ Return(w)
    /\ UNCHANGED <<clock, session, grants, pairs, verifying>>

\* The process dies; an open transaction is rolled back.
Crash(w) ==
    /\ ~In(w, "down")
    /\ Enter(w, Idle("down"))
    /\ verifying' = {v \in verifying : v[1] # w}
    /\ UNCHANGED <<clock, session, connectors, grants, pairs>>

\* SHARED_DATABASE_ERRORS inside a handler: rolled back, an error page.
Abort(w) ==
    /\ frame[w].step \in {"committing", "committed", "activating",
                          "exchanging", "refreshing"}
    /\ Return(w)
    /\ UNCHANGED <<clock, session, connectors, grants, pairs, verifying>>

Tick ==
    /\ clock < MaxClock
    /\ clock' = clock + 1
    /\ UNCHANGED <<session, connectors, grants, pairs, verifying, frame>>

----------------------------------------------------------------------------
\* Enrollment.

Authorize(w, s) ==
    /\ Up(w)
    /\ session[s].status = "absent"
    /\ session' = [session EXCEPT ![s] =
                      [status |-> "pending", connector |-> Null,
                       superseded |-> Null, expires |-> clock + AuthorizationTTL]]
    /\ UNCHANGED <<clock, connectors, grants, pairs, verifying, frame>>

\* prepare up to the await of validate.
PrepareBegin(w, s) ==
    /\ Up(w)
    /\ OpenSession(s)
    /\ <<w, s>> \notin verifying
    /\ verifying' = verifying \cup {<<w, s>>}
    /\ UNCHANGED <<clock, session, connectors, grants, pairs, frame>>

\* The credentials do not verify, or are not those the handle was used with.
PrepareRejected(w, s) ==
    /\ Up(w)
    /\ <<w, s>> \in verifying
    /\ verifying' = verifying \ {<<w, s>>}
    /\ UNCHANGED <<clock, session, connectors, grants, pairs, frame>>

NewConnector(s) ==
    [status |-> "pending", handle |-> s, consumed |-> NoSession,
     allowed |-> NoSelection, expires |-> clock + SessionTTL]

\* prepare_enrollment: the handle is bound to the session, so a repeated post
\* finds the connector of the first one until a commit consumes the handle.
PrepareStore(w, s) ==
    LET found == {c \in DOMAIN connectors : connectors[c].handle = s} IN
    /\ Up(w)
    /\ <<w, s>> \in verifying
    /\ verifying' = verifying \ {<<w, s>>}
    /\ \/ /\ found = {}
          /\ Len(connectors) < MaxConnectors
          /\ connectors' = Append(connectors, NewConnector(s))
          /\ Enter(w, [Idle("binding") EXCEPT !.session = s,
                                              !.connector = Len(connectors) + 1])
       \/ \E c \in found :
             /\ connectors[c].status = "pending" /\ Unexpired(c)
             /\ Enter(w, [Idle("binding") EXCEPT !.session = s, !.connector = c])
             /\ UNCHANGED connectors
    /\ UNCHANGED <<clock, session, grants, pairs>>

\* bind_connector, and the session_summary that follows it.
Bind(w) ==
    LET s == frame[w].session
        c == frame[w].connector
        binds == OpenSession(s) /\ session[s].connector = Null
    IN
    /\ In(w, "binding")
    /\ session' = IF binds THEN [session EXCEPT ![s].connector = c] ELSE session
    /\ IF OpenSession(s) /\ session'[s].connector = c
         THEN Return(w)
         ELSE Enter(w, [frame[w] EXCEPT !.step = "discarding"])
    /\ UNCHANGED <<clock, connectors, grants, pairs, verifying>>

\* bind_connector fails in the database, with or without its effect.
BindFails(w) ==
    LET s == frame[w].session IN
    /\ In(w, "binding")
    /\ \/ UNCHANGED session
       \/ /\ OpenSession(s) /\ session[s].connector = Null
          /\ session' = [session EXCEPT ![s].connector = frame[w].connector]
    /\ Enter(w, [frame[w] EXCEPT !.step = "discarding"])
    /\ UNCHANGED <<clock, connectors, grants, pairs, verifying>>

Deleted(row) == [row EXCEPT !.status = "deleted", !.handle = NoSession,
                            !.consumed = NoSession]

\* discard_pending, which may itself fail in the database.
Discard(w) ==
    LET c == frame[w].connector IN
    /\ In(w, "discarding")
    /\ \/ UNCHANGED connectors
       \/ /\ connectors[c].status = "pending"
          /\ \A g \in DOMAIN grants : grants[g].connector # c
          /\ connectors' = [connectors EXCEPT ![c] = Deleted(@)]
    /\ Return(w)
    /\ UNCHANGED <<clock, session, grants, pairs, verifying>>

----------------------------------------------------------------------------
\* The commit handler: commit_enrollment, then activate_connector.

\* What commit_enrollment does with a pending connector: an unused handle is
\* consumed, and a used one accepts the same selection again and no other.
\* Mutant of Consumption: a used handle accepts another selection too.
ConsumptionAgain(c, selection) ==
    IF connectors[c].allowed = selection THEN "repeat" ELSE "consume"

Consumption(c, selection) ==
    IF connectors[c].consumed = NoSession THEN "consume"
    ELSE IF connectors[c].allowed = selection THEN "repeat" ELSE "refuse"

CommitRead(w, s, selection) ==
    /\ Up(w)
    /\ \E c \in DOMAIN connectors :
          /\ s \in {connectors[c].handle, connectors[c].consumed}
          /\ connectors[c].status = "pending" /\ Unexpired(c)
          /\ Consumption(c, selection) # "refuse"
          /\ Enter(w, [step |-> "committing", session |-> s, connector |-> c,
                       selection |-> selection, ref |-> Null,
                       fresh |-> Consumption(c, selection) = "consume"])
    /\ UNCHANGED <<clock, session, connectors, grants, pairs, verifying>>

\* The UPDATE of commit_enrollment: consumed_enrollment_handle_hash is UNIQUE,
\* and a row that is no longer pending is silently left alone.
CommitWrite(w) ==
    LET s == frame[w].session
        c == frame[w].connector
        taken == \E d \in DOMAIN connectors : d # c /\ connectors[d].consumed = s
    IN
    /\ In(w, "committing")
    /\ connectors' =
          IF frame[w].fresh /\ ~taken /\ connectors[c].status = "pending"
            THEN [connectors EXCEPT ![c].allowed = frame[w].selection,
                                    ![c].handle = NoSession, ![c].consumed = s]
            ELSE connectors
    /\ IF frame[w].fresh /\ taken
         THEN Return(w)
         ELSE Enter(w, [frame[w] EXCEPT !.step = "committed"])
    /\ UNCHANGED <<clock, session, grants, pairs, verifying>>

\* The connector the session is bound to is ready to be activated.
Complete(s) ==
    LET c == session[s].connector IN
    /\ OpenSession(s)
    /\ c # Null
    /\ connectors[c].status = "pending" /\ Unexpired(c)
    /\ connectors[c].allowed # NoSelection

ActivateRead(w) ==
    LET s == frame[w].session IN
    /\ In(w, "committed")
    /\ IF Complete(s)
         THEN Enter(w, [Idle("activating") EXCEPT
                           !.session = s, !.connector = session[s].connector,
                           !.ref = session[s].superseded])
         ELSE Return(w)
    /\ UNCHANGED <<clock, session, connectors, grants, pairs, verifying>>

----------------------------------------------------------------------------
\* _revoke_connector_in_transaction, on the rows given.

RevokedConnectors(rows, c) ==
    [d \in DOMAIN rows |->
        IF d = c /\ rows[d].status \in {"pending", "active"}
          THEN [rows[d] EXCEPT !.status = "revoked"] ELSE rows[d]]

\* Mutant of RevokedGrants: the grants are left as they are.
RevokedGrantsNone(rows, c) == rows

RevokedGrants(rows, c) ==
    [g \in DOMAIN rows |->
        IF rows[g].connector = c THEN [rows[g] EXCEPT !.status = "revoked"] ELSE rows[g]]

Ended(state) == IF state = "live" THEN "revoked" ELSE state

\* Mutant of RevokedPairs: the refresh tokens are left as they are.
RevokedPairsAccess(c) ==
    [p \in DOMAIN pairs |->
        IF pairs[p].grant \in ActiveGrants(c)
          THEN [pairs[p] EXCEPT !.access = Ended(@)] ELSE pairs[p]]

\* Tokens of the grants of c that are active now.
RevokedPairs(c) ==
    [p \in DOMAIN pairs |->
        IF pairs[p].grant \in ActiveGrants(c)
          THEN [pairs[p] EXCEPT !.access = Ended(@), !.refresh = Ended(@)]
          ELSE pairs[p]]

\* The writes of activate_connector.  The grant needs its connector to exist
\* (foreign key).  A connector that is no longer pending is left alone, a
\* session that is no longer pending keeps its code.
ActivateWrite(w) ==
    LET s == frame[w].session
        c == frame[w].connector
        old == frame[w].ref
        row == [status |-> "active", connector |-> c, client |-> ClientOf[s]]
        activated == IF connectors[c].status = "pending"
                       THEN [connectors EXCEPT ![c].status = "active", ![c].handle = NoSession]
                       ELSE connectors
    IN
    /\ In(w, "activating")
    /\ connectors[c].status # "deleted"
    /\ grants' = RevokedGrants(Append(grants, row), old)
    /\ connectors' = RevokedConnectors(activated, old)
    /\ pairs' = RevokedPairs(old)
    /\ session' = IF session[s].status = "pending"
                    THEN [session EXCEPT ![s].status = "authorized"] ELSE session
    /\ Return(w)
    /\ UNCHANGED <<clock, verifying>>

----------------------------------------------------------------------------
\* Tokens.

\* _issue_tokens.  from_code and from_refresh are history: what the pair was
\* issued for.
Issue(rows, g, code, refresh) ==
    Append(rows, [grant |-> g, access |-> "live", refresh |-> "live",
                  access_expires |-> clock + AccessTTL,
                  refresh_expires |-> clock + RefreshTTL,
                  from_code |-> code, from_refresh |-> refresh])

\* load_authorization_code, and the SELECT of exchange_authorization_code.
ExchangeRead(w, s) ==
    /\ Up(w)
    /\ session[s].status = "authorized"
    /\ session[s].expires > clock
    /\ \E g \in ActiveGrants(session[s].connector) :
          /\ grants[g].client = ClientOf[s]
          /\ Enter(w, [Idle("exchanging") EXCEPT !.session = s, !.ref = g])
    /\ UNCHANGED <<clock, session, connectors, grants, pairs, verifying>>

ExchangeWrite(w) ==
    LET s == frame[w].session IN
    /\ In(w, "exchanging")
    /\ Len(pairs) < MaxPairs
    /\ session' = [session EXCEPT ![s].status = "consumed"]
    /\ pairs' = Issue(pairs, frame[w].ref, s, Null)
    /\ Return(w)
    /\ UNCHANGED <<clock, connectors, grants, verifying>>

RefreshRead(w, p) ==
    /\ Up(w)
    /\ TokenRow(p, "refresh")
    /\ Enter(w, [Idle("refreshing") EXCEPT !.ref = p])
    /\ UNCHANGED <<clock, session, connectors, grants, pairs, verifying>>

\* Mutants of Rotated: the refresh token stays; the access tokens stay.
RotatedNot(p) ==
    [q \in DOMAIN pairs |->
        IF pairs[q].grant = pairs[p].grant
          THEN [pairs[q] EXCEPT !.access = Ended(@)] ELSE pairs[q]]
RotatedOnly(p) == [pairs EXCEPT ![p].refresh = "rotated"]

\* The UPDATEs of exchange_refresh_token: rotated_at is set whatever it was,
\* and every access token of the grant is revoked.
Rotated(p) ==
    [q \in DOMAIN pairs |->
        [pairs[q] EXCEPT
            !.refresh = IF q = p THEN "rotated" ELSE @,
            !.access = IF pairs[q].grant = pairs[p].grant THEN Ended(@) ELSE @]]

RefreshWrite(w) ==
    LET p == frame[w].ref IN
    /\ In(w, "refreshing")
    /\ Len(pairs) < MaxPairs
    /\ pairs' = Issue(Rotated(p), pairs[p].grant, NoSession, p)
    /\ Return(w)
    /\ UNCHANGED <<clock, session, connectors, grants, verifying>>

\* /revoke with an accepted token: revoke_raw_token and revoke_connector.
Revoke(w, p, type) ==
    LET c == grants[pairs[p].grant].connector IN
    /\ Up(w)
    /\ TokenRow(p, type)
    /\ connectors' = RevokedConnectors(connectors, c)
    /\ grants' = RevokedGrants(grants, c)
    /\ pairs' = RevokedPairs(c)
    /\ UNCHANGED <<clock, session, verifying, frame>>

\* /enroll/replacement with an accepted access token: authorize_replacement.
Replace(w, s, p) ==
    LET g == pairs[p].grant IN
    /\ Up(w)
    /\ TokenRow(p, "access")
    /\ OpenSession(s)
    /\ grants[g].client = ClientOf[s]
    /\ session' = [session EXCEPT ![s].superseded = grants[g].connector]
    /\ UNCHANGED <<clock, connectors, grants, pairs, verifying, frame>>

----------------------------------------------------------------------------
Next ==
    \/ \E w \in Workers :
          \/ Start(w) \/ Crash(w) \/ Abort(w)
          \/ Bind(w) \/ BindFails(w) \/ Discard(w)
          \/ CommitWrite(w) \/ ActivateRead(w) \/ ActivateWrite(w)
          \/ ExchangeWrite(w) \/ RefreshWrite(w)
          \/ \E s \in Sessions :
                \/ Authorize(w, s)
                \/ PrepareBegin(w, s) \/ PrepareRejected(w, s) \/ PrepareStore(w, s)
                \/ ExchangeRead(w, s)
                \/ \E selection \in Selections : CommitRead(w, s, selection)
                \/ \E p \in DOMAIN pairs : Replace(w, s, p)
          \/ \E p \in DOMAIN pairs :
                \/ RefreshRead(w, p)
                \/ \E type \in {"access", "refresh"} : Revoke(w, p, type)
    \/ Tick

Spec == Init /\ [][Next]_vars

----------------------------------------------------------------------------
\* Properties.

\* Every table keeps its type and every reference between rows resolves.
TypeOK ==
    /\ clock \in Nat
    /\ session \in [Sessions -> SessionRow]
    /\ connectors \in Seq(ConnectorRow)
    /\ grants \in Seq(GrantRow)
    /\ pairs \in Seq(PairRow)
    /\ verifying \subseteq Workers \X Sessions
    /\ frame \in [Workers -> Frame]
    /\ \A s \in Sessions :
          {session[s].connector, session[s].superseded} \subseteq {Null} \cup DOMAIN connectors
    /\ \A g \in DOMAIN grants : grants[g].connector \in DOMAIN connectors
    /\ \A p \in DOMAIN pairs : pairs[p].grant \in DOMAIN grants
    /\ \A w \in Workers :
          /\ frame[w].step \in {"binding", "discarding", "committing", "committed", "activating"} =>
                frame[w].session \in Sessions /\ frame[w].connector \in DOMAIN connectors
          /\ In(w, "committing") => frame[w].selection \in Selections
          /\ In(w, "activating") => frame[w].ref \in {Null} \cup DOMAIN connectors
          /\ In(w, "exchanging") => frame[w].session \in Sessions /\ frame[w].ref \in DOMAIN grants
          /\ In(w, "refreshing") => frame[w].ref \in DOMAIN pairs

\* "refresh tokens rotate on every use": an authorization code and a refresh
\* token each yield at most one pair of tokens.
SingleUse ==
    \A p, q \in DOMAIN pairs :
        p # q =>
          /\ pairs[p].from_code # pairs[q].from_code \/ pairs[p].from_code = NoSession
          /\ pairs[p].from_refresh # pairs[q].from_refresh \/ pairs[p].from_refresh = Null

\* A grant never has two access tokens or two refresh tokens that are accepted:
\* the pair issued last is the only one.
OneAcceptedPair ==
    \A p, q \in DOMAIN pairs : \A type \in {"access", "refresh"} :
        /\ pairs[p].grant = pairs[q].grant
        /\ TokenRow(p, type) /\ TokenRow(q, type)
        => p = q

\* "Connector credential replacement ... atomically revokes the superseded
\* connector, grant, and tokens": once the replacing session has its code,
\* nothing of the superseded connector is accepted.
ReplacementAtomic ==
    \A s \in Sessions :
        LET old == session[s].superseded IN
        /\ session[s].status \in {"authorized", "consumed"}
        /\ old # Null
        => /\ connectors[old].status # "active"
           /\ ActiveGrants(old) = {}
           /\ \A p \in DOMAIN pairs :
                 grants[pairs[p].grant].connector = old =>
                    pairs[p].access # "live" /\ pairs[p].refresh # "live"

\* The connector authority the schema's triggers speak of: a connector is
\* active exactly while it has an active grant, and then it has one only, its
\* handle is consumed and its companies are selected.
ActiveAuthority ==
    \A c \in DOMAIN connectors :
        /\ connectors[c].status = "active" <=> ActiveGrants(c) # {}
        /\ \A g, h \in ActiveGrants(c) : g = h
        /\ connectors[c].status = "active" =>
              /\ connectors[c].handle = NoSession
              /\ connectors[c].consumed # NoSession
              /\ connectors[c].allowed # NoSelection

\* The companies a user selected for a handle are never exchanged for others.
SelectionStable ==
    [][\A c \in DOMAIN connectors :
          connectors[c].consumed # NoSession =>
             connectors'[c].allowed = connectors[c].allowed]_vars

----------------------------------------------------------------------------
\* The inductive invariant behind these properties.

\* The writer lease of a local database (open_shared_app): one worker at most.
OneWorker == \A v, w \in Workers : ~In(v, "down") /\ ~In(w, "down") => v = w

\* A handle is unused or consumed, and companies are selected by consuming it.
HandleInv ==
    \A c \in DOMAIN connectors :
        /\ connectors[c].handle = NoSession \/ connectors[c].consumed = NoSession
        /\ connectors[c].status \in {"pending", "active"} /\ connectors[c].allowed # NoSelection =>
              connectors[c].consumed # NoSession

\* The connector a session is bound to came from that session's own handle,
\* and the connector it supersedes has been active.
SessionInv ==
    \A s \in Sessions :
        LET c == session[s].connector
            old == session[s].superseded
        IN  /\ c # Null /\ connectors[c].status \in {"pending", "active"} =>
                  s \in {connectors[c].handle, connectors[c].consumed}
            /\ old # Null => connectors[old].status \in {"active", "revoked"}

\* Live tokens belong to active grants, and every pair descends from a code
\* that is consumed or from a refresh token that is rotated.
TokenInv ==
    \A p \in DOMAIN pairs :
        /\ "live" \in {pairs[p].access, pairs[p].refresh} => grants[pairs[p].grant].status = "active"
        /\ pairs[p].from_code # NoSession => session[pairs[p].from_code].status = "consumed"
        /\ pairs[p].from_refresh # Null => /\ pairs[p].from_refresh \in DOMAIN pairs
                                           /\ pairs[pairs[p].from_refresh].refresh = "rotated"
        /\ \E s \in Sessions : /\ session[s].status = "consumed"
                               /\ session[s].connector = grants[pairs[p].grant].connector

\* Of the pairs of one grant, one at most has a live access token and one at
\* most a live refresh token, whatever the clock shows.
LiveInv ==
    \A p, q \in DOMAIN pairs :
        pairs[p].grant = pairs[q].grant =>
          /\ pairs[p].access = "live" /\ pairs[q].access = "live" => p = q
          /\ pairs[p].refresh = "live" /\ pairs[q].refresh = "live" => p = q

\* What a handler has read still holds when it writes, the clock apart.
FrameInv ==
    \A w \in Workers :
        LET f == frame[w] IN
        /\ f.step = "binding" =>
              connectors[f.connector].status = "pending" /\ connectors[f.connector].handle = f.session
        /\ f.step = "committing" =>
              /\ connectors[f.connector].status = "pending"
              /\ f.session \in {connectors[f.connector].handle, connectors[f.connector].consumed}
              /\ f.fresh <=> connectors[f.connector].consumed = NoSession
        /\ f.step = "activating" =>
              /\ session[f.session].status = "pending"
              /\ session[f.session].connector = f.connector
              /\ session[f.session].superseded = f.ref
              /\ connectors[f.connector].status = "pending"
              /\ connectors[f.connector].allowed # NoSelection
        /\ f.step = "exchanging" =>
              /\ session[f.session].status = "authorized"
              /\ grants[f.ref].status = "active"
              /\ grants[f.ref].connector = session[f.session].connector
        /\ f.step = "refreshing" => pairs[f.ref].refresh = "live"

LocalInv ==
    /\ OneWorker /\ HandleInv /\ SessionInv /\ TokenInv /\ LiveInv /\ FrameInv
    /\ SingleUse /\ ReplacementAtomic /\ ActiveAuthority

=============================================================================
