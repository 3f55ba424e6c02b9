------------------------- MODULE SharedAuth_proofs -------------------------
(***************************************************************************)
(* Proofs about SharedAuth.  Type correctness holds for both databases;    *)
(* the other theorems are about the local one, whose writer lease admits   *)
(* one worker, so that what a handler reads still holds when it writes.    *)
(***************************************************************************)
EXTENDS SharedAuth, TLAPS

USE SharedAuthAssumption

----------------------------------------------------------------------------
\* Tables are sequences of rows.

LEMMA SeqFacts ==
  ASSUME NEW S, NEW s \in Seq(S)
  PROVE  /\ Len(s) \in Nat /\ DOMAIN s = 1..Len(s)
         /\ \A i \in DOMAIN s : s[i] \in S
  OBVIOUS

LEMMA AppendRow ==
  ASSUME NEW S, NEW s \in Seq(S), NEW e \in S
  PROVE  /\ Append(s, e) \in Seq(S)
         /\ DOMAIN Append(s, e) = DOMAIN s \cup {Len(s) + 1}
         /\ Len(s) + 1 \notin DOMAIN s
         /\ \A i \in DOMAIN s : Append(s, e)[i] = s[i]
         /\ Append(s, e)[Len(s) + 1] = e
  OBVIOUS

LEMMA UpdateRows ==
  ASSUME NEW S, NEW s \in Seq(S), NEW t,
         t = [i \in DOMAIN s |-> t[i]], \A i \in DOMAIN s : t[i] \in S
  PROVE  t \in Seq(S) /\ DOMAIN t = DOMAIN s
  <1>1. Len(s) \in Nat /\ DOMAIN s = 1..Len(s)
    OBVIOUS
  <1>2. t \in [1..Len(s) -> S]
    BY <1>1
  <1> QED
    BY <1>1, <1>2

LEMMA RevokedConnectorsFacts ==
  ASSUME NEW rows \in Seq(ConnectorRow), NEW c
  PROVE  LET t == RevokedConnectors(rows, c) IN
         /\ t \in Seq(ConnectorRow) /\ DOMAIN t = DOMAIN rows
         /\ \A d \in DOMAIN rows :
               /\ t[d].handle = rows[d].handle /\ t[d].consumed = rows[d].consumed
               /\ t[d].allowed = rows[d].allowed
               /\ t[d].status = IF d = c /\ rows[d].status \in {"pending", "active"}
                                  THEN "revoked" ELSE rows[d].status
  <1> DEFINE t == RevokedConnectors(rows, c)
  <1>1. t = [d \in DOMAIN rows |-> t[d]]
    BY DEF RevokedConnectors
  <1>2. \A d \in DOMAIN rows :
           /\ t[d] \in ConnectorRow
           /\ t[d].handle = rows[d].handle /\ t[d].consumed = rows[d].consumed
           /\ t[d].allowed = rows[d].allowed
           /\ t[d].status = IF d = c /\ rows[d].status \in {"pending", "active"}
                              THEN "revoked" ELSE rows[d].status
    <2> SUFFICES ASSUME NEW d \in DOMAIN rows PROVE <1>2!(d)
      OBVIOUS
    <2>1. rows[d] \in ConnectorRow
      BY SeqFacts
    <2> QED
      BY <2>1 DEF RevokedConnectors, ConnectorRow
  <1> HIDE DEF t
  <1>3. t \in Seq(ConnectorRow) /\ DOMAIN t = DOMAIN rows
    BY <1>1, <1>2, UpdateRows
  <1> QED
    BY <1>2, <1>3 DEF t

LEMMA RevokedGrantsFacts ==
  ASSUME NEW rows \in Seq(GrantRow), NEW c
  PROVE  LET t == RevokedGrants(rows, c) IN
         /\ t \in Seq(GrantRow) /\ DOMAIN t = DOMAIN rows
         /\ \A g \in DOMAIN rows :
               /\ t[g].connector = rows[g].connector
               /\ t[g].status = IF rows[g].connector = c THEN "revoked" ELSE rows[g].status
  <1> DEFINE t == RevokedGrants(rows, c)
  <1>1. t = [g \in DOMAIN rows |-> t[g]]
    BY DEF RevokedGrants
  <1>2. \A g \in DOMAIN rows :
           /\ t[g] \in GrantRow
           /\ t[g].connector = rows[g].connector
           /\ t[g].status = IF rows[g].connector = c THEN "revoked" ELSE rows[g].status
    <2> SUFFICES ASSUME NEW g \in DOMAIN rows PROVE <1>2!(g)
      OBVIOUS
    <2>1. rows[g] \in GrantRow
      BY SeqFacts
    <2> QED
      BY <2>1 DEF RevokedGrants, GrantRow
  <1> HIDE DEF t
  <1>3. t \in Seq(GrantRow) /\ DOMAIN t = DOMAIN rows
    BY <1>1, <1>2, UpdateRows
  <1> QED
    BY <1>2, <1>3 DEF t

\* A pair keeps the grant and the origin it was issued with.
SameOrigin(a, b) ==
  a.grant = b.grant /\ a.from_code = b.from_code /\ a.from_refresh = b.from_refresh

LEMMA RevokedPairsFacts ==
  ASSUME pairs \in Seq(PairRow), NEW c
  PROVE  LET t == RevokedPairs(c) IN
         /\ t \in Seq(PairRow) /\ DOMAIN t = DOMAIN pairs
         /\ \A p \in DOMAIN pairs :
               /\ SameOrigin(t[p], pairs[p])
               /\ pairs[p].grant \in ActiveGrants(c) =>
                     /\ t[p].access = Ended(pairs[p].access)
                     /\ t[p].refresh = Ended(pairs[p].refresh)
               /\ pairs[p].grant \notin ActiveGrants(c) =>
                     /\ t[p].access = pairs[p].access
                     /\ t[p].refresh = pairs[p].refresh
  <1> DEFINE t == RevokedPairs(c)
  <1>1. t = [p \in DOMAIN pairs |-> t[p]]
    BY DEF RevokedPairs
  <1>2. \A p \in DOMAIN pairs :
           /\ t[p] \in PairRow
           /\ SameOrigin(t[p], pairs[p])
           /\ pairs[p].grant \in ActiveGrants(c) =>
                 /\ t[p].access = Ended(pairs[p].access)
                 /\ t[p].refresh = Ended(pairs[p].refresh)
           /\ pairs[p].grant \notin ActiveGrants(c) =>
                 /\ t[p].access = pairs[p].access
                 /\ t[p].refresh = pairs[p].refresh
    <2> SUFFICES ASSUME NEW p \in DOMAIN pairs PROVE <1>2!(p)
      OBVIOUS
    <2>1. pairs[p] \in PairRow
      BY SeqFacts
    <2>2. /\ Ended(pairs[p].access) \in TokenState
          /\ Ended(pairs[p].refresh) \in TokenState
      BY <2>1 DEF PairRow, TokenState, Ended
    <2> QED
      BY <2>1, <2>2 DEF RevokedPairs, PairRow, SameOrigin
  <1> HIDE DEF t
  <1>3. t \in Seq(PairRow) /\ DOMAIN t = DOMAIN pairs
    BY <1>1, <1>2, UpdateRows
  <1> QED
    BY <1>2, <1>3 DEF t

LEMMA RotatedFacts ==
  ASSUME pairs \in Seq(PairRow), NEW p
  PROVE  LET t == Rotated(p) IN
         /\ t \in Seq(PairRow) /\ DOMAIN t = DOMAIN pairs
         /\ \A q \in DOMAIN pairs :
               /\ SameOrigin(t[q], pairs[q])
               /\ t[q].refresh = IF q = p THEN "rotated" ELSE pairs[q].refresh
               /\ t[q].access = IF pairs[q].grant = pairs[p].grant
                                  THEN Ended(pairs[q].access) ELSE pairs[q].access
  <1> DEFINE t == Rotated(p)
  <1>1. t = [q \in DOMAIN pairs |-> t[q]]
    BY DEF Rotated
  <1>2. \A q \in DOMAIN pairs :
           /\ t[q] \in PairRow
           /\ SameOrigin(t[q], pairs[q])
           /\ t[q].refresh = IF q = p THEN "rotated" ELSE pairs[q].refresh
           /\ t[q].access = IF pairs[q].grant = pairs[p].grant
                              THEN Ended(pairs[q].access) ELSE pairs[q].access
    <2> SUFFICES ASSUME NEW q \in DOMAIN pairs PROVE <1>2!(q)
      OBVIOUS
    <2>1. pairs[q] \in PairRow
      BY SeqFacts
    <2>2. Ended(pairs[q].access) \in TokenState /\ "rotated" \in TokenState
      BY <2>1 DEF PairRow, TokenState, Ended
    <2> QED
      BY <2>1, <2>2 DEF Rotated, PairRow, SameOrigin
  <1> HIDE DEF t
  <1>3. t \in Seq(PairRow) /\ DOMAIN t = DOMAIN pairs
    BY <1>1, <1>2, UpdateRows
  <1> QED
    BY <1>2, <1>3 DEF t

\* What _issue_tokens appends.
Issued(row, g, code, refresh) ==
  /\ row.grant = g /\ row.access = "live" /\ row.refresh = "live"
  /\ row.from_code = code /\ row.from_refresh = refresh

LEMMA IssueFacts ==
  ASSUME clock \in Nat, NEW rows, NEW g \in Nat,
         NEW code \in Sessions \cup {NoSession}, NEW refresh \in Nat
  PROVE  \E row \in PairRow : /\ Issue(rows, g, code, refresh) = Append(rows, row)
                              /\ Issued(row, g, code, refresh)
  <1> DEFINE row == [grant |-> g, access |-> "live", refresh |-> "live",
                     access_expires |-> clock + AccessTTL,
                     refresh_expires |-> clock + RefreshTTL,
                     from_code |-> code, from_refresh |-> refresh]
  <1>1. clock + AccessTTL \in Nat /\ clock + RefreshTTL \in Nat
    OBVIOUS
  <1>2. row \in PairRow
    BY <1>1 DEF PairRow, TokenState
  <1>3. Issued(row, g, code, refresh)
    BY DEF Issued
  <1>4. Issue(rows, g, code, refresh) = Append(rows, row)
    BY DEF Issue
  <1> HIDE DEF row
  <1> QED
    BY <1>2, <1>3, <1>4

----------------------------------------------------------------------------
\* Type correctness.

LEMMA EnterFacts ==
  ASSUME frame \in [Workers -> Frame], NEW w \in Workers, NEW f \in Frame, Enter(w, f)
  PROVE  /\ frame' \in [Workers -> Frame] /\ frame'[w] = f
         /\ \A v \in Workers \ {w} : frame'[v] = frame[v]
  BY DEF Enter

LEMMA IdleFacts ==
  ASSUME NEW step \in Steps
  PROVE  Idle(step) \in Frame /\ Idle(step).step = step
  BY DEF Idle, Frame, Null

LEMMA ReturnFacts ==
  ASSUME frame \in [Workers -> Frame], NEW w \in Workers, Return(w)
  PROVE  /\ frame' \in [Workers -> Frame] /\ frame'[w].step = "up"
         /\ \A v \in Workers \ {w} : frame'[v] = frame[v]
  <1>1. "up" \in Steps
    BY DEF Steps
  <1> QED
    BY <1>1, IdleFacts, EnterFacts DEF Return

\* The references of a frame resolve.
Resolved(f, cs, gs, ps) ==
  /\ f.step \in {"binding", "discarding", "committing", "committed", "activating"} =>
        f.session \in Sessions /\ f.connector \in DOMAIN cs
  /\ f.step = "committing" => f.selection \in Selections
  /\ f.step = "activating" => f.ref \in {Null} \cup DOMAIN cs
  /\ f.step = "exchanging" => f.session \in Sessions /\ f.ref \in DOMAIN gs
  /\ f.step = "refreshing" => f.ref \in DOMAIN ps

Parts ==
  /\ clock \in Nat
  /\ session \in [Sessions -> SessionRow]
  /\ connectors \in Seq(ConnectorRow)
  /\ grants \in Seq(GrantRow)
  /\ pairs \in Seq(PairRow)
  /\ verifying \subseteq Workers \X Sessions
  /\ frame \in [Workers -> Frame]
  /\ \A s \in Sessions : /\ session[s].connector \in {Null} \cup DOMAIN connectors
                         /\ session[s].superseded \in {Null} \cup DOMAIN connectors
  /\ \A g \in DOMAIN grants : grants[g].connector \in DOMAIN connectors
  /\ \A p \in DOMAIN pairs : pairs[p].grant \in DOMAIN grants
  /\ \A w \in Workers : Resolved(frame[w], connectors, grants, pairs)

\* The type invariant with the references of a frame gathered.
LEMMA TypeParts == (TypeOK <=> Parts) /\ (TypeOK' <=> Parts')
  BY DEF TypeOK, Parts, Resolved, In

LEMMA InitTypeOK == Init => TypeOK
  <1> SUFFICES ASSUME Init PROVE TypeOK
    OBVIOUS
  <1>1. "down" \in Steps
    BY DEF Steps
  <1>2. \A w \in Workers : frame[w] \in Frame /\ frame[w].step = "down"
    BY <1>1, IdleFacts DEF Init
  <1>3. frame \in [Workers -> Frame]
    BY <1>2 DEF Init
  <1>4. session \in [Sessions -> SessionRow]
    BY DEF Init, SessionRow, Null
  <1>5. \A s \in Sessions : session[s].connector = Null /\ session[s].superseded = Null
    BY DEF Init
  <1>6. connectors = <<>> /\ grants = <<>> /\ pairs = <<>> /\ verifying = {} /\ clock = 0
    BY DEF Init
  <1> QED
    BY <1>2, <1>3, <1>4, <1>5, <1>6, TypeParts DEF Parts, Resolved

\* A step that leaves the tables alone and enters a frame whose references
\* resolve.
LEMMA FrameTypeOK ==
  ASSUME TypeOK, NEW w \in Workers, NEW f \in Frame, Enter(w, f),
         Resolved(f, connectors, grants, pairs),
         UNCHANGED <<clock, session, connectors, grants, pairs>>,
         verifying' \subseteq Workers \X Sessions
  PROVE  TypeOK'
  BY ZenonT(40), EnterFacts, TypeParts DEF Parts, Resolved

\* A step that changes one session and nothing else.
LEMMA SessionTypeOK ==
  ASSUME TypeOK, NEW s \in Sessions, NEW row \in SessionRow,
         session' = [session EXCEPT ![s] = row],
         row.connector \in {Null} \cup DOMAIN connectors,
         row.superseded \in {Null} \cup DOMAIN connectors,
         UNCHANGED <<clock, connectors, grants, pairs, verifying>>,
         frame' \in [Workers -> Frame],
         \A w \in Workers : Resolved(frame'[w], connectors, grants, pairs)
  PROVE  TypeOK'
  BY TypeParts DEF Parts

\* A frame keeps its references while the tables only grow.
LEMMA KeptResolved ==
  ASSUME TypeOK, NEW v \in Workers, frame'[v] = frame[v],
         DOMAIN connectors \subseteq DOMAIN connectors', DOMAIN grants \subseteq DOMAIN grants',
         DOMAIN pairs \subseteq DOMAIN pairs'
  PROVE  Resolved(frame'[v], connectors', grants', pairs')
  <1>1. Resolved(frame[v], connectors, grants, pairs)
    BY TypeParts DEF Parts
  <1> QED
    BY <1>1 DEF Resolved

LEMMA StartTypeOK ==
  ASSUME TypeOK, NEW w \in Workers, Start(w)
  PROVE  TypeOK'
  <1>1. connectors \in Seq(ConnectorRow)
    BY DEF TypeOK
  <1>2. connectors' = [c \in DOMAIN connectors |-> connectors'[c]]
    BY DEF Start
  <1>3. \A c \in DOMAIN connectors : connectors'[c] \in ConnectorRow
    <2> SUFFICES ASSUME NEW c \in DOMAIN connectors PROVE connectors'[c] \in ConnectorRow
      OBVIOUS
    <2>1. connectors[c] \in ConnectorRow
      BY <1>1, SeqFacts
    <2>2. connectors'[c] = Expired(connectors[c])
      BY DEF Start
    <2> QED
      BY <2>1, <2>2 DEF Expired, ConnectorRow
  <1>4. connectors' \in Seq(ConnectorRow) /\ DOMAIN connectors' = DOMAIN connectors
    BY <1>1, <1>2, <1>3, UpdateRows
  <1>5. /\ frame' \in [Workers -> Frame] /\ frame'[w].step = "up"
        /\ \A v \in Workers \ {w} : frame'[v] = frame[v]
    BY ReturnFacts DEF Start, TypeOK
  <1>6. UNCHANGED <<clock, session, grants, pairs, verifying>>
    BY DEF Start
  <1> QED
    BY <1>4, <1>5, <1>6, TypeParts DEF Parts, Resolved

LEMMA PrepareTypeOK ==
  ASSUME TypeOK, NEW w \in Workers, NEW s \in Sessions, PrepareStore(w, s)
  PROVE  TypeOK'
  <1> DEFINE new == Len(connectors) + 1
             bind(c) == [Idle("binding") EXCEPT !.session = s, !.connector = c]
  <1>1. connectors \in Seq(ConnectorRow) /\ clock \in Nat
    BY DEF TypeOK
  <1>2. \A c \in Nat : bind(c) \in Frame /\ bind(c).step = "binding"
                       /\ bind(c).session = s /\ bind(c).connector = c
    BY DEF Idle, Frame, Steps, Null
  <1>3. verifying' \subseteq Workers \X Sessions /\ UNCHANGED <<clock, session, grants, pairs>>
    BY DEF PrepareStore, TypeOK
  <1>4. CASE connectors' = Append(connectors, NewConnector(s)) /\ Enter(w, bind(new))
    <2>1. NewConnector(s) \in ConnectorRow
      BY <1>1 DEF NewConnector, ConnectorRow
    <2>2. connectors' \in Seq(ConnectorRow) /\ DOMAIN connectors' = DOMAIN connectors \cup {new}
      BY <1>1, <1>4, <2>1, AppendRow
    <2>3. new \in Nat
      BY <1>1
    <2>4. /\ frame' \in [Workers -> Frame] /\ frame'[w] = bind(new)
          /\ \A v \in Workers \ {w} : frame'[v] = frame[v]
      BY <1>2, <1>4, <2>3, EnterFacts DEF TypeOK
    <2>5. \A v \in Workers : Resolved(frame'[v], connectors', grants', pairs')
      <3>1. frame'[w].step = "binding" /\ frame'[w].session = s /\ frame'[w].connector = new
        BY ZenonT(40), <1>2, <2>3, <2>4
      <3>2. Resolved(frame'[w], connectors', grants', pairs')
        BY <2>2, <3>1 DEF Resolved
      <3> QED
        BY <1>3, <2>2, <2>4, <3>2, KeptResolved
    <2> QED
      BY <1>3, <2>2, <2>4, <2>5, TypeParts DEF Parts
  <1>5. ASSUME NEW c \in DOMAIN connectors, Enter(w, bind(c)), UNCHANGED connectors
        PROVE  TypeOK'
    <2>1. c \in Nat
      BY <1>1
    <2>2. Resolved(bind(c), connectors, grants, pairs)
      BY <1>2, <2>1 DEF Resolved
    <2> HIDE DEF bind
    <2> QED
      BY <1>2, <1>3, <1>5, <2>1, <2>2, FrameTypeOK
  <1> QED
    BY <1>4, <1>5 DEF PrepareStore

LEMMA BindTypeOK ==
  ASSUME TypeOK, NEW w \in Workers, Bind(w) \/ BindFails(w)
  PROVE  TypeOK'
  <1> DEFINE s == frame[w].session
             c == frame[w].connector
             discard == [frame[w] EXCEPT !.step = "discarding"]
  <1>1. In(w, "binding") /\ UNCHANGED <<clock, connectors, grants, pairs, verifying>>
    BY DEF Bind, BindFails
  <1>2. s \in Sessions /\ c \in DOMAIN connectors /\ frame[w] \in Frame
    BY <1>1 DEF TypeOK, In
  <1>3. /\ discard \in Frame /\ discard.step = "discarding"
        /\ discard.session = s /\ discard.connector = c
    BY <1>2 DEF Frame, Steps
  <1>4. Resolved(discard, connectors, grants, pairs)
    BY <1>2, <1>3 DEF Resolved
  <1>5. frame' \in [Workers -> Frame]
        /\ \A v \in Workers : Resolved(frame'[v], connectors, grants, pairs)
    <2>1. Return(w) \/ Enter(w, discard)
      BY DEF Bind, BindFails
    <2> HIDE DEF discard
    <2>2. CASE Return(w)
      BY <2>2, ReturnFacts, TypeParts DEF Parts, Resolved
    <2>3. CASE Enter(w, discard)
      BY <1>3, <1>4, <2>3, EnterFacts, TypeParts DEF Parts
    <2> QED
      BY <2>1, <2>2, <2>3
  <1>6. UNCHANGED session \/ session' = [session EXCEPT ![s].connector = c]
    BY DEF Bind, BindFails
  <1>7. CASE UNCHANGED session
    BY <1>1, <1>5, <1>7, TypeParts DEF Parts
  <1>8. CASE session' = [session EXCEPT ![s].connector = c]
    <2>1. session[s] \in SessionRow /\ c \in Nat
      BY <1>2 DEF TypeOK
    <2>2. /\ [session[s] EXCEPT !.connector = c] \in SessionRow
          /\ [session[s] EXCEPT !.connector = c].connector = c
          /\ [session[s] EXCEPT !.connector = c].superseded = session[s].superseded
      BY <2>1 DEF SessionRow
    <2>3. session[s].superseded \in {Null} \cup DOMAIN connectors
      BY <1>2, TypeParts DEF Parts
    <2>4. session' = [session EXCEPT ![s] = [session[s] EXCEPT !.connector = c]]
      BY <1>8
    <2> QED
      BY <1>1, <1>2, <1>5, <2>2, <2>3, <2>4, SessionTypeOK
  <1> QED
    BY <1>6, <1>7, <1>8

LEMMA DiscardTypeOK ==
  ASSUME TypeOK, NEW w \in Workers, Discard(w)
  PROVE  TypeOK'
  <1> DEFINE c == frame[w].connector
  <1>1. /\ frame' \in [Workers -> Frame] /\ frame'[w].step = "up"
        /\ \A v \in Workers \ {w} : frame'[v] = frame[v]
    BY ReturnFacts DEF Discard, TypeOK
  <1>2. UNCHANGED <<clock, session, grants, pairs, verifying>> /\ In(w, "discarding")
    BY DEF Discard
  <1>3. connectors \in Seq(ConnectorRow) /\ c \in DOMAIN connectors
    BY <1>2 DEF TypeOK, In
  <1>4. connectors' \in Seq(ConnectorRow) /\ DOMAIN connectors' = DOMAIN connectors
    <2>1. CASE UNCHANGED connectors
      BY <1>3, <2>1
    <2>2. CASE connectors' = [connectors EXCEPT ![c] = Deleted(@)]
      <3>1. connectors[c] \in ConnectorRow
        BY <1>3, SeqFacts
      <3>2. Deleted(connectors[c]) \in ConnectorRow
        BY <3>1 DEF Deleted, ConnectorRow
      <3> QED
        BY <1>3, <2>2, <3>2
    <2> QED
      BY <2>1, <2>2 DEF Discard
  <1> QED
    BY <1>1, <1>2, <1>4, TypeParts DEF Parts, Resolved

LEMMA CommitReadTypeOK ==
  ASSUME TypeOK, NEW w \in Workers, NEW s \in Sessions, NEW selection \in Selections,
         CommitRead(w, s, selection)
  PROVE  TypeOK'
  <1>1. PICK c \in DOMAIN connectors :
           Enter(w, [step |-> "committing", session |-> s, connector |-> c,
                     selection |-> selection, ref |-> Null,
                     fresh |-> Consumption(c, selection) = "consume"])
    BY DEF CommitRead
  <1> DEFINE f == [step |-> "committing", session |-> s, connector |-> c,
                   selection |-> selection, ref |-> Null,
                   fresh |-> Consumption(c, selection) = "consume"]
  <1>2. c \in Nat
    BY SeqFacts DEF TypeOK
  <1>3. f \in Frame
    BY <1>2 DEF Frame, Steps, Null
  <1>4. f.step = "committing" /\ f.session = s /\ f.connector = c /\ f.selection = selection
    OBVIOUS
  <1> HIDE DEF f
  <1>5. Resolved(f, connectors, grants, pairs)
    BY <1>4 DEF Resolved
  <1>6. Enter(w, f)
    BY <1>1 DEF f
  <1>7. UNCHANGED <<clock, session, connectors, grants, pairs, verifying>>
    BY DEF CommitRead
  <1>8. verifying' \subseteq Workers \X Sessions
    BY <1>7 DEF TypeOK
  <1> QED
    BY <1>3, <1>5, <1>6, <1>7, <1>8, FrameTypeOK

LEMMA CommitWriteTypeOK ==
  ASSUME TypeOK, NEW w \in Workers, CommitWrite(w)
  PROVE  TypeOK'
  <1> DEFINE s == frame[w].session
             c == frame[w].connector
             f == [frame[w] EXCEPT !.step = "committed"]
  <1>1. In(w, "committing") /\ UNCHANGED <<clock, session, grants, pairs, verifying>>
    BY DEF CommitWrite
  <1>2. /\ s \in Sessions /\ c \in DOMAIN connectors /\ frame[w] \in Frame
        /\ frame[w].selection \in Selections
    BY <1>1 DEF TypeOK, In
  <1>3. f \in Frame /\ f.step = "committed" /\ f.session = s /\ f.connector = c
    BY <1>2 DEF Frame, Steps
  <1>4. connectors \in Seq(ConnectorRow) /\ connectors[c] \in ConnectorRow
    BY <1>2, SeqFacts DEF TypeOK
  <1>5. connectors' \in Seq(ConnectorRow) /\ DOMAIN connectors' = DOMAIN connectors
    <2>1. CASE UNCHANGED connectors
      BY <1>4, <2>1
    <2>2. CASE connectors' = [connectors EXCEPT ![c].allowed = frame[w].selection,
                                                ![c].handle = NoSession, ![c].consumed = s]
      <3> DEFINE row == [connectors[c] EXCEPT !.allowed = frame[w].selection,
                                              !.handle = NoSession, !.consumed = s]
      <3>1. row \in ConnectorRow
        BY <1>2, <1>4 DEF ConnectorRow
      <3>2. connectors' = [connectors EXCEPT ![c] = row]
        BY <1>2, <1>4, <2>2
      <3> HIDE DEF row
      <3> QED
        BY <1>2, <1>4, <3>1, <3>2
    <2> QED
      BY <2>1, <2>2 DEF CommitWrite
  <1>6. /\ frame' \in [Workers -> Frame]
        /\ frame'[w].step = "up" \/ frame'[w] = f
        /\ \A v \in Workers \ {w} : frame'[v] = frame[v]
    <2>1. Return(w) \/ Enter(w, f)
      BY DEF CommitWrite
    <2> QED
      BY <1>3, <2>1, ReturnFacts, EnterFacts DEF TypeOK
  <1>7. Resolved(frame'[w], connectors', grants', pairs')
    BY <1>2, <1>3, <1>5, <1>6 DEF Resolved
  <1>8. \A v \in Workers : Resolved(frame'[v], connectors', grants', pairs')
    BY <1>1, <1>5, <1>6, <1>7, KeptResolved
  <1> QED
    BY <1>1, <1>5, <1>6, <1>8, TypeParts DEF Parts

LEMMA ActivateReadTypeOK ==
  ASSUME TypeOK, NEW w \in Workers, ActivateRead(w)
  PROVE  TypeOK'
  <1> DEFINE s == frame[w].session
             c == session[s].connector
             f == [Idle("activating") EXCEPT !.session = s, !.connector = c,
                                             !.ref = session[s].superseded]
  <1>1. In(w, "committed") /\ UNCHANGED <<clock, session, connectors, grants, pairs, verifying>>
    BY DEF ActivateRead
  <1>2. s \in Sessions
    BY <1>1 DEF TypeOK, In
  <1>3. /\ session[s] \in SessionRow
        /\ c \in {Null} \cup DOMAIN connectors
        /\ session[s].superseded \in {Null} \cup DOMAIN connectors
    BY <1>2, TypeParts DEF Parts
  <1>4. c \in Nat /\ session[s].superseded \in Nat
    BY <1>3 DEF SessionRow
  <1>5. /\ f \in Frame /\ f.step = "activating" /\ f.session = s /\ f.connector = c
        /\ f.ref = session[s].superseded
    BY <1>2, <1>4 DEF Idle, Frame, Steps
  <1>6. verifying' \subseteq Workers \X Sessions
    BY <1>1 DEF TypeOK
  <1>7. CASE Return(w)
    <2>1. Idle("up") \in Frame /\ Idle("up").step = "up" 
      BY IdleFacts DEF Steps
    <2>2. Resolved(Idle("up"), connectors, grants, pairs)
      BY <2>1 DEF Resolved
    <2> QED
      BY <1>1, <1>6, <1>7, <2>1, <2>2, FrameTypeOK DEF Return
  <1>8. CASE Complete(s) /\ Enter(w, f)
    <2>1. c \in DOMAIN connectors
      BY <1>3, <1>8 DEF Complete
    <2> HIDE DEF f
    <2>2. Resolved(f, connectors, grants, pairs)
      BY <1>2, <1>3, <1>5, <2>1 DEF Resolved
    <2> QED
      BY <1>1, <1>5, <1>6, <1>8, <2>2, FrameTypeOK
  <1> QED
    BY <1>7, <1>8 DEF ActivateRead

\* What activate_connector leaves in each table.
LEMMA ActivateFacts ==
  ASSUME TypeOK, NEW w \in Workers, ActivateWrite(w)
  PROVE  LET s == frame[w].session
             c == frame[w].connector
             old == frame[w].ref
             n == Len(grants) + 1
         IN
         /\ s \in Sessions /\ c \in DOMAIN connectors /\ old \in {Null} \cup DOMAIN connectors
         /\ connectors' \in Seq(ConnectorRow) /\ DOMAIN connectors' = DOMAIN connectors
         /\ \A d \in DOMAIN connectors :
               LET activates == d = c /\ connectors[d].status = "pending"
                   status == IF activates THEN "active" ELSE connectors[d].status
               IN  /\ connectors'[d].handle = IF activates THEN NoSession ELSE connectors[d].handle
                   /\ connectors'[d].consumed = connectors[d].consumed
                   /\ connectors'[d].allowed = connectors[d].allowed
                   /\ connectors'[d].status =
                         IF d = old /\ status \in {"pending", "active"} THEN "revoked" ELSE status
         /\ grants' \in Seq(GrantRow) /\ DOMAIN grants' = DOMAIN grants \cup {n}
         /\ n \notin DOMAIN grants
         /\ \A g \in DOMAIN grants :
               /\ grants'[g].connector = grants[g].connector
               /\ grants'[g].status = IF grants[g].connector = old THEN "revoked" ELSE grants[g].status
         /\ grants'[n].connector = c
         /\ grants'[n].status = IF c = old THEN "revoked" ELSE "active"
  <1> DEFINE s == frame[w].session
             c == frame[w].connector
             old == frame[w].ref
             n == Len(grants) + 1
             row == [status |-> "active", connector |-> c, client |-> ClientOf[s]]
             rows == Append(grants, row)
             activated == IF connectors[c].status = "pending"
                            THEN [connectors EXCEPT ![c].status = "active", ![c].handle = NoSession]
                            ELSE connectors
  <1>1. s \in Sessions /\ c \in DOMAIN connectors /\ old \in {Null} \cup DOMAIN connectors
    BY DEF ActivateWrite, TypeOK, In
  <1>2. connectors \in Seq(ConnectorRow) /\ connectors[c] \in ConnectorRow /\ grants \in Seq(GrantRow)
    BY <1>1, SeqFacts DEF TypeOK
  <1>3. /\ activated \in Seq(ConnectorRow) /\ DOMAIN activated = DOMAIN connectors
        /\ \A d \in DOMAIN connectors :
              LET activates == d = c /\ connectors[d].status = "pending" IN
              /\ activated[d].handle = IF activates THEN NoSession ELSE connectors[d].handle
              /\ activated[d].consumed = connectors[d].consumed
              /\ activated[d].allowed = connectors[d].allowed
              /\ activated[d].status = IF activates THEN "active" ELSE connectors[d].status
    <2>1. CASE connectors[c].status # "pending"
      BY <1>2, <2>1
    <2>2. CASE connectors[c].status = "pending"
      <3> DEFINE new == [connectors[c] EXCEPT !.status = "active", !.handle = NoSession]
      <3>1. /\ new \in ConnectorRow /\ new.handle = NoSession /\ new.status = "active"
            /\ new.consumed = connectors[c].consumed /\ new.allowed = connectors[c].allowed
        BY <1>2 DEF ConnectorRow
      <3>2. activated = [connectors EXCEPT ![c] = new]
        BY <1>1, <1>2, <2>2
      <3> HIDE DEF new, activated
      <3>3. activated \in Seq(ConnectorRow) /\ DOMAIN activated = DOMAIN connectors
        BY <1>1, <1>2, <3>1, <3>2
      <3>4. /\ activated[c] = new
            /\ \A d \in DOMAIN connectors \ {c} : activated[d] = connectors[d]
        BY <1>1, <3>2
      <3> QED
        BY <2>2, <3>1, <3>3, <3>4
    <2> QED
      BY <2>1, <2>2
  <1>4. /\ connectors' = RevokedConnectors(activated, old)
        /\ grants' = RevokedGrants(Append(grants, row), old)
    BY DEF ActivateWrite
  <1>5. c \in Nat
    BY <1>1, <1>2
  <1>6. row \in GrantRow /\ row.connector = c /\ row.status = "active"
    BY <1>1, <1>5 DEF GrantRow
  <1> HIDE DEF row, activated
  <1>7. /\ rows \in Seq(GrantRow)
        /\ DOMAIN rows = DOMAIN grants \cup {n} /\ n \notin DOMAIN grants
        /\ \A g \in DOMAIN grants : rows[g] = grants[g]
        /\ rows[n] = row
    BY SMTT(30), <1>2, <1>6, AppendRow
  <1> HIDE DEF rows, n
  <1>8. /\ grants' \in Seq(GrantRow) /\ DOMAIN grants' = DOMAIN rows
        /\ \A g \in DOMAIN rows :
              /\ grants'[g].connector = rows[g].connector
              /\ grants'[g].status = IF rows[g].connector = old THEN "revoked" ELSE rows[g].status
    <2>1. grants' = RevokedGrants(rows, old)
      BY <1>4 DEF rows
    <2>2. rows \in Seq(GrantRow)
      BY <1>7
    <2> HIDE DEF old
    <2> QED
      BY <2>1, <2>2, RevokedGrantsFacts
  <1>9. /\ connectors' \in Seq(ConnectorRow) /\ DOMAIN connectors' = DOMAIN connectors
        /\ \A d \in DOMAIN connectors :
              /\ connectors'[d].handle = activated[d].handle
              /\ connectors'[d].consumed = activated[d].consumed
              /\ connectors'[d].allowed = activated[d].allowed
              /\ connectors'[d].status =
                    IF d = old /\ activated[d].status \in {"pending", "active"}
                      THEN "revoked" ELSE activated[d].status
    BY <1>3, <1>4, RevokedConnectorsFacts
  <1>10. /\ \A g \in DOMAIN grants :
              /\ grants'[g].connector = grants[g].connector
              /\ grants'[g].status = IF grants[g].connector = old THEN "revoked" ELSE grants[g].status
         /\ grants'[n].connector = c
         /\ grants'[n].status = IF c = old THEN "revoked" ELSE "active"
    BY <1>6, <1>7, <1>8
  <1>11. ASSUME NEW d \in DOMAIN connectors
         PROVE  LET activates == d = c /\ connectors[d].status = "pending"
                    status == IF activates THEN "active" ELSE connectors[d].status
                IN  /\ connectors'[d].handle = IF activates THEN NoSession ELSE connectors[d].handle
                    /\ connectors'[d].consumed = connectors[d].consumed
                    /\ connectors'[d].allowed = connectors[d].allowed
                    /\ connectors'[d].status =
                          IF d = old /\ status \in {"pending", "active"} THEN "revoked" ELSE status
    BY <1>3, <1>9, <1>11
  <1>12. DOMAIN grants' = DOMAIN grants \cup {n}
    BY <1>7, <1>8
  <1> QED
    BY <1>1, <1>7, <1>8, <1>9, <1>10, <1>11, <1>12 DEF n

LEMMA ActivateWriteTypeOK ==
  ASSUME TypeOK, NEW w \in Workers, ActivateWrite(w)
  PROVE  TypeOK'
  <1> DEFINE s == frame[w].session
  <1>1. pairs' \in Seq(PairRow) /\ DOMAIN pairs' = DOMAIN pairs
        /\ \A p \in DOMAIN pairs : pairs'[p].grant = pairs[p].grant
    BY RevokedPairsFacts DEF ActivateWrite, TypeOK, SameOrigin
  <1>2. /\ connectors' \in Seq(ConnectorRow) /\ DOMAIN connectors' = DOMAIN connectors
        /\ grants' \in Seq(GrantRow) /\ DOMAIN grants' = DOMAIN grants \cup {Len(grants) + 1}
        /\ \A g \in DOMAIN grants' : grants'[g].connector \in DOMAIN connectors
        /\ s \in Sessions
    <2> DEFINE n == Len(grants) + 1
    <2>1. /\ connectors' \in Seq(ConnectorRow) /\ DOMAIN connectors' = DOMAIN connectors
          /\ grants' \in Seq(GrantRow) /\ DOMAIN grants' = DOMAIN grants \cup {n}
          /\ s \in Sessions /\ frame[w].connector \in DOMAIN connectors
          /\ \A g \in DOMAIN grants : grants'[g].connector = grants[g].connector
          /\ grants'[n].connector = frame[w].connector
      BY ActivateFacts
    <2>2. \A g \in DOMAIN grants : grants[g].connector \in DOMAIN connectors
      BY TypeParts DEF Parts
    <2> HIDE DEF n
    <2>3. \A g \in DOMAIN grants' : grants'[g].connector \in DOMAIN connectors
      BY <2>1, <2>2
    <2> QED
      BY <2>1, <2>3 DEF n
  <1>3. /\ frame' \in [Workers -> Frame] /\ frame'[w].step = "up"
        /\ \A v \in Workers \ {w} : frame'[v] = frame[v]
    BY ReturnFacts DEF ActivateWrite, TypeOK
  <1>4. \A v \in Workers : Resolved(frame'[v], connectors', grants', pairs')
    <2>1. Resolved(frame'[w], connectors', grants', pairs')
      BY <1>3 DEF Resolved
    <2> QED
      BY <1>1, <1>2, <1>3, <2>1, KeptResolved
  <1>5. /\ session' \in [Sessions -> SessionRow]
        /\ \A t \in Sessions : /\ session'[t].connector = session[t].connector
                               /\ session'[t].superseded = session[t].superseded
    <2>1. session \in [Sessions -> SessionRow] /\ session[s] \in SessionRow
      BY <1>2 DEF TypeOK
    <2>2. UNCHANGED session \/ session' = [session EXCEPT ![s].status = "authorized"]
      BY DEF ActivateWrite
    <2>3. s \in Sessions
      BY <1>2
    <2> HIDE DEF s
    <2> QED
      BY <2>1, <2>2, <2>3 DEF SessionRow
  <1>6. UNCHANGED <<clock, verifying>>
    BY DEF ActivateWrite
  <1> QED
    BY <1>1, <1>2, <1>3, <1>4, <1>5, <1>6, TypeParts DEF Parts

LEMMA ExchangeReadTypeOK ==
  ASSUME TypeOK, NEW w \in Workers, NEW s \in Sessions, ExchangeRead(w, s)
  PROVE  TypeOK'
  <1>1. PICK g \in DOMAIN grants :
           Enter(w, [Idle("exchanging") EXCEPT !.session = s, !.ref = g])
    BY DEF ExchangeRead, ActiveGrants
  <1> DEFINE f == [Idle("exchanging") EXCEPT !.session = s, !.ref = g]
  <1>2. g \in Nat
    BY SeqFacts DEF TypeOK
  <1>3. f \in Frame /\ f.step = "exchanging" /\ f.session = s /\ f.ref = g
    BY <1>2 DEF Idle, Frame, Steps, Null
  <1>4. Enter(w, f)
    BY <1>1
  <1> HIDE DEF f
  <1>5. Resolved(f, connectors, grants, pairs)
    BY <1>3 DEF Resolved
  <1>6. /\ UNCHANGED <<clock, session, connectors, grants, pairs>>
        /\ verifying' \subseteq Workers \X Sessions
    BY DEF ExchangeRead, TypeOK
  <1> QED
    BY <1>3, <1>4, <1>5, <1>6, FrameTypeOK

LEMMA ExchangeWriteTypeOK ==
  ASSUME TypeOK, NEW w \in Workers, ExchangeWrite(w)
  PROVE  TypeOK'
  <1> DEFINE s == frame[w].session
             g == frame[w].ref
  <1>1. /\ In(w, "exchanging") /\ UNCHANGED <<clock, connectors, grants, verifying>>
        /\ session' = [session EXCEPT ![s].status = "consumed"]
        /\ pairs' = Issue(pairs, g, s, Null)
    BY DEF ExchangeWrite
  <1>2. s \in Sessions /\ g \in DOMAIN grants /\ frame[w] \in Frame /\ pairs \in Seq(PairRow)
    BY <1>1 DEF TypeOK, In
  <1>3. g \in Nat /\ Null \in Nat
    BY <1>2 DEF Frame, Null
  <1>4. /\ pairs' \in Seq(PairRow) /\ DOMAIN pairs' = DOMAIN pairs \cup {Len(pairs) + 1}
        /\ \A p \in DOMAIN pairs : pairs'[p] = pairs[p]
        /\ pairs'[Len(pairs) + 1].grant = g
    <2>1. s \in Sessions \cup {NoSession}
      BY <1>2
    <2> HIDE DEF s, g
    <2> QED
      <3>1. pairs \in Seq(PairRow) /\ g \in Nat /\ Null \in Nat
        BY <1>2, <1>3
      <3>2. pairs' = Issue(pairs, g, s, Null)
        BY <1>1
      <3>3. clock \in Nat
        BY DEF TypeOK
      <3>4. PICK row \in PairRow : pairs' = Append(pairs, row) /\ Issued(row, g, s, Null)
        BY <2>1, <3>1, <3>2, <3>3, IssueFacts
      <3> QED
        BY <3>1, <3>4, AppendRow DEF Issued
  <1>5. /\ session' \in [Sessions -> SessionRow]
        /\ \A t \in Sessions : /\ session'[t].connector = session[t].connector
                               /\ session'[t].superseded = session[t].superseded
    <2>1. session \in [Sessions -> SessionRow] /\ session[s] \in SessionRow
      BY <1>2 DEF TypeOK
    <2> QED
      BY <1>1, <1>2, <2>1 DEF SessionRow
  <1>6. /\ frame' \in [Workers -> Frame] /\ frame'[w].step = "up"
        /\ \A v \in Workers \ {w} : frame'[v] = frame[v]
    BY ReturnFacts DEF ExchangeWrite, TypeOK
  <1>7. \A v \in Workers : Resolved(frame'[v], connectors', grants', pairs')
    <2>1. Resolved(frame'[w], connectors', grants', pairs')
      BY <1>6 DEF Resolved
    <2> QED
      BY <1>1, <1>4, <1>6, <2>1, KeptResolved
  <1> QED
    BY <1>1, <1>2, <1>4, <1>5, <1>6, <1>7, TypeParts DEF Parts

LEMMA RefreshReadTypeOK ==
  ASSUME TypeOK, NEW w \in Workers, NEW p \in DOMAIN pairs, RefreshRead(w, p)
  PROVE  TypeOK'
  <1> DEFINE f == [Idle("refreshing") EXCEPT !.ref = p]
  <1>1. p \in Nat
    BY SeqFacts DEF TypeOK
  <1>2. f \in Frame /\ f.step = "refreshing" /\ f.ref = p
    BY <1>1 DEF Idle, Frame, Steps, Null
  <1>3. /\ Enter(w, f) /\ UNCHANGED <<clock, session, connectors, grants, pairs>>
        /\ verifying' \subseteq Workers \X Sessions
    BY DEF RefreshRead, TypeOK
  <1> HIDE DEF f
  <1>4. Resolved(f, connectors, grants, pairs)
    BY <1>2 DEF Resolved
  <1> QED
    BY <1>2, <1>3, <1>4, FrameTypeOK

\* The pairs after exchange_refresh_token.
LEMMA RefreshFacts ==
  ASSUME TypeOK, NEW w \in Workers, RefreshWrite(w)
  PROVE  LET p == frame[w].ref
             n == Len(pairs) + 1
         IN
         /\ p \in DOMAIN pairs
         /\ pairs' \in Seq(PairRow) /\ DOMAIN pairs' = DOMAIN pairs \cup {n} /\ n \notin DOMAIN pairs
         /\ \A q \in DOMAIN pairs :
               /\ SameOrigin(pairs'[q], pairs[q])
               /\ pairs'[q].refresh = IF q = p THEN "rotated" ELSE pairs[q].refresh
               /\ pairs'[q].access = IF pairs[q].grant = pairs[p].grant
                                       THEN Ended(pairs[q].access) ELSE pairs[q].access
         /\ pairs'[n].grant = pairs[p].grant
         /\ pairs'[n].access = "live" /\ pairs'[n].refresh = "live"
         /\ pairs'[n].from_code = NoSession /\ pairs'[n].from_refresh = p
  <1> DEFINE p == frame[w].ref
             n == Len(pairs) + 1
  <1>1. p \in DOMAIN pairs /\ pairs \in Seq(PairRow)
    BY DEF RefreshWrite, TypeOK, In
  <1>2. pairs[p] \in PairRow /\ p \in Nat
    BY <1>1, SeqFacts
  <1>3. pairs[p].grant \in Nat
    BY <1>2 DEF PairRow
  <1>4. /\ Rotated(p) \in Seq(PairRow) /\ DOMAIN Rotated(p) = DOMAIN pairs
        /\ \A q \in DOMAIN pairs :
              /\ SameOrigin(Rotated(p)[q], pairs[q])
              /\ Rotated(p)[q].refresh = IF q = p THEN "rotated" ELSE pairs[q].refresh
              /\ Rotated(p)[q].access = IF pairs[q].grant = pairs[p].grant
                                          THEN Ended(pairs[q].access) ELSE pairs[q].access
    BY <1>1, RotatedFacts
  <1>5. Len(Rotated(p)) = Len(pairs)
    BY <1>1, <1>4, SeqFacts
  <1>6. pairs' = Issue(Rotated(p), pairs[p].grant, NoSession, p)
    BY DEF RefreshWrite
  <1>7. /\ pairs' \in Seq(PairRow) /\ DOMAIN pairs' = DOMAIN pairs \cup {n} /\ n \notin DOMAIN pairs
        /\ \A q \in DOMAIN pairs : pairs'[q] = Rotated(p)[q]
        /\ pairs'[n].grant = pairs[p].grant
        /\ pairs'[n].access = "live" /\ pairs'[n].refresh = "live"
        /\ pairs'[n].from_code = NoSession /\ pairs'[n].from_refresh = p
    <2> DEFINE rows == Rotated(p)
    <2>1. rows \in Seq(PairRow) /\ DOMAIN rows = DOMAIN pairs /\ Len(rows) = Len(pairs)
      BY <1>4, <1>5
    <2>2. NoSession \in Sessions \cup {NoSession}
      OBVIOUS
    <2>3. pairs' = Issue(rows, pairs[p].grant, NoSession, p)
      BY <1>6
    <2> HIDE DEF rows, p
    <2>4. clock \in Nat
      BY DEF TypeOK
    <2>5. PICK row \in PairRow : /\ pairs' = Append(rows, row)
                                 /\ Issued(row, pairs[p].grant, NoSession, p)
      BY <1>2, <1>3, <2>2, <2>3, <2>4, IssueFacts
    <2>6. /\ pairs' \in Seq(PairRow) /\ DOMAIN pairs' = DOMAIN rows \cup {Len(rows) + 1}
          /\ Len(rows) + 1 \notin DOMAIN rows
          /\ \A q \in DOMAIN rows : pairs'[q] = rows[q]
          /\ pairs'[Len(rows) + 1] = row
      BY <2>1, <2>5, AppendRow
    <2>7. /\ \A q \in DOMAIN pairs : pairs'[q] = Rotated(p)[q]
          /\ DOMAIN pairs' = DOMAIN pairs \cup {n} /\ n \notin DOMAIN pairs
          /\ pairs'[n] = row
      BY <2>1, <2>6 DEF rows
    <2> QED
      BY <2>5, <2>6, <2>7 DEF Issued
  <1> QED
    BY <1>1, <1>4, <1>7

LEMMA RefreshWriteTypeOK ==
  ASSUME TypeOK, NEW w \in Workers, RefreshWrite(w)
  PROVE  TypeOK'
  <1>1. UNCHANGED <<clock, session, connectors, grants, verifying>>
    BY DEF RefreshWrite
  <1>2. /\ pairs' \in Seq(PairRow) /\ DOMAIN pairs \subseteq DOMAIN pairs'
        /\ \A q \in DOMAIN pairs' : \E p \in DOMAIN pairs : pairs'[q].grant = pairs[p].grant
    BY RefreshFacts DEF SameOrigin
  <1>3. /\ frame' \in [Workers -> Frame] /\ frame'[w].step = "up"
        /\ \A v \in Workers \ {w} : frame'[v] = frame[v]
    BY ReturnFacts DEF RefreshWrite, TypeOK
  <1>4. \A v \in Workers : Resolved(frame'[v], connectors', grants', pairs')
    <2>1. Resolved(frame'[w], connectors', grants', pairs')
      BY <1>3 DEF Resolved
    <2> QED
      BY <1>1, <1>2, <1>3, <2>1, KeptResolved
  <1> QED
    BY <1>1, <1>2, <1>3, <1>4, TypeParts DEF Parts

LEMMA RevokeTypeOK ==
  ASSUME TypeOK, NEW w \in Workers, NEW p \in DOMAIN pairs,
         NEW type \in {"access", "refresh"}, Revoke(w, p, type)
  PROVE  TypeOK'
  <1> DEFINE c == grants[pairs[p].grant].connector
  <1>1. /\ UNCHANGED <<clock, session, verifying, frame>>
        /\ connectors' = RevokedConnectors(connectors, c)
        /\ grants' = RevokedGrants(grants, c) /\ pairs' = RevokedPairs(c)
    BY DEF Revoke
  <1>2. connectors' \in Seq(ConnectorRow) /\ DOMAIN connectors' = DOMAIN connectors
    BY <1>1, RevokedConnectorsFacts DEF TypeOK
  <1>3. /\ grants' \in Seq(GrantRow) /\ DOMAIN grants' = DOMAIN grants
        /\ \A g \in DOMAIN grants : grants'[g].connector = grants[g].connector
    BY <1>1, RevokedGrantsFacts DEF TypeOK
  <1>4. /\ pairs' \in Seq(PairRow) /\ DOMAIN pairs' = DOMAIN pairs
        /\ \A q \in DOMAIN pairs : pairs'[q].grant = pairs[q].grant
    BY <1>1, RevokedPairsFacts DEF TypeOK, SameOrigin
  <1>5. \A v \in Workers : Resolved(frame'[v], connectors', grants', pairs')
    BY <1>1, <1>2, <1>3, <1>4, KeptResolved
  <1> QED
    BY <1>1, <1>2, <1>3, <1>4, <1>5, TypeParts DEF Parts

\* The two writes that touch a session and no frame.
LEMMA SessionWriteTypeOK ==
  ASSUME TypeOK, NEW w \in Workers, NEW s \in Sessions,
         Authorize(w, s) \/ \E p \in DOMAIN pairs : Replace(w, s, p)
  PROVE  TypeOK'
  <1>1. /\ UNCHANGED <<clock, connectors, grants, pairs, verifying, frame>>
        /\ frame' \in [Workers -> Frame]
        /\ \A v \in Workers : Resolved(frame'[v], connectors, grants, pairs)
    BY TypeParts DEF Authorize, Replace, Parts
  <1>2. CASE Authorize(w, s)
    <2> DEFINE row == [status |-> "pending", connector |-> Null,
                       superseded |-> Null, expires |-> clock + AuthorizationTTL]
    <2>1. clock + AuthorizationTTL \in Nat
      BY DEF TypeOK
    <2>2. row \in SessionRow /\ row.connector = Null /\ row.superseded = Null
      BY <2>1 DEF SessionRow, Null
    <2>3. session' = [session EXCEPT ![s] = row]
      BY <1>2 DEF Authorize
    <2> HIDE DEF row
    <2> QED
      BY <1>1, <2>2, <2>3, SessionTypeOK
  <1>3. ASSUME NEW p \in DOMAIN pairs, Replace(w, s, p) PROVE TypeOK'
    <2> DEFINE c == grants[pairs[p].grant].connector
               row == [session[s] EXCEPT !.superseded = c]
    <2>1. c \in DOMAIN connectors /\ session[s] \in SessionRow
          /\ session[s].connector \in {Null} \cup DOMAIN connectors
          /\ connectors \in Seq(ConnectorRow)
      BY TypeParts DEF Parts
    <2>2. c \in Nat
      BY <2>1, SeqFacts
    <2>3. row \in SessionRow /\ row.connector = session[s].connector /\ row.superseded = c
      BY <2>1, <2>2 DEF SessionRow
    <2>4. session' = [session EXCEPT ![s] = row]
      BY <1>3 DEF Replace
    <2> HIDE DEF row
    <2> QED
      BY <1>1, <2>1, <2>3, <2>4, SessionTypeOK
  <1> QED
    BY <1>2, <1>3

LEMMA StepTypeOK == TypeOK /\ [Next]_vars => TypeOK'
  <1> SUFFICES ASSUME TypeOK, [Next]_vars PROVE TypeOK'
    OBVIOUS
  <1>1. ASSUME NEW w \in Workers, Crash(w) \/ Abort(w) PROVE TypeOK'
    <2>1. /\ UNCHANGED <<clock, session, connectors, grants, pairs>>
          /\ verifying' \subseteq Workers \X Sessions
      BY <1>1 DEF Crash, Abort, TypeOK
    <2>2. \E step \in {"up", "down"} : Enter(w, Idle(step))
      BY <1>1 DEF Crash, Abort, Return
    <2>3. \A step \in {"up", "down"} : Idle(step) \in Frame /\ Idle(step).step = step
      BY IdleFacts DEF Steps
    <2>4. \A step \in {"up", "down"} : Resolved(Idle(step), connectors, grants, pairs)
      BY <2>3 DEF Resolved
    <2> QED
      BY <2>1, <2>2, <2>3, <2>4, FrameTypeOK
  <1>2. CASE Tick
    <2>1. clock' \in Nat /\ UNCHANGED <<session, connectors, grants, pairs, verifying, frame>>
      BY <1>2 DEF Tick, TypeOK
    <2> QED
      BY <2>1, TypeParts DEF Parts
  <1>3. ASSUME NEW w \in Workers, NEW s \in Sessions,
               PrepareBegin(w, s) \/ PrepareRejected(w, s)
        PROVE  TypeOK'
    <2>1. /\ UNCHANGED <<clock, session, connectors, grants, pairs, frame>>
          /\ verifying' \subseteq Workers \X Sessions
      BY <1>3 DEF PrepareBegin, PrepareRejected, TypeOK
    <2> QED
      BY <2>1, TypeParts DEF Parts
  <1>4. CASE UNCHANGED vars
    BY <1>4, TypeParts DEF Parts, vars
  <1> QED
    BY <1>1, <1>2, <1>3, <1>4, StartTypeOK, PrepareTypeOK, BindTypeOK, DiscardTypeOK,
       CommitReadTypeOK, CommitWriteTypeOK, ActivateReadTypeOK, ActivateWriteTypeOK,
       ExchangeReadTypeOK, ExchangeWriteTypeOK, RefreshReadTypeOK, RefreshWriteTypeOK,
       RevokeTypeOK, SessionWriteTypeOK DEF Next

(* Every table keeps its type, every reference between rows resolves, and so  *)
(* does every reference a handler holds between its read and its write, on    *)
(* both databases (schema of shared_auth.py, shared_lifecycle.py).            *)
THEOREM TypeCorrect == Spec => []TypeOK
  BY InitTypeOK, StepTypeOK, PTL DEF Spec

----------------------------------------------------------------------------
\* The local database: one worker, and what its handler has read stays true.

\* The part of the invariant that is about the tables.
Tables ==
  /\ HandleInv /\ SessionInv /\ TokenInv /\ LiveInv
  /\ SingleUse /\ ReplacementAtomic /\ ActiveAuthority

\* What the handler in frame f has read is still in the tables.
Held(f) ==
  /\ f.step = "binding" =>
        connectors[f.connector].status = "pending" /\ connectors[f.connector].handle = f.session
  /\ f.step = "committing" =>
        /\ connectors[f.connector].status = "pending"
        /\ f.session \in {connectors[f.connector].handle, connectors[f.connector].consumed}
        /\ f.fresh <=> connectors[f.connector].consumed = NoSession
  /\ f.step = "activating" =>
        /\ session[f.session].status = "pending"
        /\ session[f.session].connector = f.connector
        /\ session[f.session].superseded = f.ref
        /\ connectors[f.connector].status = "pending"
        /\ connectors[f.connector].allowed # NoSelection
  /\ f.step = "exchanging" =>
        /\ session[f.session].status = "authorized"
        /\ grants[f.ref].status = "active"
        /\ grants[f.ref].connector = session[f.session].connector
  /\ f.step = "refreshing" => pairs[f.ref].refresh = "live"

LEMMA LocalParts ==
  /\ LocalInv <=> OneWorker /\ Tables /\ \A w \in Workers : Held(frame[w])
  /\ LocalInv' <=> OneWorker' /\ Tables' /\ \A w \in Workers : Held(frame[w])'
  BY DEF LocalInv, Tables, FrameInv, Held

\* The other workers are down while w works, so only its own frame counts.
LEMMA OnlyWorker ==
  ASSUME LocalInv, Tables', NEW w \in Workers, ~In(w, "down"),
         \A v \in Workers \ {w} : frame'[v] = frame[v], Held(frame[w])'
  PROVE  LocalInv'
  <1>1. \A v \in Workers \ {w} : In(v, "down")
    BY LocalParts DEF OneWorker
  <1>2. OneWorker'
    BY <1>1 DEF OneWorker, In
  <1>3. \A v \in Workers \ {w} : Held(frame[v])'
    BY <1>1 DEF Held, In
  <1> QED
    BY <1>2, <1>3, LocalParts

LEMMA TablesKept ==
  ASSUME Tables, UNCHANGED <<session, connectors, grants, pairs>>
  PROVE  Tables'
  BY DEF Tables, HandleInv, SessionInv, TokenInv, LiveInv, SingleUse, ReplacementAtomic,
         ActiveAuthority, ActiveGrants

\* A handler that returns holds nothing.
LEMMA NothingHeld ==
  ASSUME NEW w \in Workers, frame'[w].step \in {"up", "down", "discarding", "committed"}
  PROVE  Held(frame[w])'
  BY DEF Held

\* Writes to pending connectors that do not activate them.
LEMMA PendingConnectors ==
  ASSUME TypeOK, Tables, UNCHANGED <<session, grants, pairs>>,
         DOMAIN connectors \subseteq DOMAIN connectors',
         \A c \in DOMAIN connectors :
            \/ connectors'[c] = connectors[c]
            \/ /\ connectors[c].status = "pending"
               /\ connectors'[c].status \in {"pending", "expired", "deleted"},
         \A c \in DOMAIN connectors' \ DOMAIN connectors : connectors'[c].status = "pending",
         HandleInv',
         \A s \in Sessions :
            session[s].connector # Null
            /\ connectors'[session[s].connector].status \in {"pending", "active"} =>
               s \in {connectors'[session[s].connector].handle,
                      connectors'[session[s].connector].consumed}
  PROVE  Tables'
  <1>1. /\ \A s \in Sessions : /\ session[s].connector \in {Null} \cup DOMAIN connectors
                               /\ session[s].superseded \in {Null} \cup DOMAIN connectors
        /\ \A g \in DOMAIN grants : grants[g].connector \in DOMAIN connectors
    BY TypeParts DEF Parts
  <1>2. SessionInv'
    BY <1>1 DEF Tables, SessionInv
  <1>3. TokenInv' /\ LiveInv' /\ SingleUse'
    BY DEF Tables, TokenInv, LiveInv, SingleUse
  <1>4. ReplacementAtomic'
    BY <1>1 DEF Tables, ReplacementAtomic, ActiveGrants
  <1>5. ActiveAuthority'
    <2> SUFFICES ASSUME NEW c \in DOMAIN connectors' 
                 PROVE  /\ connectors'[c].status = "active" <=> ActiveGrants(c)' # {}
                        /\ \A g, h \in ActiveGrants(c)' : g = h
                        /\ connectors'[c].status = "active" =>
                              /\ connectors'[c].handle = NoSession
                              /\ connectors'[c].consumed # NoSession
                              /\ connectors'[c].allowed # NoSelection
      BY DEF ActiveAuthority
    <2>1. ActiveGrants(c)' = ActiveGrants(c)
      BY DEF ActiveGrants
    <2>2. CASE c \in DOMAIN connectors
      BY <2>1, <2>2 DEF Tables, ActiveAuthority
    <2>3. CASE c \notin DOMAIN connectors
      <3>1. ActiveGrants(c) = {}
        BY <1>1, <2>3 DEF ActiveGrants
      <3> QED
        BY <2>1, <2>3, <3>1
    <2> QED
      BY <2>2, <2>3
  <1> QED
    BY <1>2, <1>3, <1>4, <1>5 DEF Tables

\* Writes to a session that has no code yet.
LEMMA PendingSession ==
  ASSUME TypeOK, Tables, UNCHANGED <<connectors, grants, pairs>>,
         NEW s \in Sessions, session[s].status \in {"absent", "pending"},
         session'[s].status = "pending", \A t \in Sessions \ {s} : session'[t] = session[t],
         SessionInv'
  PROVE  Tables'
  <1>1. HandleInv' /\ LiveInv' /\ SingleUse' /\ ActiveAuthority'
    BY DEF Tables, HandleInv, LiveInv, SingleUse, ActiveAuthority, ActiveGrants
  <1>2. TokenInv'
    <2>1. pairs \in Seq(PairRow)
      BY DEF TypeOK
    <2> SUFFICES ASSUME NEW p \in DOMAIN pairs
                 PROVE  /\ "live" \in {pairs[p].access, pairs[p].refresh} =>
                              grants[pairs[p].grant].status = "active"
                        /\ pairs[p].from_code # NoSession =>
                              session'[pairs[p].from_code].status = "consumed"
                        /\ pairs[p].from_refresh # Null =>
                              /\ pairs[p].from_refresh \in DOMAIN pairs
                              /\ pairs[pairs[p].from_refresh].refresh = "rotated"
                        /\ \E t \in Sessions :
                              /\ session'[t].status = "consumed"
                              /\ session'[t].connector = grants[pairs[p].grant].connector
      BY DEF TokenInv
    <2>2. pairs[p].from_code \in Sessions \cup {NoSession}
      <3>1. pairs[p] \in PairRow
        BY <2>1, SeqFacts
      <3> QED
        BY <3>1 DEF PairRow
    <2>3. \E t \in Sessions : /\ session[t].status = "consumed"
                              /\ session[t].connector = grants[pairs[p].grant].connector
      BY DEF Tables, TokenInv
    <2>4. \A t \in Sessions : session[t].status = "consumed" => session'[t] = session[t]
      OBVIOUS
    <2>5. pairs[p].from_code # NoSession => session'[pairs[p].from_code].status = "consumed"
      BY <2>2, <2>4 DEF Tables, TokenInv
    <2>6. \E t \in Sessions : /\ session'[t].status = "consumed"
                              /\ session'[t].connector = grants[pairs[p].grant].connector
      BY <2>3, <2>4
    <2> QED
      BY <2>5, <2>6 DEF Tables, TokenInv
  <1>3. ReplacementAtomic'
    BY DEF Tables, ReplacementAtomic, ActiveGrants
  <1> QED
    BY <1>1, <1>2, <1>3 DEF Tables

\* Handlers that only read, and the clock.
LEMMA QuietLocal ==
  ASSUME TypeOK, LocalInv, NEW w \in Workers, ~In(w, "down"),
         UNCHANGED <<session, connectors, grants, pairs>>,
         \A v \in Workers \ {w} : frame'[v] = frame[v], Held(frame[w])'
  PROVE  LocalInv'
  BY TablesKept, OnlyWorker, LocalParts

LEMMA StartLocal ==
  ASSUME StorageKind = "local", TypeOK, LocalInv, NEW w \in Workers, Start(w)
  PROVE  LocalInv'
  <1>1. \A v \in Workers : In(v, "down")
    BY DEF Start, LeaseFree
  <1>2. /\ frame'[w].step = "up" /\ \A v \in Workers \ {w} : frame'[v] = frame[v]
    BY ReturnFacts DEF Start, TypeOK
  <1>3. OneWorker'
    BY <1>1, <1>2 DEF OneWorker, In
  <1>4. \A v \in Workers : Held(frame[v])'
    BY <1>1, <1>2 DEF Held, In
  <1>5. UNCHANGED <<session, grants, pairs>> /\ DOMAIN connectors' = DOMAIN connectors
    BY DEF Start
  <1>6. \A c \in DOMAIN connectors :
           \/ connectors'[c] = connectors[c]
           \/ /\ connectors[c].status = "pending" /\ connectors'[c].status = "expired"
              /\ connectors'[c].handle = NoSession
              /\ connectors'[c].consumed = connectors[c].consumed
    <2> SUFFICES ASSUME NEW c \in DOMAIN connectors PROVE <1>6!(c)
      OBVIOUS
    <2>1. connectors[c] \in ConnectorRow
      BY SeqFacts DEF TypeOK
    <2>2. connectors'[c] = Expired(connectors[c])
      BY DEF Start
    <2> QED
      BY <2>1, <2>2 DEF Expired, ConnectorRow
  <1>7. Tables
    BY LocalParts
  <1>8. HandleInv'
    BY <1>5, <1>6, <1>7 DEF Tables, HandleInv
  <1>9. \A s \in Sessions :
            session[s].connector # Null
            /\ connectors'[session[s].connector].status \in {"pending", "active"} =>
               s \in {connectors'[session[s].connector].handle,
                      connectors'[session[s].connector].consumed}
    <2>1. \A s \in Sessions : session[s].connector \in {Null} \cup DOMAIN connectors
      BY TypeParts DEF Parts
    <2> QED
      BY <1>6, <1>7, <2>1 DEF Tables, SessionInv
  <1>10. Tables'
    BY <1>5, <1>6, <1>7, <1>8, <1>9, PendingConnectors
  <1> QED
    BY <1>3, <1>4, <1>10, LocalParts

LEMMA PrepareLocal ==
  ASSUME TypeOK, LocalInv, NEW w \in Workers, NEW s \in Sessions, PrepareStore(w, s)
  PROVE  LocalInv'
  <1> DEFINE new == Len(connectors) + 1
             bind(c) == [Idle("binding") EXCEPT !.session = s, !.connector = c]
  <1>1. connectors \in Seq(ConnectorRow) /\ clock \in Nat /\ Tables
    BY LocalParts DEF TypeOK
  <1>2. \A c \in Nat : bind(c) \in Frame /\ bind(c).step = "binding"
                       /\ bind(c).session = s /\ bind(c).connector = c
    BY DEF Idle, Frame, Steps, Null
  <1>3. UNCHANGED <<session, grants, pairs>> /\ ~In(w, "down")
    BY DEF PrepareStore, Up, In
  <1>4. CASE connectors' = Append(connectors, NewConnector(s)) /\ Enter(w, bind(new))
    <2>1. /\ NewConnector(s) \in ConnectorRow
          /\ NewConnector(s).status = "pending" /\ NewConnector(s).handle = s
          /\ NewConnector(s).consumed = NoSession /\ NewConnector(s).allowed = NoSelection
      BY <1>1 DEF NewConnector, ConnectorRow
    <2>2. /\ DOMAIN connectors' = DOMAIN connectors \cup {new} /\ new \notin DOMAIN connectors
          /\ \A c \in DOMAIN connectors : connectors'[c] = connectors[c]
          /\ connectors'[new] = NewConnector(s)
      BY <1>1, <1>4, <2>1, AppendRow
    <2>3. new \in Nat
      BY <1>1
    <2>4. frame'[w] = bind(new) /\ \A v \in Workers \ {w} : frame'[v] = frame[v]
      BY <1>2, <1>4, <2>3, EnterFacts DEF TypeOK
    <2>5. /\ frame'[w].step = "binding" /\ frame'[w].session = s
          /\ frame'[w].connector = new
      BY ZenonT(40), <1>2, <2>3, <2>4
    <2> HIDE DEF new, bind
    <2>6. HandleInv'
      BY <1>1, <2>1, <2>2 DEF Tables, HandleInv
    <2>7. \A t \in Sessions : session[t].connector \in {Null} \cup DOMAIN connectors
      BY TypeParts DEF Parts
    <2>8. Tables'
      <3>1. \A t \in Sessions :
               session[t].connector # Null
               /\ connectors'[session[t].connector].status \in {"pending", "active"} =>
                  t \in {connectors'[session[t].connector].handle,
                         connectors'[session[t].connector].consumed}
        BY <1>1, <2>2, <2>7 DEF Tables, SessionInv
      <3>2. \A c \in DOMAIN connectors' \ DOMAIN connectors : connectors'[c].status = "pending"
        BY <2>1, <2>2
      <3> QED
        BY <1>1, <1>3, <2>2, <2>6, <3>1, <3>2, PendingConnectors
    <2>9. Held(frame[w])'
      BY <2>1, <2>2, <2>5 DEF Held
    <2> QED
      BY <1>3, <2>4, <2>8, <2>9, OnlyWorker
  <1>5. ASSUME NEW c \in DOMAIN connectors, Enter(w, bind(c)), UNCHANGED connectors,
               connectors[c].handle = s, connectors[c].status = "pending"
        PROVE  LocalInv'
    <2>1. c \in Nat
      BY <1>1
    <2>2. bind(c) \in Frame
      BY <1>2, <2>1
    <2>3. frame'[w] = bind(c) /\ \A v \in Workers \ {w} : frame'[v] = frame[v]
      BY <1>5, <2>2, EnterFacts DEF TypeOK
    <2>4. frame'[w].step = "binding" /\ frame'[w].session = s /\ frame'[w].connector = c
      BY ZenonT(40), <1>2, <2>1, <2>3
    <2>5. Held(frame[w])'
      BY <1>5, <2>4 DEF Held
    <2> QED
      BY <1>3, <1>5, <2>3, <2>5, QuietLocal
  <1> QED
    BY <1>4, <1>5 DEF PrepareStore

LEMMA BindLocal ==
  ASSUME TypeOK, LocalInv, NEW w \in Workers, Bind(w) \/ BindFails(w)
  PROVE  LocalInv'
  <1> DEFINE s == frame[w].session
             c == frame[w].connector
             discard == [frame[w] EXCEPT !.step = "discarding"]
  <1>1. In(w, "binding") /\ UNCHANGED <<clock, connectors, grants, pairs, verifying>>
    BY DEF Bind, BindFails
  <1>2. /\ s \in Sessions /\ c \in DOMAIN connectors /\ frame[w] \in Frame
        /\ session \in [Sessions -> SessionRow]
    BY <1>1 DEF TypeOK, In
  <1>3. connectors[c].handle = s /\ connectors[c].status = "pending" /\ Tables
    BY <1>1, LocalParts DEF Held, In
  <1>4. /\ \A v \in Workers \ {w} : frame'[v] = frame[v]
        /\ frame'[w].step \in {"up", "discarding"}
    <2>1. Return(w) \/ Enter(w, discard)
      BY DEF Bind, BindFails
    <2>2. discard \in Frame /\ discard.step = "discarding"
      BY <1>2 DEF Frame, Steps
    <2> HIDE DEF discard
    <2> QED
      BY <2>1, <2>2, ReturnFacts, EnterFacts DEF TypeOK
  <1>5. Held(frame[w])' /\ ~In(w, "down")
    BY <1>1, <1>4, NothingHeld DEF In
  <1>6. Tables'
    <2>1. \/ UNCHANGED session
          \/ /\ session[s].status = "pending"
             /\ session' = [session EXCEPT ![s].connector = c]
      BY DEF Bind, BindFails, OpenSession
    <2>2. CASE UNCHANGED session
      BY <1>1, <1>3, <2>2, TablesKept
    <2>3. CASE session[s].status = "pending" /\ session' = [session EXCEPT ![s].connector = c]
      <3>1. /\ session'[s].status = "pending" /\ session'[s].connector = c
            /\ session'[s].superseded = session[s].superseded
            /\ \A t \in Sessions \ {s} : session'[t] = session[t]
        BY <1>2, <2>3 DEF SessionRow
      <3>2. SessionInv'
        BY <1>1, <1>3, <3>1 DEF Tables, SessionInv
      <3> QED
        BY <1>1, <1>2, <1>3, <2>3, <3>1, <3>2, PendingSession
    <2> QED
      BY <2>1, <2>2, <2>3
  <1> QED
    BY <1>4, <1>5, <1>6, OnlyWorker

LEMMA DiscardLocal ==
  ASSUME TypeOK, LocalInv, NEW w \in Workers, Discard(w)
  PROVE  LocalInv'
  <1> DEFINE c == frame[w].connector
  <1>1. /\ frame'[w].step = "up" /\ \A v \in Workers \ {w} : frame'[v] = frame[v]
    BY ReturnFacts DEF Discard, TypeOK
  <1>2. UNCHANGED <<session, grants, pairs>> /\ In(w, "discarding") /\ Tables
    BY LocalParts DEF Discard
  <1>3. c \in DOMAIN connectors /\ connectors \in Seq(ConnectorRow)
    BY <1>2 DEF TypeOK, In
  <1>4. Held(frame[w])' /\ ~In(w, "down")
    BY <1>1, <1>2, NothingHeld DEF In
  <1>5. CASE UNCHANGED connectors
    BY <1>1, <1>2, <1>4, <1>5, QuietLocal
  <1>6. CASE connectors[c].status = "pending" /\ connectors' = [connectors EXCEPT ![c] = Deleted(@)]
    <2>1. connectors[c] \in ConnectorRow
      BY <1>3, SeqFacts
    <2>2. /\ Deleted(connectors[c]).status = "deleted"
          /\ Deleted(connectors[c]).handle = NoSession
          /\ Deleted(connectors[c]).consumed = NoSession
      BY <2>1 DEF Deleted, ConnectorRow
    <2>3. /\ DOMAIN connectors' = DOMAIN connectors
          /\ connectors'[c] = Deleted(connectors[c])
          /\ \A d \in DOMAIN connectors \ {c} : connectors'[d] = connectors[d]
      BY <1>3, <1>6
    <2>4. HandleInv'
      BY <1>2, <1>3, <2>2, <2>3 DEF Tables, HandleInv
    <2>5. \A s \in Sessions : session[s].connector \in {Null} \cup DOMAIN connectors
      BY TypeParts DEF Parts
    <2>6. \A s \in Sessions :
            session[s].connector # Null
            /\ connectors'[session[s].connector].status \in {"pending", "active"} =>
               s \in {connectors'[session[s].connector].handle,
                      connectors'[session[s].connector].consumed}
      BY <1>2, <2>2, <2>3, <2>5 DEF Tables, SessionInv
    <2>7. Tables'
      BY <1>2, <1>6, <2>2, <2>3, <2>4, <2>6, PendingConnectors
    <2> QED
      BY <1>1, <1>4, <2>7, OnlyWorker
  <1> QED
    BY <1>5, <1>6 DEF Discard

LEMMA CommitReadLocal ==
  ASSUME TypeOK, LocalInv, NEW w \in Workers, NEW s \in Sessions, NEW selection \in Selections,
         CommitRead(w, s, selection)
  PROVE  LocalInv'
  <1> DEFINE f(c) == [step |-> "committing", session |-> s, connector |-> c,
                      selection |-> selection, ref |-> Null,
                      fresh |-> Consumption(c, selection) = "consume"]
  <1>1. PICK c \in DOMAIN connectors :
           /\ s \in {connectors[c].handle, connectors[c].consumed}
           /\ connectors[c].status = "pending"
           /\ Enter(w, f(c))
    BY DEF CommitRead
  <1>2. c \in Nat
    BY SeqFacts DEF TypeOK
  <1>3. f(c) \in Frame
    BY <1>2 DEF Frame, Steps, Null
  <1>4. /\ f(c).step = "committing" /\ f(c).session = s /\ f(c).connector = c
        /\ f(c).fresh <=> Consumption(c, selection) = "consume"
    OBVIOUS
  <1>5. Consumption(c, selection) = "consume" <=> connectors[c].consumed = NoSession
    BY DEF Consumption
  <1> HIDE DEF f
  <1>6. frame'[w] = f(c) /\ \A v \in Workers \ {w} : frame'[v] = frame[v]
    BY <1>1, <1>3, EnterFacts DEF TypeOK
  <1>7. UNCHANGED <<session, connectors, grants, pairs>> /\ ~In(w, "down")
    BY DEF CommitRead, Up, In
  <1>8. Held(frame[w])'
    BY <1>1, <1>4, <1>5, <1>6, <1>7 DEF Held
  <1> QED
    BY <1>6, <1>7, <1>8, QuietLocal

LEMMA CommitWriteLocal ==
  ASSUME TypeOK, LocalInv, NEW w \in Workers, CommitWrite(w)
  PROVE  LocalInv'
  <1> DEFINE s == frame[w].session
             c == frame[w].connector
             f == [frame[w] EXCEPT !.step = "committed"]
  <1>1. In(w, "committing") /\ UNCHANGED <<session, grants, pairs>> /\ Tables
    BY LocalParts DEF CommitWrite
  <1>2. /\ s \in Sessions /\ c \in DOMAIN connectors /\ frame[w] \in Frame
        /\ frame[w].selection \in Selections /\ connectors \in Seq(ConnectorRow)
    BY <1>1 DEF TypeOK, In
  <1>3. connectors[c] \in ConnectorRow
    BY <1>2, SeqFacts
  <1>4. /\ \A v \in Workers \ {w} : frame'[v] = frame[v]
        /\ frame'[w].step \in {"up", "committed"}
    <2>1. Return(w) \/ Enter(w, f)
      BY DEF CommitWrite
    <2>2. f \in Frame /\ f.step = "committed"
      BY <1>2 DEF Frame, Steps
    <2> HIDE DEF f
    <2> QED
      BY <2>1, <2>2, ReturnFacts, EnterFacts DEF TypeOK
  <1>5. Held(frame[w])' /\ ~In(w, "down")
    BY <1>1, <1>4, NothingHeld DEF In
  <1>6. CASE UNCHANGED connectors
    BY <1>1, <1>4, <1>5, <1>6, QuietLocal
  <1>7. CASE /\ frame[w].fresh
             /\ connectors' = [connectors EXCEPT ![c].allowed = frame[w].selection,
                                                 ![c].handle = NoSession, ![c].consumed = s]
    <2>1. /\ connectors[c].status = "pending" /\ connectors[c].consumed = NoSession
          /\ connectors[c].handle = s
      <3>1. Held(frame[w]) /\ frame[w].step = "committing" /\ frame[w].fresh = TRUE
        BY <1>1, <1>2, <1>7, LocalParts DEF In, Frame
      <3>2. connectors[c].status = "pending" /\ connectors[c].consumed = NoSession
            /\ s \in {connectors[c].handle, connectors[c].consumed}
        BY <3>1 DEF Held
      <3> QED
        BY <1>2, <3>2
    <2>2. /\ DOMAIN connectors' = DOMAIN connectors
          /\ connectors'[c].status = "pending" /\ connectors'[c].handle = NoSession
          /\ connectors'[c].consumed = s
          /\ \A d \in DOMAIN connectors \ {c} : connectors'[d] = connectors[d]
      BY <1>2, <1>3, <1>7, <2>1 DEF ConnectorRow
    <2>3. HandleInv'
      BY <1>1, <1>2, <2>2 DEF Tables, HandleInv
    <2>4. \A t \in Sessions : session[t].connector \in {Null} \cup DOMAIN connectors
      BY TypeParts DEF Parts
    <2>5. \A t \in Sessions :
            session[t].connector # Null
            /\ connectors'[session[t].connector].status \in {"pending", "active"} =>
               t \in {connectors'[session[t].connector].handle,
                      connectors'[session[t].connector].consumed}
      BY <1>1, <2>1, <2>2, <2>4 DEF Tables, SessionInv
    <2>6. Tables'
      BY <1>1, <2>1, <2>2, <2>3, <2>5, PendingConnectors
    <2> QED
      BY <1>4, <1>5, <2>6, OnlyWorker
  <1> QED
    BY <1>6, <1>7 DEF CommitWrite

LEMMA ActivateReadLocal ==
  ASSUME TypeOK, LocalInv, NEW w \in Workers, ActivateRead(w)
  PROVE  LocalInv'
  <1> DEFINE s == frame[w].session
             c == session[s].connector
             f == [Idle("activating") EXCEPT !.session = s, !.connector = c,
                                             !.ref = session[s].superseded]
  <1>1. In(w, "committed") /\ UNCHANGED <<session, connectors, grants, pairs>>
    BY DEF ActivateRead
  <1>2. s \in Sessions /\ session[s] \in SessionRow /\ ~In(w, "down")
    BY <1>1 DEF TypeOK, In
  <1>3. c \in Nat /\ session[s].superseded \in Nat
    BY <1>2 DEF SessionRow
  <1>4. /\ f \in Frame /\ f.step = "activating" /\ f.session = s /\ f.connector = c
        /\ f.ref = session[s].superseded
    BY <1>2, <1>3 DEF Idle, Frame, Steps
  <1>5. CASE Return(w)
    <2>1. frame'[w].step = "up" /\ \A v \in Workers \ {w} : frame'[v] = frame[v]
      BY <1>5, ReturnFacts DEF TypeOK
    <2> QED
      BY <1>1, <1>2, <2>1, NothingHeld, QuietLocal
  <1>6. CASE Complete(s) /\ Enter(w, f)
    <2> HIDE DEF f
    <2>1. frame'[w] = f /\ \A v \in Workers \ {w} : frame'[v] = frame[v]
      BY <1>4, <1>6, EnterFacts DEF TypeOK
    <2>2. Held(frame[w])'
      BY <1>1, <1>4, <1>6, <2>1 DEF Held, Complete, OpenSession
    <2> QED
      BY <1>1, <1>2, <2>1, <2>2, QuietLocal
  <1> QED
    BY <1>5, <1>6 DEF ActivateRead

LEMMA ExchangeReadLocal ==
  ASSUME TypeOK, LocalInv, NEW w \in Workers, NEW s \in Sessions, ExchangeRead(w, s)
  PROVE  LocalInv'
  <1>1. PICK g \in DOMAIN grants :
           /\ grants[g].connector = session[s].connector /\ grants[g].status = "active"
           /\ Enter(w, [Idle("exchanging") EXCEPT !.session = s, !.ref = g])
    BY DEF ExchangeRead, ActiveGrants
  <1> DEFINE f == [Idle("exchanging") EXCEPT !.session = s, !.ref = g]
  <1>2. g \in Nat
    BY SeqFacts DEF TypeOK
  <1>3. f \in Frame /\ f.step = "exchanging" /\ f.session = s /\ f.ref = g
    BY <1>2 DEF Idle, Frame, Steps, Null
  <1>4. Enter(w, f)
    BY <1>1
  <1> HIDE DEF f
  <1>5. frame'[w] = f /\ \A v \in Workers \ {w} : frame'[v] = frame[v]
    BY <1>3, <1>4, EnterFacts DEF TypeOK
  <1>6. /\ UNCHANGED <<session, connectors, grants, pairs>> /\ ~In(w, "down")
        /\ session[s].status = "authorized"
    BY DEF ExchangeRead, Up, In
  <1>7. Held(frame[w])'
    BY <1>1, <1>3, <1>5, <1>6 DEF Held
  <1> QED
    BY <1>5, <1>6, <1>7, QuietLocal

LEMMA RefreshReadLocal ==
  ASSUME TypeOK, LocalInv, NEW w \in Workers, NEW p \in DOMAIN pairs, RefreshRead(w, p)
  PROVE  LocalInv'
  <1> DEFINE f == [Idle("refreshing") EXCEPT !.ref = p]
  <1>1. p \in Nat
    BY SeqFacts DEF TypeOK
  <1>2. f \in Frame /\ f.step = "refreshing" /\ f.ref = p
    BY <1>1 DEF Idle, Frame, Steps, Null
  <1>3. Enter(w, f) /\ UNCHANGED <<session, connectors, grants, pairs>> /\ ~In(w, "down")
    BY DEF RefreshRead, Up, In
  <1>4. pairs[p].refresh = "live"
    BY DEF RefreshRead, TokenRow
  <1> HIDE DEF f
  <1>5. frame'[w] = f /\ \A v \in Workers \ {w} : frame'[v] = frame[v]
    BY <1>2, <1>3, EnterFacts DEF TypeOK
  <1>6. Held(frame[w])'
    BY <1>2, <1>3, <1>4, <1>5 DEF Held
  <1> QED
    BY <1>3, <1>5, <1>6, QuietLocal

LEMMA SessionWriteLocal ==
  ASSUME TypeOK, LocalInv, NEW w \in Workers, NEW s \in Sessions,
         Authorize(w, s) \/ \E p \in DOMAIN pairs : Replace(w, s, p)
  PROVE  LocalInv'
  <1>1. /\ UNCHANGED <<connectors, grants, pairs, frame>> /\ Up(w) /\ Tables
        /\ session \in [Sessions -> SessionRow]
    BY LocalParts DEF Authorize, Replace, TypeOK
  <1>2. Held(frame[w])' /\ ~In(w, "down")
    BY <1>1, NothingHeld DEF Up, In
  <1>3. CASE Authorize(w, s)
    <2>1. /\ session'[s].status = "pending" /\ session'[s].connector = Null
          /\ session'[s].superseded = Null /\ session[s].status = "absent"
          /\ \A t \in Sessions \ {s} : session'[t] = session[t]
      BY <1>1, <1>3 DEF Authorize
    <2>2. SessionInv'
      BY <1>1, <2>1 DEF Tables, SessionInv
    <2>3. Tables'
      BY <1>1, <2>1, <2>2, PendingSession
    <2> QED
      BY <1>1, <1>2, <2>3, OnlyWorker
  <1>4. ASSUME NEW p \in DOMAIN pairs, Replace(w, s, p) PROVE LocalInv'
    <2> DEFINE c == grants[pairs[p].grant].connector
    <2>1. /\ session'[s].status = "pending" /\ session'[s].connector = session[s].connector
          /\ session'[s].superseded = c /\ session[s].status = "pending"
          /\ \A t \in Sessions \ {s} : session'[t] = session[t]
      BY <1>1, <1>4 DEF Replace, OpenSession, SessionRow
    <2>2. connectors[c].status = "active"
      BY <1>4 DEF Replace, TokenRow
    <2>3. SessionInv'
      BY <1>1, <2>1, <2>2 DEF Tables, SessionInv
    <2>4. Tables'
      BY <1>1, <2>1, <2>3, PendingSession
    <2> QED
      BY <1>1, <1>2, <2>4, OnlyWorker
  <1> QED
    BY <1>3, <1>4

\* Rows that only lose live tokens keep what TokenInv, LiveInv and SingleUse
\* say of the pairs.
LEMMA PairsEnd ==
  ASSUME TypeOK, Tables, NEW old, pairs' = RevokedPairs(old),
         DOMAIN grants \subseteq DOMAIN grants',
         \A g \in DOMAIN grants :
            /\ grants'[g].connector = grants[g].connector
            /\ grants[g].status = "active" /\ grants[g].connector # old => grants'[g].status = "active",
         \A t \in Sessions : session[t].status = "consumed" => session'[t] = session[t]
  PROVE  /\ TokenInv' /\ LiveInv' /\ SingleUse'
         /\ \A p \in DOMAIN pairs' :
               /\ p \in DOMAIN pairs /\ pairs'[p].grant = pairs[p].grant
               /\ pairs'[p].access = "live" => pairs[p].access = "live"
               /\ pairs'[p].refresh = "live" => pairs[p].refresh = "live"
               /\ grants[pairs[p].grant].connector = old =>
                     pairs'[p].access # "live" /\ pairs'[p].refresh # "live"
  <1>1. pairs \in Seq(PairRow) /\ \A p \in DOMAIN pairs : pairs[p].grant \in DOMAIN grants
    BY TypeParts DEF Parts
  <1>2. /\ DOMAIN pairs' = DOMAIN pairs
        /\ \A p \in DOMAIN pairs :
               /\ SameOrigin(pairs'[p], pairs[p])
               /\ pairs[p].grant \in ActiveGrants(old) =>
                     /\ pairs'[p].access = Ended(pairs[p].access)
                     /\ pairs'[p].refresh = Ended(pairs[p].refresh)
               /\ pairs[p].grant \notin ActiveGrants(old) =>
                     /\ pairs'[p].access = pairs[p].access
                     /\ pairs'[p].refresh = pairs[p].refresh
    BY <1>1, RevokedPairsFacts
  <1>3. \A p \in DOMAIN pairs :
           /\ pairs'[p].access = "live" =>
                 pairs[p].access = "live" /\ pairs[p].grant \notin ActiveGrants(old)
           /\ pairs'[p].refresh = "live" =>
                 pairs[p].refresh = "live" /\ pairs[p].grant \notin ActiveGrants(old)
           /\ pairs[p].refresh = "rotated" => pairs'[p].refresh = "rotated"
           /\ pairs'[p].grant = pairs[p].grant /\ pairs'[p].from_code = pairs[p].from_code
           /\ pairs'[p].from_refresh = pairs[p].from_refresh
    BY <1>2 DEF Ended, SameOrigin
  <1>4. LiveInv' /\ SingleUse'
    BY <1>2, <1>3 DEF Tables, LiveInv, SingleUse
  <1>5. TokenInv'
    <2> SUFFICES ASSUME NEW p \in DOMAIN pairs
                 PROVE  /\ "live" \in {pairs'[p].access, pairs'[p].refresh} =>
                              grants'[pairs'[p].grant].status = "active"
                        /\ pairs'[p].from_code # NoSession =>
                              session'[pairs'[p].from_code].status = "consumed"
                        /\ pairs'[p].from_refresh # Null =>
                              /\ pairs'[p].from_refresh \in DOMAIN pairs'
                              /\ pairs'[pairs'[p].from_refresh].refresh = "rotated"
                        /\ \E t \in Sessions :
                              /\ session'[t].status = "consumed"
                              /\ session'[t].connector = grants'[pairs'[p].grant].connector
      BY <1>2 DEF TokenInv
    <2>1. pairs[p] \in PairRow /\ pairs[p].grant \in DOMAIN grants
      BY <1>1, SeqFacts
    <2>2. pairs[p].from_code \in Sessions \cup {NoSession}
      BY <2>1 DEF PairRow
    <2>3. "live" \in {pairs'[p].access, pairs'[p].refresh} => grants'[pairs'[p].grant].status = "active"
      BY <1>3, <2>1 DEF Tables, TokenInv, ActiveGrants
    <2>4. pairs'[p].from_code # NoSession => session'[pairs'[p].from_code].status = "consumed"
      BY <1>3, <2>2 DEF Tables, TokenInv
    <2>5. pairs'[p].from_refresh # Null =>
              /\ pairs'[p].from_refresh \in DOMAIN pairs'
              /\ pairs'[pairs'[p].from_refresh].refresh = "rotated"
      BY <1>2, <1>3 DEF Tables, TokenInv
    <2>6. \E t \in Sessions : /\ session'[t].status = "consumed"
                              /\ session'[t].connector = grants'[pairs'[p].grant].connector
      <3>1. PICK t \in Sessions : /\ session[t].status = "consumed"
                                  /\ session[t].connector = grants[pairs[p].grant].connector
        BY DEF Tables, TokenInv
      <3> QED
        BY <1>3, <2>1, <3>1
    <2> QED
      BY <2>3, <2>4, <2>5, <2>6
  <1>6. \A p \in DOMAIN pairs : grants[pairs[p].grant].connector = old =>
                                   pairs'[p].access # "live" /\ pairs'[p].refresh # "live"
    BY <1>1, <1>3 DEF Tables, TokenInv, ActiveGrants
  <1> QED
    BY <1>2, <1>3, <1>4, <1>5, <1>6

\* To show ReplacementAtomic after a step, one superseded connector at a time.
LEMMA ReplacementRule ==
  ASSUME \A t \in Sessions : session'[t].superseded \in {Null} \cup DOMAIN connectors,
         \A t \in Sessions, gone \in DOMAIN connectors :
            /\ session'[t].status \in {"authorized", "consumed"}
            /\ gone = session'[t].superseded /\ gone # Null
            => /\ connectors'[gone].status # "active"
               /\ ActiveGrants(gone)' = {}
               /\ \A p \in DOMAIN pairs' :
                     grants'[pairs'[p].grant].connector = gone =>
                        pairs'[p].access # "live" /\ pairs'[p].refresh # "live"
  PROVE  ReplacementAtomic'
  BY DEF ReplacementAtomic, ActiveGrants

LEMMA ActivateWriteLocal ==
  ASSUME TypeOK, LocalInv, NEW w \in Workers, ActivateWrite(w)
  PROVE  LocalInv'
  <1> DEFINE s == frame[w].session
             c == frame[w].connector
             old == frame[w].ref
             n == Len(grants) + 1
  <1>1. In(w, "activating") /\ pairs' = RevokedPairs(old) /\ Tables
    BY LocalParts DEF ActivateWrite
  <1>2. s \in Sessions /\ c \in DOMAIN connectors /\ old \in {Null} \cup DOMAIN connectors
    BY ActivateFacts
  <1>3. /\ session[s].status = "pending" /\ session[s].connector = c /\ session[s].superseded = old
        /\ connectors[c].status = "pending" /\ connectors[c].allowed # NoSelection
    BY <1>1, LocalParts DEF Held, In
  <1>4. /\ connectors[c].consumed # NoSession /\ connectors[c].handle = NoSession
        /\ old # Null => connectors[old].status \in {"active", "revoked"}
        /\ old # c
    <2>1. c # Null
      BY <1>2, SeqFacts DEF TypeOK, Null
    <2>2. connectors[c].consumed # NoSession /\ connectors[c].handle = NoSession
      BY <1>1, <1>2, <1>3 DEF Tables, HandleInv
    <2>3. old # Null => connectors[old].status \in {"active", "revoked"}
      BY <1>1, <1>2, <1>3 DEF Tables, SessionInv
    <2> QED
      BY <1>3, <2>1, <2>2, <2>3
  <1>5. /\ DOMAIN connectors' = DOMAIN connectors
        /\ \A d \in DOMAIN connectors :
              /\ connectors'[d].handle = connectors[d].handle
              /\ connectors'[d].consumed = connectors[d].consumed
              /\ connectors'[d].allowed = connectors[d].allowed
              /\ d = c => connectors'[d].status = "active"
              /\ d = old => connectors'[d].status = "revoked"
              /\ d # c /\ d # old => connectors'[d].status = connectors[d].status
    <2>1. \A d \in DOMAIN connectors :
               LET activates == d = c /\ connectors[d].status = "pending"
                   status == IF activates THEN "active" ELSE connectors[d].status
               IN  /\ connectors'[d].handle = IF activates THEN NoSession ELSE connectors[d].handle
                   /\ connectors'[d].consumed = connectors[d].consumed
                   /\ connectors'[d].allowed = connectors[d].allowed
                   /\ connectors'[d].status =
                         IF d = old /\ status \in {"pending", "active"} THEN "revoked" ELSE status
      BY ActivateFacts
    <2>2. DOMAIN connectors' = DOMAIN connectors
      BY ActivateFacts
    <2>3. old \in DOMAIN connectors => old # Null
      BY SeqFacts DEF TypeOK, Null
    <2> QED
      BY <1>3, <1>4, <2>1, <2>2, <2>3
  <1>6. /\ DOMAIN grants' = DOMAIN grants \cup {n} /\ n \notin DOMAIN grants
        /\ \A g \in DOMAIN grants :
              /\ grants'[g].connector = grants[g].connector
              /\ grants'[g].status = IF grants[g].connector = old THEN "revoked" ELSE grants[g].status
        /\ grants'[n].connector = c /\ grants'[n].status = "active"
    BY <1>4, ActivateFacts
  <1>7. /\ session'[s].status = "authorized"
        /\ session'[s].connector = c /\ session'[s].superseded = old
        /\ \A t \in Sessions \ {s} : session'[t] = session[t]
    <2>1. session \in [Sessions -> SessionRow]
      BY DEF TypeOK
    <2>2. session' = [session EXCEPT ![s].status = "authorized"]
      BY <1>3 DEF ActivateWrite
    <2> HIDE DEF s, c, old
    <2> QED
      BY <1>2, <1>3, <2>1, <2>2 DEF SessionRow
  <1>8. /\ frame'[w].step = "up" /\ \A v \in Workers \ {w} : frame'[v] = frame[v]
    BY ReturnFacts DEF ActivateWrite, TypeOK
  <1>9. Held(frame[w])' /\ ~In(w, "down")
    BY <1>1, <1>8, NothingHeld DEF In
  <1> HIDE DEF s, c, old, n
  <1>10. /\ \A t \in Sessions : /\ session[t].connector \in {Null} \cup DOMAIN connectors
                                /\ session[t].superseded \in {Null} \cup DOMAIN connectors
         /\ \A g \in DOMAIN grants : grants[g].connector \in DOMAIN connectors
         /\ \A p \in DOMAIN pairs : pairs[p].grant \in DOMAIN grants
    BY TypeParts DEF Parts
  <1>11. HandleInv'
    BY <1>1, <1>3, <1>4, <1>5 DEF Tables, HandleInv
  <1>12. SessionInv'
    <2> SUFFICES ASSUME NEW t \in Sessions
                 PROVE  /\ session'[t].connector # Null
                           /\ connectors'[session'[t].connector].status \in {"pending", "active"} =>
                             t \in {connectors'[session'[t].connector].handle,
                                    connectors'[session'[t].connector].consumed}
                        /\ session'[t].superseded # Null =>
                              connectors'[session'[t].superseded].status \in {"active", "revoked"}
      BY DEF SessionInv
    <2>1. /\ session'[t].connector = session[t].connector
          /\ session'[t].superseded = session[t].superseded
      BY <1>3, <1>7
    <2>2. \A d \in DOMAIN connectors :
             /\ connectors'[d].status \in {"pending", "active"} =>
                   connectors[d].status \in {"pending", "active"}
             /\ connectors[d].status \in {"active", "revoked"} =>
                   connectors'[d].status \in {"active", "revoked"}
      BY <1>3, <1>5
    <2> QED
      BY <1>1, <1>5, <1>10, <2>1, <2>2 DEF Tables, SessionInv
  <1>13. \A t \in Sessions : session[t].status = "consumed" => session'[t] = session[t]
    BY <1>3, <1>7
  <1>14. /\ TokenInv' /\ LiveInv' /\ SingleUse'
         /\ \A p \in DOMAIN pairs' :
               /\ p \in DOMAIN pairs /\ pairs'[p].grant = pairs[p].grant
               /\ pairs'[p].access = "live" => pairs[p].access = "live"
               /\ pairs'[p].refresh = "live" => pairs[p].refresh = "live"
               /\ grants[pairs[p].grant].connector = old =>
                     pairs'[p].access # "live" /\ pairs'[p].refresh # "live"
    BY <1>1, <1>6, <1>13, PairsEnd
  <1>15. ASSUME NEW d \in DOMAIN connectors
         PROVE  /\ d = c => ActiveGrants(d)' = {n}
                /\ d = old => ActiveGrants(d)' = {}
                /\ d # c /\ d # old => ActiveGrants(d)' = ActiveGrants(d)
    <2>1. d = c => ActiveGrants(d) = {}
      BY <1>1, <1>2, <1>3 DEF Tables, ActiveAuthority
    <2>2. d = c => ActiveGrants(d)' = {n}
      BY <1>4, <1>6, <2>1 DEF ActiveGrants
    <2>3. d = old => ActiveGrants(d)' = {}
      BY <1>4, <1>6 DEF ActiveGrants
    <2>4. d # c /\ d # old => ActiveGrants(d)' = ActiveGrants(d)
      BY <1>6 DEF ActiveGrants
    <2> QED
      BY <2>2, <2>3, <2>4
  <1>16. ActiveAuthority'
    <2> SUFFICES ASSUME NEW d \in DOMAIN connectors
                 PROVE  /\ connectors'[d].status = "active" <=> ActiveGrants(d)' # {}
                        /\ \A g, h \in ActiveGrants(d)' : g = h
                        /\ connectors'[d].status = "active" =>
                              /\ connectors'[d].handle = NoSession
                              /\ connectors'[d].consumed # NoSession
                              /\ connectors'[d].allowed # NoSelection
      BY <1>5 DEF ActiveAuthority
    <2>1. CASE d = c
      <3>1. ActiveGrants(d)' = {n} /\ connectors'[d].status = "active"
        BY <1>5, <1>15, <2>1
      <3>2. /\ connectors'[d].handle = NoSession /\ connectors'[d].consumed # NoSession
            /\ connectors'[d].allowed # NoSelection
        BY <1>3, <1>4, <1>5, <2>1
      <3> QED
        BY <3>1, <3>2
    <2>2. CASE d = old
      BY <1>5, <1>15, <2>2
    <2>3. CASE d # c /\ d # old
      BY <1>1, <1>5, <1>15, <2>3 DEF Tables, ActiveAuthority
    <2> QED
      BY <2>1, <2>2, <2>3
  <1>17. ReplacementAtomic'
    <2>1. \A p \in DOMAIN pairs' : /\ p \in DOMAIN pairs
                                   /\ grants'[pairs'[p].grant].connector
                                        = grants[pairs[p].grant].connector
      BY <1>6, <1>10, <1>14
    <2>2. ASSUME NEW t \in Sessions, session'[t].status \in {"authorized", "consumed"},
                 NEW gone \in DOMAIN connectors, gone = session'[t].superseded, gone # Null
          PROVE  /\ connectors'[gone].status # "active"
                 /\ ActiveGrants(gone)' = {}
                 /\ \A p \in DOMAIN pairs' :
                       grants'[pairs'[p].grant].connector = gone =>
                          pairs'[p].access # "live" /\ pairs'[p].refresh # "live"
      <3>1. CASE t = s
        <4>1. gone = old
          BY <1>7, <2>2, <3>1
        <4> QED
          BY <1>5, <1>14, <1>15, <2>1, <4>1
      <3>2. CASE t # s
        <4>1. session'[t] = session[t] /\ gone = session[t].superseded
          BY <1>7, <2>2, <3>2
        <4>2. /\ connectors[gone].status # "active" /\ ActiveGrants(gone) = {}
              /\ \A p \in DOMAIN pairs : grants[pairs[p].grant].connector = gone =>
                                            pairs[p].access # "live" /\ pairs[p].refresh # "live"
          BY <1>1, <2>2, <4>1 DEF Tables, ReplacementAtomic
        <4>3. connectors[gone].status \in {"active", "revoked"}
          BY <1>1, <2>2, <4>1 DEF Tables, SessionInv
        <4>4. gone # c
          BY <1>3, <4>3
        <4>5. /\ connectors'[gone].status # "active" /\ ActiveGrants(gone)' = {}
          BY <1>5, <1>15, <4>2, <4>4
        <4>6. \A p \in DOMAIN pairs' : grants'[pairs'[p].grant].connector = gone =>
                                          pairs'[p].access # "live" /\ pairs'[p].refresh # "live"
          BY <1>14, <2>1, <4>2
        <4> QED
          BY <4>5, <4>6
      <3> QED
        BY <3>1, <3>2
    <2>3. \A t \in Sessions : session'[t].superseded \in {Null} \cup DOMAIN connectors
      BY <1>3, <1>7, <1>10
    <2> QED
      BY <2>2, <2>3, ReplacementRule
  <1>18. Tables'
    BY <1>11, <1>12, <1>14, <1>16, <1>17 DEF Tables
  <1> QED
    BY <1>8, <1>9, <1>18, OnlyWorker

LEMMA RevokeLocal ==
  ASSUME TypeOK, LocalInv, NEW w \in Workers, NEW p \in DOMAIN pairs,
         NEW type \in {"access", "refresh"}, Revoke(w, p, type)
  PROVE  LocalInv'
  <1> DEFINE c == grants[pairs[p].grant].connector
  <1>1. /\ UNCHANGED <<session, frame>> /\ Up(w) /\ connectors[c].status = "active"
        /\ connectors' = RevokedConnectors(connectors, c)
        /\ grants' = RevokedGrants(grants, c) /\ pairs' = RevokedPairs(c) /\ Tables
    BY LocalParts DEF Revoke, TokenRow
  <1>2. /\ \A t \in Sessions : /\ session[t].connector \in {Null} \cup DOMAIN connectors
                               /\ session[t].superseded \in {Null} \cup DOMAIN connectors
        /\ \A g \in DOMAIN grants : grants[g].connector \in DOMAIN connectors
        /\ \A q \in DOMAIN pairs : pairs[q].grant \in DOMAIN grants
        /\ connectors \in Seq(ConnectorRow) /\ grants \in Seq(GrantRow)
    BY TypeParts DEF Parts
  <1>3. c \in DOMAIN connectors
    BY <1>2
  <1> HIDE DEF c
  <1>4. /\ DOMAIN connectors' = DOMAIN connectors
        /\ \A d \in DOMAIN connectors :
              /\ connectors'[d].handle = connectors[d].handle
              /\ connectors'[d].consumed = connectors[d].consumed
              /\ connectors'[d].allowed = connectors[d].allowed
              /\ d = c => connectors'[d].status = "revoked"
              /\ d # c => connectors'[d].status = connectors[d].status
    BY <1>1, <1>2, RevokedConnectorsFacts
  <1>5. /\ DOMAIN grants' = DOMAIN grants
        /\ \A g \in DOMAIN grants :
              /\ grants'[g].connector = grants[g].connector
              /\ grants'[g].status = IF grants[g].connector = c THEN "revoked" ELSE grants[g].status
    BY <1>1, <1>2, RevokedGrantsFacts
  <1>6. HandleInv'
    BY <1>1, <1>4 DEF Tables, HandleInv
  <1>7. SessionInv'
    BY <1>1, <1>2, <1>4 DEF Tables, SessionInv
  <1>8. /\ TokenInv' /\ LiveInv' /\ SingleUse'
        /\ \A q \in DOMAIN pairs' :
              /\ q \in DOMAIN pairs /\ pairs'[q].grant = pairs[q].grant
              /\ pairs'[q].access = "live" => pairs[q].access = "live"
              /\ pairs'[q].refresh = "live" => pairs[q].refresh = "live"
    BY <1>1, <1>5, PairsEnd
  <1>9. ASSUME NEW d \in DOMAIN connectors
        PROVE  /\ d = c => ActiveGrants(d)' = {}
               /\ d # c => ActiveGrants(d)' = ActiveGrants(d)
    BY <1>5 DEF ActiveGrants
  <1>10. ActiveAuthority'
    BY <1>1, <1>4, <1>9 DEF Tables, ActiveAuthority
  <1>11. ReplacementAtomic'
    <2>1. \A q \in DOMAIN pairs' : /\ q \in DOMAIN pairs
                                   /\ grants'[pairs'[q].grant].connector
                                        = grants[pairs[q].grant].connector
      BY <1>2, <1>5, <1>8
    <2>2. ASSUME NEW t \in Sessions, session'[t].status \in {"authorized", "consumed"},
                 NEW gone \in DOMAIN connectors, gone = session'[t].superseded, gone # Null
          PROVE  /\ connectors'[gone].status # "active"
                 /\ ActiveGrants(gone)' = {}
                 /\ \A q \in DOMAIN pairs' :
                       grants'[pairs'[q].grant].connector = gone =>
                          pairs'[q].access # "live" /\ pairs'[q].refresh # "live"
      <3>1. /\ connectors[gone].status # "active" /\ ActiveGrants(gone) = {}
            /\ \A q \in DOMAIN pairs : grants[pairs[q].grant].connector = gone =>
                                          pairs[q].access # "live" /\ pairs[q].refresh # "live"
        BY <1>1, <2>2 DEF Tables, ReplacementAtomic
      <3>2. connectors'[gone].status # "active" /\ ActiveGrants(gone)' = {}
        BY <1>4, <1>9, <3>1
      <3>3. \A q \in DOMAIN pairs' : grants'[pairs'[q].grant].connector = gone =>
                                        pairs'[q].access # "live" /\ pairs'[q].refresh # "live"
        BY <1>8, <2>1, <3>1
      <3> QED
        BY <3>2, <3>3
    <2>3. \A t \in Sessions : session'[t].superseded \in {Null} \cup DOMAIN connectors
      BY <1>1, <1>2
    <2> QED
      BY <2>2, <2>3, ReplacementRule
  <1>12. Tables'
    BY <1>6, <1>7, <1>8, <1>10, <1>11 DEF Tables
  <1>13. Held(frame[w])' /\ ~In(w, "down")
    BY <1>1, NothingHeld DEF Up, In
  <1> QED
    BY <1>1, <1>12, <1>13, OnlyWorker

\* A write that issues a pair and leaves connectors and grants alone: what it
\* issues belongs to an active grant, so nothing superseded comes back.
LEMMA IssueKeepsReplaced ==
  ASSUME TypeOK, Tables, UNCHANGED <<connectors, grants>>,
         \A t \in Sessions : session'[t].superseded = session[t].superseded,
         \A t \in Sessions : session'[t].status \in {"authorized", "consumed"} =>
                                session[t].status \in {"authorized", "consumed"},
         NEW n, DOMAIN pairs' = DOMAIN pairs \cup {n},
         \A q \in DOMAIN pairs :
            /\ pairs'[q].grant = pairs[q].grant
            /\ pairs'[q].access = "live" => pairs[q].access = "live"
            /\ pairs'[q].refresh = "live" => pairs[q].refresh = "live",
         pairs'[n].grant \in DOMAIN grants, grants[pairs'[n].grant].status = "active"
  PROVE  ReplacementAtomic'
  <1>1. \A t \in Sessions : session'[t].superseded \in {Null} \cup DOMAIN connectors
    BY TypeParts DEF Parts
  <1>2. ASSUME NEW t \in Sessions, session'[t].status \in {"authorized", "consumed"},
               NEW gone \in DOMAIN connectors, gone = session'[t].superseded, gone # Null
        PROVE  /\ connectors'[gone].status # "active"
               /\ ActiveGrants(gone)' = {}
               /\ \A q \in DOMAIN pairs' :
                     grants'[pairs'[q].grant].connector = gone =>
                        pairs'[q].access # "live" /\ pairs'[q].refresh # "live"
    <2>1. /\ connectors[gone].status # "active" /\ ActiveGrants(gone) = {}
          /\ \A q \in DOMAIN pairs : grants[pairs[q].grant].connector = gone =>
                                        pairs[q].access # "live" /\ pairs[q].refresh # "live"
      <3>1. gone = session[t].superseded /\ session[t].status \in {"authorized", "consumed"}
        BY <1>2
      <3>2. ReplacementAtomic
        BY DEF Tables
      <3> HIDE DEF Null
      <3> QED
        BY <1>2, <3>1, <3>2 DEF ReplacementAtomic
    <2>2. ActiveGrants(gone)' = ActiveGrants(gone)
      BY DEF ActiveGrants
    <2>3. grants[pairs'[n].grant].connector # gone
      BY <2>1 DEF ActiveGrants
    <2> QED
      BY <2>1, <2>2, <2>3
  <1> QED
    BY <1>1, <1>2, ReplacementRule

LEMMA ExchangeWriteLocal ==
  ASSUME TypeOK, LocalInv, NEW w \in Workers, ExchangeWrite(w)
  PROVE  LocalInv'
  <1> DEFINE s == frame[w].session
             g == frame[w].ref
             n == Len(pairs) + 1
  <1>1. /\ In(w, "exchanging") /\ UNCHANGED <<connectors, grants>> /\ Tables
        /\ session' = [session EXCEPT ![s].status = "consumed"]
        /\ pairs' = Issue(pairs, g, s, Null)
    BY LocalParts DEF ExchangeWrite
  <1>2. /\ s \in Sessions /\ g \in DOMAIN grants /\ g \in Nat /\ Null \in Nat
        /\ pairs \in Seq(PairRow) /\ session \in [Sessions -> SessionRow] /\ clock \in Nat
        /\ s # NoSession
    BY <1>1 DEF TypeOK, In, Frame, Null
  <1>3. /\ session[s].status = "authorized" /\ grants[g].status = "active"
        /\ grants[g].connector = session[s].connector
    BY <1>1, LocalParts DEF Held, In
  <1>4. /\ frame'[w].step = "up" /\ \A v \in Workers \ {w} : frame'[v] = frame[v]
    BY ReturnFacts DEF ExchangeWrite, TypeOK
  <1>5. Held(frame[w])' /\ ~In(w, "down")
    BY <1>1, <1>4, NothingHeld DEF In
  <1> HIDE DEF s, g
  <1>6. PICK row \in PairRow : pairs' = Append(pairs, row) /\ Issued(row, g, s, Null)
    <2>1. s \in Sessions \cup {NoSession}
      BY <1>2
    <2> QED
      BY <1>1, <1>2, <2>1, IssueFacts
  <1>7. /\ DOMAIN pairs' = DOMAIN pairs \cup {n} /\ n \notin DOMAIN pairs
        /\ \A p \in DOMAIN pairs : pairs'[p] = pairs[p]
        /\ pairs'[n].grant = g /\ pairs'[n].access = "live" /\ pairs'[n].refresh = "live"
        /\ pairs'[n].from_code = s /\ pairs'[n].from_refresh = Null
    BY <1>2, <1>6, AppendRow DEF Issued
  <1> HIDE DEF n
  <1>8. /\ session'[s].status = "consumed" /\ session'[s].connector = session[s].connector
        /\ session'[s].superseded = session[s].superseded
        /\ \A t \in Sessions \ {s} : session'[t] = session[t]
    BY <1>1, <1>2 DEF SessionRow
  <1>9. \A p \in DOMAIN pairs : /\ pairs[p] \in PairRow /\ pairs[p].grant \in DOMAIN grants
                                /\ pairs[p].from_code \in Sessions \cup {NoSession}
    <2>1. \A p \in DOMAIN pairs : pairs[p] \in PairRow
      BY <1>2, SeqFacts
    <2> QED
      BY <2>1, TypeParts DEF Parts, PairRow
  <1>10. \A p \in DOMAIN pairs : pairs[p].grant # g
    <2> SUFFICES ASSUME NEW p \in DOMAIN pairs, pairs[p].grant = g PROVE FALSE
      OBVIOUS
    <2> DEFINE c == grants[g].connector
    <2>1. PICK t \in Sessions : session[t].status = "consumed" /\ session[t].connector = c
      BY <1>1 DEF Tables, TokenInv
    <2>2. c \in DOMAIN connectors
      BY <1>2, TypeParts DEF Parts
    <2>3. c # Null
      BY <2>2, SeqFacts DEF TypeOK, Null
    <2>4. connectors[c].status = "active" /\ connectors[c].handle = NoSession
      <3>1. g \in ActiveGrants(c)
        BY <1>2, <1>3 DEF ActiveGrants
      <3> QED
        BY <1>1, <2>2, <3>1 DEF Tables, ActiveAuthority
    <2>5. s = connectors[c].consumed /\ t = connectors[c].consumed
      <3>1. \A r \in Sessions : r # NoSession
        OBVIOUS
      <3> QED
        BY <1>1, <1>2, <1>3, <2>1, <2>3, <2>4, <3>1 DEF Tables, SessionInv
    <2> QED
      BY <1>3, <2>1, <2>5
  <1>11. \A p \in DOMAIN pairs : pairs[p].from_code # s
    BY <1>1, <1>2, <1>3 DEF Tables, TokenInv
  <1>12. HandleInv' /\ ActiveAuthority'
    BY <1>1 DEF Tables, HandleInv, ActiveAuthority, ActiveGrants
  <1>13. SessionInv'
    BY <1>1, <1>2, <1>8 DEF Tables, SessionInv
  <1>14. TokenInv'
    <2>1. ASSUME NEW p \in DOMAIN pairs
          PROVE  /\ "live" \in {pairs'[p].access, pairs'[p].refresh} =>
                       grants'[pairs'[p].grant].status = "active"
                 /\ pairs'[p].from_code # NoSession =>
                       session'[pairs'[p].from_code].status = "consumed"
                 /\ pairs'[p].from_refresh # Null =>
                       /\ pairs'[p].from_refresh \in DOMAIN pairs'
                       /\ pairs'[pairs'[p].from_refresh].refresh = "rotated"
                 /\ \E t \in Sessions :
                       /\ session'[t].status = "consumed"
                       /\ session'[t].connector = grants'[pairs'[p].grant].connector
      <3>1. \A t \in Sessions : session[t].status = "consumed" => session'[t] = session[t]
        BY <1>3, <1>8
      <3>2. PICK t \in Sessions : /\ session[t].status = "consumed"
                                  /\ session[t].connector = grants[pairs[p].grant].connector
        BY <1>1 DEF Tables, TokenInv
      <3>3. \E r \in Sessions :
                       /\ session'[r].status = "consumed"
                       /\ session'[r].connector = grants'[pairs'[p].grant].connector
        BY <1>1, <1>7, <3>1, <3>2
      <3>4. pairs'[p].from_code # NoSession => session'[pairs'[p].from_code].status = "consumed"
        BY <1>1, <1>7, <1>9, <3>1 DEF Tables, TokenInv
      <3> QED
        BY <1>1, <1>7, <3>3, <3>4 DEF Tables, TokenInv
    <2>2. /\ grants'[pairs'[n].grant].status = "active"
          /\ session'[pairs'[n].from_code].status = "consumed"
          /\ pairs'[n].from_refresh = Null
          /\ session'[s].status = "consumed"
          /\ session'[s].connector = grants'[pairs'[n].grant].connector
      BY <1>1, <1>3, <1>7, <1>8
    <2> QED
      BY <1>2, <1>7, <2>1, <2>2 DEF TokenInv
  <1>15. LiveInv'
    BY <1>1, <1>7, <1>10 DEF Tables, LiveInv
  <1>16. SingleUse'
    BY <1>1, <1>7, <1>11 DEF Tables, SingleUse
  <1>17. ReplacementAtomic'
    <2>1. \A t \in Sessions : session'[t].superseded = session[t].superseded
      BY <1>8
    <2>2. \A t \in Sessions : session'[t].status \in {"authorized", "consumed"} =>
                                session[t].status \in {"authorized", "consumed"}
      BY <1>3, <1>8
    <2> QED
      BY <1>1, <1>2, <1>3, <1>7, <2>1, <2>2, IssueKeepsReplaced
  <1>18. Tables'
    BY <1>12, <1>13, <1>14, <1>15, <1>16, <1>17 DEF Tables
  <1> QED
    BY <1>4, <1>5, <1>18, OnlyWorker

LEMMA RefreshWriteLocal ==
  ASSUME TypeOK, LocalInv, NEW w \in Workers, RefreshWrite(w)
  PROVE  LocalInv'
  <1> DEFINE p == frame[w].ref
             n == Len(pairs) + 1
  <1>1. In(w, "refreshing") /\ UNCHANGED <<session, connectors, grants>> /\ Tables
    BY LocalParts DEF RefreshWrite
  <1>2. /\ frame'[w].step = "up" /\ \A v \in Workers \ {w} : frame'[v] = frame[v]
    BY ReturnFacts DEF RefreshWrite, TypeOK
  <1>3. Held(frame[w])' /\ ~In(w, "down")
    BY <1>1, <1>2, NothingHeld DEF In
  <1>4. pairs[p].refresh = "live"
    BY <1>1, LocalParts DEF Held, In
  <1>5. /\ p \in DOMAIN pairs /\ DOMAIN pairs' = DOMAIN pairs \cup {n} /\ n \notin DOMAIN pairs
        /\ \A q \in DOMAIN pairs :
              /\ SameOrigin(pairs'[q], pairs[q])
              /\ pairs'[q].refresh = IF q = p THEN "rotated" ELSE pairs[q].refresh
              /\ pairs'[q].access = IF pairs[q].grant = pairs[p].grant
                                      THEN Ended(pairs[q].access) ELSE pairs[q].access
        /\ pairs'[n].grant = pairs[p].grant
        /\ pairs'[n].access = "live" /\ pairs'[n].refresh = "live"
        /\ pairs'[n].from_code = NoSession /\ pairs'[n].from_refresh = p
    BY RefreshFacts
  <1> HIDE DEF n, p
  <1>6. /\ \A q \in DOMAIN pairs : pairs[q].grant \in DOMAIN grants
        /\ p # Null
    BY SMTT(30), <1>5, TypeParts, SeqFacts DEF Parts, Null
  <1>7. grants[pairs[p].grant].status = "active"
    BY <1>1, <1>4, <1>5 DEF Tables, TokenInv
  <1>8. \A q \in DOMAIN pairs :
           /\ pairs'[q].grant = pairs[q].grant /\ pairs'[q].from_code = pairs[q].from_code
           /\ pairs'[q].from_refresh = pairs[q].from_refresh
           /\ pairs'[q].access = "live" =>
                 pairs[q].access = "live" /\ pairs[q].grant # pairs[p].grant
           /\ pairs'[q].refresh = "live" => pairs[q].refresh = "live" /\ q # p
           /\ pairs[q].refresh = "rotated" => pairs'[q].refresh = "rotated"
    BY <1>5 DEF SameOrigin, Ended
  <1>9. HandleInv' /\ SessionInv' /\ ActiveAuthority'
    BY <1>1 DEF Tables, HandleInv, SessionInv, ActiveAuthority, ActiveGrants
  <1>10. TokenInv'
    <2>1. ASSUME NEW q \in DOMAIN pairs
          PROVE  /\ "live" \in {pairs'[q].access, pairs'[q].refresh} =>
                       grants'[pairs'[q].grant].status = "active"
                 /\ pairs'[q].from_code # NoSession =>
                       session'[pairs'[q].from_code].status = "consumed"
                 /\ pairs'[q].from_refresh # Null =>
                       /\ pairs'[q].from_refresh \in DOMAIN pairs'
                       /\ pairs'[pairs'[q].from_refresh].refresh = "rotated"
                 /\ \E t \in Sessions :
                       /\ session'[t].status = "consumed"
                       /\ session'[t].connector = grants'[pairs'[q].grant].connector
      BY <1>1, <1>5, <1>8 DEF Tables, TokenInv
    <2>2. /\ grants'[pairs'[n].grant].status = "active"
          /\ pairs'[n].from_code = NoSession
          /\ pairs'[n].from_refresh \in DOMAIN pairs'
          /\ pairs'[pairs'[n].from_refresh].refresh = "rotated"
      BY <1>1, <1>5, <1>7
    <2>3. \E t \in Sessions :
             /\ session'[t].status = "consumed"
             /\ session'[t].connector = grants'[pairs'[n].grant].connector
      BY <1>1, <1>5 DEF Tables, TokenInv
    <2> QED
      BY <1>5, <2>1, <2>2, <2>3 DEF TokenInv
  <1>11. LiveInv'
    <2>1. \A q \in DOMAIN pairs : pairs[q].grant = pairs[p].grant =>
                                     pairs'[q].access # "live" /\ pairs'[q].refresh # "live"
      BY <1>1, <1>4, <1>5, <1>8 DEF Tables, LiveInv
    <2> QED
      BY <1>1, <1>5, <1>8, <2>1 DEF Tables, LiveInv
  <1>12. SingleUse'
    <2>1. \A q \in DOMAIN pairs : pairs[q].from_refresh # p
      BY <1>1, <1>4, <1>6 DEF Tables, TokenInv
    <2> QED
      BY <1>1, <1>5, <1>8, <2>1 DEF Tables, SingleUse
  <1>13. ReplacementAtomic'
    BY <1>1, <1>5, <1>6, <1>7, <1>8, IssueKeepsReplaced
  <1>14. Tables'
    BY <1>9, <1>10, <1>11, <1>12, <1>13 DEF Tables
  <1> QED
    BY <1>2, <1>3, <1>14, OnlyWorker

LEMMA InitLocalInv == Init => LocalInv
  <1> SUFFICES ASSUME Init PROVE LocalInv
    OBVIOUS
  <1>1. \A w \in Workers : frame[w].step = "down"
    BY DEF Init, Idle
  <1>2. /\ connectors = <<>> /\ grants = <<>> /\ pairs = <<>>
        /\ \A s \in Sessions : /\ session[s].connector = Null /\ session[s].superseded = Null
    BY DEF Init
  <1>3. OneWorker /\ \A w \in Workers : Held(frame[w])
    BY <1>1 DEF OneWorker, In, Held
  <1>4. Tables
    BY <1>2 DEF Tables, HandleInv, SessionInv, TokenInv, LiveInv, SingleUse, ReplacementAtomic,
                ActiveAuthority
  <1> QED
    BY <1>3, <1>4, LocalParts

LEMMA StepLocalInv ==
  ASSUME StorageKind = "local"
  PROVE  TypeOK /\ LocalInv /\ [Next]_vars => LocalInv'
  <1> SUFFICES ASSUME TypeOK, LocalInv, [Next]_vars PROVE LocalInv'
    OBVIOUS
  <1>1. ASSUME NEW w \in Workers, Crash(w) \/ Abort(w) PROVE LocalInv'
    <2>1. UNCHANGED <<session, connectors, grants, pairs>> /\ ~In(w, "down")
      BY <1>1 DEF Crash, Abort, In
    <2>2. \E step \in {"up", "down"} : Enter(w, Idle(step))
      BY <1>1 DEF Crash, Abort, Return
    <2>3. \A step \in {"up", "down"} : Idle(step) \in Frame /\ Idle(step).step = step
      BY IdleFacts DEF Steps
    <2>4. /\ frame'[w].step \in {"up", "down"}
          /\ \A v \in Workers \ {w} : frame'[v] = frame[v]
      BY <2>2, <2>3, EnterFacts DEF TypeOK
    <2> QED
      BY <2>1, <2>4, NothingHeld, QuietLocal
  <1>2. CASE \/ Tick \/ UNCHANGED vars
             \/ \E w \in Workers, s \in Sessions : PrepareBegin(w, s) \/ PrepareRejected(w, s)
    <2>1. UNCHANGED <<session, connectors, grants, pairs, frame>>
      BY <1>2 DEF Tick, vars, PrepareBegin, PrepareRejected
    <2>2. Tables'
      BY <2>1, TablesKept, LocalParts
    <2>3. OneWorker' /\ \A w \in Workers : Held(frame[w])'
      BY <2>1, LocalParts DEF OneWorker, In, Held
    <2> QED
      BY <2>2, <2>3, LocalParts
  <1> QED
    BY <1>1, <1>2, StartLocal, PrepareLocal, BindLocal, DiscardLocal,
       CommitReadLocal, CommitWriteLocal, ActivateReadLocal, ActivateWriteLocal,
       ExchangeReadLocal, ExchangeWriteLocal, RefreshReadLocal, RefreshWriteLocal,
       RevokeLocal, SessionWriteLocal DEF Next

(* With the writer lease of a local database the whole invariant holds: one   *)
(* worker, and nothing a handler has read changes before it writes.           *)
THEOREM LocalInvariant == StorageKind = "local" => (Spec => []LocalInv)
  <1> SUFFICES ASSUME StorageKind = "local" PROVE Spec => []LocalInv
    OBVIOUS
  <1>1. TypeOK /\ LocalInv /\ [Next]_vars => LocalInv'
    BY StepLocalInv
  <1> QED
    BY <1>1, InitLocalInv, TypeCorrect, PTL DEF Spec

(* An authorization code and a refresh token each yield at most one pair of   *)
(* tokens (exchange_authorization_code, exchange_refresh_token).              *)
THEOREM CodesAreSingleUse == StorageKind = "local" => (Spec => []SingleUse)
  <1>1. LocalInv => SingleUse
    BY DEF LocalInv
  <1> QED
    BY <1>1, LocalInvariant, PTL

(* Of the tokens of a grant at most one of each kind is accepted at any time  *)
(* (_token_row).                                                              *)
THEOREM AcceptedPairUnique == StorageKind = "local" => (Spec => []OneAcceptedPair)
  <1>1. LocalInv => OneAcceptedPair
    BY DEF LocalInv, LiveInv, OneAcceptedPair, TokenRow
  <1> QED
    BY <1>1, LocalInvariant, PTL

(* Once the replacing session has its code, nothing of the superseded         *)
(* connector is accepted (activate_connector).                                *)
THEOREM ReplacementIsAtomic == StorageKind = "local" => (Spec => []ReplacementAtomic)
  <1>1. LocalInv => ReplacementAtomic
    BY DEF LocalInv
  <1> QED
    BY <1>1, LocalInvariant, PTL

(* A connector is active exactly while it has its one active grant, with its  *)
(* handle consumed and its companies selected (the schema's triggers).        *)
THEOREM AuthorityIsActive == StorageKind = "local" => (Spec => []ActiveAuthority)
  <1>1. LocalInv => ActiveAuthority
    BY DEF LocalInv
  <1> QED
    BY <1>1, LocalInvariant, PTL

\* A connector whose handle is consumed keeps the companies selected for it.
Kept(c) ==
  connectors[c].consumed # NoSession => connectors'[c].allowed = connectors[c].allowed

LEMMA StepSelection ==
  TypeOK /\ LocalInv /\ [Next]_vars => [\A c \in DOMAIN connectors : Kept(c)]_vars
  <1> SUFFICES ASSUME TypeOK, LocalInv, Next PROVE \A c \in DOMAIN connectors : Kept(c)
    BY DEF vars
  <1>1. connectors \in Seq(ConnectorRow) /\ \A c \in DOMAIN connectors : connectors[c] \in ConnectorRow
    BY SeqFacts DEF TypeOK
  <1>2. CASE UNCHANGED connectors
    BY <1>2 DEF Kept
  <1>3. ASSUME NEW w \in Workers, Start(w) PROVE \A c \in DOMAIN connectors : Kept(c)
    <2> SUFFICES ASSUME NEW c \in DOMAIN connectors PROVE Kept(c)
      OBVIOUS
    <2>1. connectors'[c] = Expired(connectors[c])
      BY <1>3 DEF Start
    <2> QED
      BY <1>1, <2>1 DEF Expired, ConnectorRow, Kept
  <1>4. ASSUME NEW w \in Workers, NEW s \in Sessions, PrepareStore(w, s)
        PROVE  \A c \in DOMAIN connectors : Kept(c)
    <2>1. NewConnector(s) \in ConnectorRow
      BY DEF NewConnector, ConnectorRow, TypeOK
    <2>2. UNCHANGED connectors \/ connectors' = Append(connectors, NewConnector(s))
      BY <1>4 DEF PrepareStore
    <2> QED
      <3>1. UNCHANGED connectors \/ \A c \in DOMAIN connectors : connectors'[c] = connectors[c]
        BY SMTT(30), <1>1, <2>1, <2>2, AppendRow
      <3> QED
        BY <3>1 DEF Kept
  <1>5. ASSUME NEW w \in Workers, Discard(w) PROVE \A c \in DOMAIN connectors : Kept(c)
    <2> DEFINE d == frame[w].connector
    <2>1. UNCHANGED connectors \/ connectors' = [connectors EXCEPT ![d] = Deleted(@)]
      BY <1>5 DEF Discard
    <2>2. \A c \in DOMAIN connectors : Deleted(connectors[c]).allowed = connectors[c].allowed
      BY <1>1 DEF Deleted, ConnectorRow
    <2> HIDE DEF d
    <2> QED
      BY <1>1, <2>1, <2>2 DEF Kept
  <1>6. ASSUME NEW w \in Workers, CommitWrite(w) PROVE \A c \in DOMAIN connectors : Kept(c)
    <2> DEFINE d == frame[w].connector
    <2>1. CASE UNCHANGED connectors
      BY <2>1 DEF Kept
    <2>2. CASE /\ frame[w].fresh
               /\ connectors' = [connectors EXCEPT ![d].allowed = frame[w].selection,
                                     ![d].handle = NoSession, ![d].consumed = frame[w].session]
      <3>1. Held(frame[w]) /\ frame[w].step = "committing" /\ frame[w].fresh = TRUE
        BY <1>6, <2>2, LocalParts DEF CommitWrite, In, TypeOK, Frame
      <3>2. connectors[d].consumed = NoSession
        BY <3>1 DEF Held
      <3>3. \A c \in DOMAIN connectors \ {d} : connectors'[c] = connectors[c]
        BY <2>2
      <3> QED
        BY <3>2, <3>3 DEF Kept
    <2> QED
      BY <1>6, <2>1, <2>2 DEF CommitWrite
  <1>7. ASSUME NEW w \in Workers, ActivateWrite(w) PROVE \A c \in DOMAIN connectors : Kept(c)
    BY <1>7, ActivateFacts DEF Kept
  <1>8. ASSUME NEW w \in Workers, NEW p \in DOMAIN pairs, NEW type \in {"access", "refresh"},
               Revoke(w, p, type)
        PROVE  \A c \in DOMAIN connectors : Kept(c)
    BY <1>1, <1>8, RevokedConnectorsFacts DEF Revoke, Kept
  <1>9. ASSUME NEW w \in Workers, NEW s \in Sessions,
               \/ Authorize(w, s) \/ PrepareBegin(w, s) \/ PrepareRejected(w, s)
               \/ ExchangeRead(w, s)
               \/ \E selection \in Selections : CommitRead(w, s, selection)
               \/ \E p \in DOMAIN pairs : Replace(w, s, p)
        PROVE  UNCHANGED connectors
    BY <1>9 DEF Authorize, PrepareBegin, PrepareRejected, ExchangeRead, CommitRead, Replace
  <1>10. ASSUME NEW w \in Workers,
                \/ Crash(w) \/ Abort(w) \/ Bind(w) \/ BindFails(w) \/ ActivateRead(w)
                \/ ExchangeWrite(w) \/ RefreshWrite(w) \/ \E p \in DOMAIN pairs : RefreshRead(w, p)
         PROVE  UNCHANGED connectors
    BY <1>10 DEF Crash, Abort, Bind, BindFails, ActivateRead, ExchangeWrite, RefreshWrite,
                 RefreshRead
  <1>11. CASE Tick
    BY <1>2, <1>11 DEF Tick
  <1> QED
    BY <1>2, <1>3, <1>4, <1>5, <1>6, <1>7, <1>8, <1>9, <1>10, <1>11 DEF Next

(* The companies a user selected for a handle are never exchanged for others  *)
(* (commit_enrollment).                                                       *)
THEOREM SelectionIsStable == StorageKind = "local" => (Spec => SelectionStable)
  <1> SUFFICES ASSUME StorageKind = "local" PROVE Spec => SelectionStable
    OBVIOUS
  <1>1. Spec => []LocalInv
    BY LocalInvariant
  <1>2. TypeOK /\ LocalInv /\ [Next]_vars =>
          [\A c \in DOMAIN connectors :
              connectors[c].consumed # NoSession =>
                 connectors'[c].allowed = connectors[c].allowed]_vars
    BY StepSelection DEF Kept
  <1> QED
    BY <1>1, <1>2, TypeCorrect, PTL DEF Spec, SelectionStable

=============================================================================
