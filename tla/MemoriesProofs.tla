---------------------------- MODULE MemoriesProofs -----------------------------
(***************************************************************************)
(* Proofs about Memories, for any sessions, memories, caps and bounds.     *)
(*                                                                         *)
(* What is committed changes only when a call commits.  So the invariant   *)
(* says of every call under way how the rows it has written come from the  *)
(* committed ones, which its row locks keep as they are, and what has      *)
(* become of the rows it has passed over.  Two facts relate the sessions:  *)
(* no row is locked twice, and no relationship is added to a memory that   *)
(* another session is erasing.                                             *)
(***************************************************************************)
EXTENDS Memories, FiniteSetTheorems, WellFoundedInduction, TLAPS

-----------------------------------------------------------------------------
(* Types *)

States == {"none", "live", "deleted", "erased"}
Ops == {"none", "store", "forget", "gdpr_delete", "sweep", "retention", "recall",
        "update", "transition", "decay"}
Steps == {"idle", "cascade", "hash", "delete", "select", "rows", "link", "version", "cert", "commit"}

\* A call that has still to select what it will write.
Selecting == {"cascade", "hash", "delete", "select"}

RowType == [st : States, n : Nat]
EventType == {"store", "forget", "gdpr_delete"} \X Mems \X Orgs
CertType == [ids : SUBSET Mems, hashed : SUBSET Mems, hard : BOOLEAN]
ResultType == {"stored", "forgotten"} \X Mems \X BOOLEAN
CallType == [op : Ops, org : Orgs \cup {"nobody"}, step : Steps, ids : SUBSET Mems,
             seen : SUBSET Mems, todo : SUBSET Mems, hashed : SUBSET Mems, excess : Int,
             link : Mems \cup {NoMem}, sign : BOOLEAN]
TxType == [rows : UNION {[D -> RowType] : D \in SUBSET Mems}, links : SUBSET (Mems \X Mems),
           unlinked : SUBSET (Mems \X Mems), events : SUBSET EventType,
           versions : SUBSET Mems, certs : SUBSET CertType, aborted : BOOLEAN]

\* The committed tables.
TablesOK ==
    /\ row \in [Mems -> RowType] /\ org \in [Mems -> Orgs] /\ rels \subseteq Mems \X Mems
    /\ events \subseteq EventType /\ versioned \subseteq Mems /\ certs \subseteq CertType

TypeOK ==
    /\ TablesOK
    /\ call \in [Sessions -> CallType] /\ tx \in [Sessions -> TxType]
    /\ reported \subseteq ResultType
    /\ bumps \in [Mems -> Nat] /\ swallowed \in BOOLEAN
    /\ requests \in 0 .. MaxRequests /\ faults \in 0 .. MaxFaults

-----------------------------------------------------------------------------
(* The inductive invariant *)

\* How a call of kind o writes a row.
Becomes(o, old, new) ==
    \/ o = "store" /\ old = [st |-> "none", n |-> 0] /\ new = [st |-> "live", n |-> 0]
    \/ o = "recall" /\ old.st \in Present /\ new = [old EXCEPT !.n = @ + 1]
    \/ o = "gdpr_delete" /\ old.st \in Present /\ new = [old EXCEPT !.st = "erased"]
    \/ /\ o \in {"forget", "sweep", "retention"}
       /\ old.st \in Present /\ new = [old EXCEPT !.st = "deleted"]

\* The states a row can be in when a call of kind o has nothing to write there.
Passes(o) == IF o \in {"forget", "update"} THEN {"deleted", "erased"} ELSE {"erased"}

\* A call c and what its transaction t has written.
RowsFit(c, t) ==
    /\ c.todo \subseteq c.seen /\ c.seen \subseteq c.ids
    /\ DOMAIN t.rows \subseteq c.ids \ c.todo
    /\ \A m \in DOMAIN t.rows : Becomes(c.op, row[m], t.rows[m]) /\ org[m] = c.org
    /\ c.op # "store" => DOMAIN t.rows \subseteq c.seen
    /\ \A m \in c.seen : row[m].st # "none" /\ org[m] = c.org
    /\ \A m \in c.seen \ (c.todo \cup DOMAIN t.rows) : row[m].st \in Passes(c.op)
    /\ c.op = "recall" => c.seen = c.ids /\ \A m \in c.ids \ c.todo : \A x \in c.todo : m < x

\* What has a hash was there when it was hashed: the statement that deletes finds
\* its row, or it has been erased meanwhile.
HashFits(c) ==
    /\ c.hashed \subseteq c.ids
    /\ \A m \in c.hashed : row[m].st # "none" /\ org[m] = c.org
    /\ c.step \notin Selecting => \A m \in c.hashed \ c.seen : row[m].st = "erased"

\* A store has its row, and only then a relationship, to a memory that is there.
StoreFits(c, t) ==
    /\ c.op = "store" => \E m \in Mems : c.ids = {m} /\ DOMAIN t.rows = {m} /\ c.seen = {}
    /\ c.op = "store" => c.step \in {"link", "version", "commit"} /\ c.link \notin c.ids
    /\ c.step = "link" => c.op = "store" /\ c.link \in Mems
    /\ c.step = "version" => c.op = "store"
    /\ \A r \in t.links : /\ c.op = "store" /\ r[1] \in DOMAIN t.rows
                          /\ r[2] \notin DOMAIN t.rows /\ row[r[2]].st \in Present

\* The relationships of what is erased go too.
EraseFits(c, t) ==
    c.op = "gdpr_delete" => \A m \in DOMAIN t.rows : Touching(m) \subseteq t.unlinked

\* What is left to do, and what is said when nothing is.
EndFits(c, t) ==
    /\ c.step = "idle" => c = Idle /\ t = NoTx
    /\ c.step \in Selecting => t = NoTx /\ c.seen = {} /\ c.todo = {} /\ c.org \in Orgs
    /\ c.step \in {"cascade", "hash", "delete"} => c.op \in {"forget", "gdpr_delete"}
    /\ c.step \in {"cascade", "select"} => c.hashed = {}
    /\ c.step = "select" => c.op = "retention"
    /\ c.step = "rows" => c.org \in Orgs
    /\ c.step \in {"cert", "commit"} =>
          /\ c.todo = {}
          /\ c.op = "gdpr_delete" => \A m \in c.ids : <<"gdpr_delete", m, c.org>> \in t.events
          /\ c.op \in {"forget", "sweep", "retention"} =>
                \A m \in c.ids : <<"forget", m, c.org>> \in t.events
    /\ c.sign => c.op \in {"forget", "gdpr_delete"}
    /\ c.step = "cert" => c.sign
    /\ \A x \in t.certs : /\ c.step = "commit" /\ c.op \in {"forget", "gdpr_delete"}
                          /\ x.hashed = c.hashed /\ x.hard = (c.op = "gdpr_delete")

Fits(c, t) == RowsFit(c, t) /\ HashFits(c) /\ StoreFits(c, t) /\ EraseFits(c, t) /\ EndFits(c, t)

\* No row is locked twice.
LocksExclusive == \A s, t \in Sessions : s # t => Locks(s) \cap Locks(t) = {}

\* No relationship is added to a memory that another session is erasing.
LinksGuarded ==
    \A s, t \in Sessions :
        s # t /\ call[s].op = "gdpr_delete" => \A r \in tx[t].links : Ends(r) \cap Locks(s) = {}

CallsFit ==
    /\ \A s \in Sessions : Fits(call[s], tx[s]) /\ (tx[s].aborted => swallowed)
    /\ LocksExclusive /\ LinksGuarded

\* A row that was never written has not been counted on.
CountsFit == NoLostBump /\ \A m \in Mems : row[m].st = "none" => row[m].n = 0 /\ bumps[m] = 0

IInv ==
    /\ TypeOK /\ CallsFit
    /\ DeletionsAudited /\ RelationsJoinMemories /\ CountsFit /\ CertificatesTruthful
    /\ ReportedHoldsUnlessSwallowed

-----------------------------------------------------------------------------
(* Lemmas about the operators *)

LEMMA NoRowsTyped == NoRows \in UNION {[D -> RowType] : D \in SUBSET Mems} /\ DOMAIN NoRows = {}
<1>1. NoRows \in [{} -> RowType]
  BY DEF NoRows
<1> QED
  BY <1>1

LEMMA IdleTyped ==
    /\ Idle \in CallType /\ NoTx \in TxType
    /\ Idle.op = "none" /\ Idle.step = "idle" /\ Idle.ids = {} /\ Idle.seen = {} /\ Idle.todo = {}
    /\ Idle.hashed = {} /\ Idle.org = "nobody"
    /\ Idle.link = NoMem /\ Idle.sign = FALSE
    /\ DOMAIN NoTx.rows = {} /\ NoTx.links = {} /\ NoTx.unlinked = {} /\ NoTx.events = {}
    /\ NoTx.versions = {} /\ NoTx.certs = {} /\ NoTx.aborted = FALSE
  BY NoRowsTyped DEF Idle, NoTx, CallType, TxType, Ops, Steps

LEMMA InitInvariant == Init => IInv
<1> SUFFICES ASSUME Init PROVE IInv
  OBVIOUS
<1>1. TypeOK
  <2>1. row \in [Mems -> RowType] /\ org \in [Mems -> Orgs]
    BY DEF Init, RowType, States
  <2>2. rels \subseteq Mems \X Mems /\ events \subseteq EventType /\ versioned \subseteq Mems
    <3>1. rels \subseteq Mems \X Mems /\ versioned \subseteq Mems
      BY DEF Init
    <3>2. events \subseteq EventType
      BY <2>1 DEF Init, EventType
    <3> QED
      BY <3>1, <3>2
  <2>3. Idle \in CallType
    BY DEF Idle, CallType, Ops, Steps
  <2>4. NoTx \in TxType
    BY NoRowsTyped DEF NoTx, TxType
  <2>5. call \in [Sessions -> CallType] /\ tx \in [Sessions -> TxType]
    BY <2>3, <2>4 DEF Init
  <2>6. requests \in 0 .. MaxRequests /\ faults \in 0 .. MaxFaults
    BY LimitsAssumption DEF Init
  <2>7. certs \subseteq CertType /\ reported \subseteq ResultType
    BY DEF Init
  <2>8. bumps \in [Mems -> Nat] /\ swallowed \in BOOLEAN
    BY DEF Init
  <2> QED
    BY <2>1, <2>2, <2>5, <2>6, <2>7, <2>8 DEF TypeOK, TablesOK
<1>2. \A s \in Sessions : Fits(call[s], tx[s])
  BY DEF Init, Fits, RowsFit, HashFits, Selecting, StoreFits, EraseFits, EndFits, Idle, NoTx, NoRows
<1>3. CallsFit
  BY <1>2 DEF Init, CallsFit, LocksExclusive, LinksGuarded, Locks, Idle, NoTx, NoRows
<1>4. DeletionsAudited /\ RelationsJoinMemories /\ CertificatesTruthful
  BY DEF Init, DeletionsAudited, RelationsJoinMemories, CertificatesTruthful, Ends, Present
<1>5. CountsFit /\ ReportedHoldsUnlessSwallowed
  BY DEF Init, CountsFit, NoLostBump, ReportedHoldsUnlessSwallowed, ReportedHolds, Present
<1> QED
  BY <1>1, <1>3, <1>4, <1>5 DEF IInv

-----------------------------------------------------------------------------
(* Steps that commit nothing *)

\* Session s goes on to c and t: it is enough to look at them, and at the
\* locks and relationships of the others.
LEMMA SessionStep ==
    ASSUME IInv, NEW s \in Sessions, NEW c \in CallType, NEW t \in TxType,
           call' = [call EXCEPT ![s] = c], tx' = [tx EXCEPT ![s] = t],
           UNCHANGED <<tables, bumps>>,
           UNCHANGED reported \/ (swallowed' /\ reported' \subseteq ResultType),
           swallowed' \in BOOLEAN, swallowed => swallowed',
           requests' \in 0 .. MaxRequests, faults' \in 0 .. MaxFaults,
           Fits(c, t), t.aborted => swallowed',
           \A u \in Sessions \ {s} :
              /\ DOMAIN t.rows \cap Locks(u) = {}
              /\ c.op = "gdpr_delete" => \A r \in tx[u].links : Ends(r) \cap DOMAIN t.rows = {}
              /\ call[u].op = "gdpr_delete" => \A r \in t.links : Ends(r) \cap Locks(u) = {}
    PROVE  IInv'
<1>1. TypeOK'
  BY DEF IInv, TypeOK, TablesOK, tables
<1>2. /\ call'[s] = c /\ tx'[s] = t
      /\ \A u \in Sessions \ {s} : call'[u] = call[u] /\ tx'[u] = tx[u]
  BY DEF IInv, TypeOK
<1>3. ASSUME NEW u \in Sessions PROVE Fits(call[u], tx[u])' /\ (tx'[u].aborted => swallowed')
  <2>1. CASE u = s
    BY <1>2, <2>1 DEF Fits, RowsFit, HashFits, StoreFits, EraseFits, EndFits, Touching, tables
  <2>2. CASE u # s
    <3>1. Fits(call[u], tx[u]) /\ (tx[u].aborted => swallowed)
      BY DEF IInv, CallsFit
    <3> QED
      BY <1>2, <2>2, <3>1 DEF Fits, RowsFit, HashFits, StoreFits, EraseFits, EndFits, Touching, tables
  <2> QED
    BY <2>1, <2>2
<1>4. LocksExclusive'
  BY <1>2 DEF IInv, CallsFit, LocksExclusive, Locks
<1>5. LinksGuarded'
  <2> SUFFICES ASSUME NEW u \in Sessions, NEW v \in Sessions, u # v, call'[u].op = "gdpr_delete",
                      NEW r \in tx'[v].links
               PROVE  Ends(r) \cap DOMAIN tx'[u].rows = {}
    BY DEF LinksGuarded, Locks, Ends
  <2>1. CASE u = s
    BY <1>2, <2>1
  <2>2. CASE v = s
    BY <1>2, <2>2 DEF Locks
  <2>3. CASE u # s /\ v # s
    BY <1>2, <2>3 DEF IInv, CallsFit, LinksGuarded, Locks
  <2> QED
    BY <2>1, <2>2, <2>3
<1>6. DeletionsAudited' /\ RelationsJoinMemories' /\ CertificatesTruthful'
  BY DEF IInv, DeletionsAudited, RelationsJoinMemories, CertificatesTruthful, Ends, tables
<1>7. CountsFit' /\ ReportedHoldsUnlessSwallowed'
  BY DEF IInv, CountsFit, NoLostBump, ReportedHoldsUnlessSwallowed, ReportedHolds, TypeOK, tables
<1> QED
  BY <1>1, <1>3, <1>4, <1>5, <1>6, <1>7 DEF IInv, CallsFit

\* A call that goes on without writing keeps its locks and relationships.
LEMMA CallGoesOn ==
    ASSUME IInv, NEW s \in Sessions, NEW c \in CallType,
           call' = [call EXCEPT ![s] = c], UNCHANGED tx,
           UNCHANGED <<tables, reported, bumps>>, swallowed' \in BOOLEAN, swallowed => swallowed',
           requests' \in 0 .. MaxRequests, faults' \in 0 .. MaxFaults,
           c.op = call[s].op, Fits(c, tx[s])
    PROVE  IInv'
<1> DEFINE t == tx[s]
<1>1. t \in TxType /\ tx' = [tx EXCEPT ![s] = t]
  BY DEF IInv, TypeOK
<1>2. t.aborted => swallowed'
  BY DEF IInv, CallsFit
<1>3. ASSUME NEW u \in Sessions \ {s}
      PROVE  /\ DOMAIN t.rows \cap Locks(u) = {}
             /\ c.op = "gdpr_delete" => \A r \in tx[u].links : Ends(r) \cap DOMAIN t.rows = {}
             /\ call[u].op = "gdpr_delete" => \A r \in t.links : Ends(r) \cap Locks(u) = {}
  <2>1. DOMAIN t.rows = Locks(s)
    BY DEF Locks
  <2> QED
    BY <2>1 DEF IInv, CallsFit, LocksExclusive, LinksGuarded
<1>4. Fits(c, t)
  OBVIOUS
<1> HIDE DEF t
<1> QED
  BY <1>1, <1>2, <1>3, <1>4, SessionStep

\* A transaction that is rolled back leaves nothing.
LEMMA RolledBack ==
    ASSUME IInv, NEW s \in Sessions, Rollback(s),
           UNCHANGED <<tables, bumps>>, UNCHANGED swallowed,
           UNCHANGED reported \/ (swallowed /\ reported' \subseteq ResultType),
           requests' \in 0 .. MaxRequests, faults' \in 0 .. MaxFaults
    PROVE  IInv'
<1>1. Idle \in CallType /\ NoTx \in TxType
  BY IdleTyped
<1>2. Fits(Idle, NoTx) /\ ~NoTx.aborted /\ DOMAIN NoTx.rows = {} /\ NoTx.links = {}
      /\ Idle.op # "gdpr_delete"
  BY NoRowsTyped DEF Fits, RowsFit, HashFits, Selecting, StoreFits, EraseFits, EndFits, Idle, NoTx
<1>3. swallowed' \in BOOLEAN
  BY DEF IInv, TypeOK
<1> QED
  BY <1>1, <1>2, <1>3, SessionStep DEF Rollback

-----------------------------------------------------------------------------
(* Calls begin *)

LEMMA Begins ==
    ASSUME IInv, NEW s \in Sessions, NEW c \in CallType, NEW t \in TxType, Begin(s, c, t),
           Fits(c, t), ~t.aborted, t.links = {}, c.op = "gdpr_delete" => DOMAIN t.rows = {},
           \A u \in Sessions \ {s} : DOMAIN t.rows \cap Locks(u) = {}
    PROVE  IInv'
<1>1. requests' \in 0 .. MaxRequests /\ faults' \in 0 .. MaxFaults
  BY LimitsAssumption DEF Begin, IInv, TypeOK
<1>2. swallowed' = swallowed /\ swallowed \in BOOLEAN /\ UNCHANGED <<reported, bumps>>
  BY DEF Begin, IInv, TypeOK, history
<1> QED
  BY <1>1, <1>2, SessionStep DEF Begin

\* A call of tenant o that writes the rows of ids, or has still to select some,
\* starts with nothing written.
LEMMA BeginsWithIds ==
    ASSUME IInv, NEW s \in Sessions, NEW c \in CallType, Begin(s, c, NoTx),
           c.op \notin {"none", "store"}, c.org \in Orgs, c.hashed = {}, c.todo = c.seen,
           \/ c.step = "rows" /\ c.seen = c.ids /\ \A m \in c.ids : row[m].st # "none" /\ org[m] = c.org
           \/ c.step \in Selecting /\ c.seen = {} /\ c.op # "recall",
           c.step \in {"cascade", "hash", "delete"} => c.op \in {"forget", "gdpr_delete"},
           c.step = "select" => c.op = "retention",
           c.sign => c.op \in {"forget", "gdpr_delete"}
    PROVE  IInv'
<1>1. NoTx \in TxType /\ DOMAIN NoTx.rows = {} /\ ~NoTx.aborted /\ NoTx.links = {}
  BY NoRowsTyped DEF NoTx, TxType
<1>2. RowsFit(c, NoTx) /\ HashFits(c) /\ StoreFits(c, NoTx) /\ EraseFits(c, NoTx)
  BY <1>1 DEF RowsFit, HashFits, StoreFits, EraseFits, Selecting
<1>3. EndFits(c, NoTx)
  BY <1>1 DEF EndFits, NoTx, Selecting
<1> QED
  BY <1>1, <1>2, <1>3, Begins DEF Fits

\* What tenant o's SELECT finds is there, and is the tenant's.
LEMMA VisibleThere ==
    ASSUME IInv, NEW o \in Orgs, NEW ids \in SUBSET Mems
    PROVE  /\ Visible(o, ids) \in SUBSET Mems /\ Visible(o, ids) \subseteq ids
           /\ \A m \in Visible(o, ids) : row[m].st # "none" /\ org[m] = o
           /\ LiveMems(o) \in SUBSET Mems
           /\ \A m \in LiveMems(o) : row[m].st # "none" /\ org[m] = o
  BY DEF Visible, LiveMems, Present

LEMMA StoreBegins ==
    ASSUME IInv, NEW s \in Sessions, NEW m \in Mems, NEW l \in Mems \cup {NoMem}, store(s, m, l)
    PROVE  IInv'
<1> DEFINE v == [st |-> "live", n |-> 0]
           c == [Idle EXCEPT !.op = "store", !.org = org[m], !.ids = {m}, !.link = l,
                             !.step = IF l = NoMem THEN "version" ELSE "link"]
           t == [NoTx EXCEPT !.rows = With(NoRows, m, v),
                             !.events = IF l = NoMem THEN {<<"store", m, org[m]>>} ELSE {}]
<1>1. Fresh(m) /\ l # m /\ (l # NoMem => row[l].st # "none") /\ Begin(s, c, t)
  BY DEF store
<1>2. /\ c \in CallType /\ c.op = "store" /\ c.ids = {m} /\ c.todo = {} /\ c.link = l /\ ~c.sign
      /\ c.step = IF l = NoMem THEN "version" ELSE "link"
      /\ c.org = org[m] /\ c.seen = {} /\ c.hashed = {}
  <2>1. org[m] \in Orgs
    BY DEF IInv, TypeOK, TablesOK
  <2> QED
    BY <2>1, IdleTyped DEF CallType, Ops, Steps
<1>3. With(NoRows, m, v) \in [{m} -> RowType] /\ With(NoRows, m, v)[m] = v
  BY NoRowsTyped DEF With, RowType, States
<1>4. /\ t \in TxType /\ DOMAIN t.rows = {m} /\ t.rows[m] = v /\ ~t.aborted
      /\ t.links = {} /\ t.certs = {}
  <2>2. (IF l = NoMem THEN {<<"store", m, org[m]>>} ELSE {}) \in SUBSET EventType
    BY DEF EventType, IInv, TypeOK, TablesOK
  <2>3. With(NoRows, m, v) \in UNION {[D -> RowType] : D \in SUBSET Mems}
    BY <1>3
  <2> QED
    BY <1>3, <2>2, <2>3, IdleTyped DEF TxType
<1>5. row[m] = [st |-> "none", n |-> 0]
  BY <1>1 DEF Fresh, IInv, CountsFit, TypeOK, TablesOK, RowType
<1>6. \A u \in Sessions : m \notin Locks(u)
  BY <1>1 DEF Fresh
<1> HIDE DEF c, t
<1>7. RowsFit(c, t)
  BY <1>2, <1>4, <1>5 DEF RowsFit, Becomes
<1>8. HashFits(c) /\ StoreFits(c, t) /\ EraseFits(c, t) /\ EndFits(c, t)
  BY <1>1, <1>2, <1>4 DEF HashFits, StoreFits, EraseFits, EndFits, Selecting
<1> QED
  BY <1>1, <1>2, <1>4, <1>6, <1>7, <1>8, Begins DEF Fits

LEMMA ForgetBegins ==
    ASSUME IInv, NEW s \in Sessions, NEW o \in Orgs, NEW ids \in SUBSET Mems,
           NEW hard \in BOOLEAN, NEW cascade \in BOOLEAN, NEW sign \in BOOLEAN,
           forget(s, o, ids, hard, cascade, sign)
    PROVE  IInv'
<1> DEFINE k == IF hard THEN "gdpr_delete" ELSE "forget"
           first == IF cascade THEN "cascade" ELSE IF sign THEN "hash" ELSE "delete"
           c == [Idle EXCEPT !.op = k, !.org = o, !.ids = ids, !.sign = sign, !.step = first]
<1>1. Begin(s, c, NoTx)
  BY DEF forget
<1>2. k \in Ops /\ k \in {"forget", "gdpr_delete"} /\ first \in {"cascade", "hash", "delete"}
  BY DEF Ops
<1> HIDE DEF k, first
<1>3. /\ c \in CallType /\ c.op = k /\ c.org = o /\ c.step = first /\ c.ids = ids
      /\ c.seen = {} /\ c.todo = {} /\ c.hashed = {}
  BY <1>2, IdleTyped DEF CallType, Steps
<1> HIDE DEF c
<1> QED
  BY <1>1, <1>2, <1>3, BeginsWithIds DEF Selecting

\* The calls that begin with their rows.
LEMMA RowsBegin ==
    ASSUME IInv, NEW s \in Sessions, NEW o \in Orgs, NEW ids \in SUBSET Mems,
           \A m \in ids : row[m].st # "none" /\ org[m] = o,
           NEW k \in {"sweep", "recall", "decay", "update", "transition"},
           Begin(s, Rows(k, o, ids), NoTx)
    PROVE  IInv'
<1>1. k \in Ops
  BY DEF Ops
<1> DEFINE c == Rows(k, o, ids)
<1>2. /\ c \in CallType /\ c.op = k /\ c.org = o /\ c.step = "rows" /\ c.ids = ids
      /\ c.seen = ids /\ c.todo = ids /\ c.hashed = {} /\ c.sign = FALSE
  BY <1>1, IdleTyped DEF Rows, CallType, Steps
<1>3. Begin(s, c, NoTx)
  OBVIOUS
<1> HIDE DEF c
<1> QED
  BY <1>1, <1>2, <1>3, BeginsWithIds

LEMMA RetentionBegins ==
    ASSUME IInv, NEW s \in Sessions, NEW o \in Orgs, enforce_retention_cap(s, o)
    PROVE  IInv'
<1> DEFINE excess == Cardinality(LiveMems(o)) - MaxCount
           c == [Idle EXCEPT !.op = "retention", !.org = o, !.step = "select", !.excess = excess]
<1>1. Begin(s, c, NoTx)
  BY DEF enforce_retention_cap
<1>2. excess \in Int
  BY MemsAssumption, LimitsAssumption, FS_Subset, FS_CardinalityType DEF LiveMems
<1> HIDE DEF excess
<1>3. /\ c \in CallType /\ c.op = "retention" /\ c.org = o /\ c.step = "select" /\ c.ids = {}
      /\ c.seen = {} /\ c.todo = {} /\ c.hashed = {} /\ ~c.sign
  BY <1>2, IdleTyped DEF CallType, Ops, Steps
<1> HIDE DEF c
<1> QED
  BY <1>1, <1>3, BeginsWithIds DEF Selecting

LEMMA CallBegins == ASSUME IInv, NEW s \in Sessions, BeginCall(s) PROVE IInv'
<1>1. ASSUME NEW m \in Mems, NEW l \in Mems \cup {NoMem}, store(s, m, l) PROVE IInv'
  BY <1>1, StoreBegins
<1>2. ASSUME NEW o \in Orgs, NEW ids \in SUBSET Mems, NEW hard \in BOOLEAN, NEW cascade \in BOOLEAN,
             NEW sign \in BOOLEAN, forget(s, o, ids, hard, cascade, sign)
      PROVE  IInv'
  BY <1>2, ForgetBegins
<1>3. ASSUME NEW o \in Orgs, NEW ids \in SUBSET LiveMems(o),
             sweep_expired_memories(s, o, ids) \/ recall(s, o, ids) \/ decay_importance(s, o, ids)
      PROVE  IInv'
  <2>1. ids \in SUBSET Mems /\ \A m \in ids : row[m].st # "none" /\ org[m] = o
    BY <1>3, VisibleThere
  <2> QED
    BY <1>3, <2>1, RowsBegin DEF sweep_expired_memories, recall, decay_importance
<1>4. ASSUME NEW o \in Orgs, enforce_retention_cap(s, o) PROVE IInv'
  BY <1>4, RetentionBegins
<1>5. ASSUME NEW o \in Orgs, NEW m \in Mems, update_memory(s, o, m) PROVE IInv'
  <2>1. Visible(o, {m}) \in SUBSET Mems /\ \A q \in Visible(o, {m}) : row[q].st # "none" /\ org[q] = o
    BY <1>5, VisibleThere
  <2> QED
    BY <1>5, <2>1, RowsBegin DEF update_memory
<1>6. ASSUME NEW o \in Orgs, NEW m \in Mems, transition_memory(s, o, m) PROVE IInv'
  <2>1. {m} \in SUBSET Mems /\ \A q \in {m} : row[q].st # "none" /\ org[q] = o
    BY <1>6, VisibleThere DEF transition_memory
  <2> QED
    BY <1>6, <2>1, RowsBegin DEF transition_memory
<1> QED
  BY <1>1, <1>2, <1>3, <1>4, <1>5, <1>6 DEF BeginCall

-----------------------------------------------------------------------------
(* Cascades *)

\* A nonempty set of naturals has a least element.
LEMMA NatSetHasMin ==
    ASSUME NEW S \in SUBSET Nat, S # {}
    PROVE  \E x \in S : \A y \in S : x <= y
<1> DEFINE Less == OpToRel(<, Nat)
<1>1. IsWellFoundedOn(Less, Nat)
  BY NatLessThanWellFounded
<1>2. \A x, y \in S : y < x => <<y, x>> \in Less
  BY DEF OpToRel
<1> HIDE DEF Less
<1>3. PICK x \in S : \A y \in S : ~ (<<y, x>> \in Less)
  BY <1>1, WFMin
<1>4. ASSUME NEW y \in S PROVE x <= y
  <2>1. ~(y < x) /\ x \in Nat /\ y \in Nat
    BY <1>2, <1>3
  <2> QED
    BY <2>1
<1> QED
  BY <1>4

\* The search is defined for any number of hops.
LEMMA SearchDefined ==
    ASSUME NEW o, NEW S, NEW k \in Nat
    PROVE  \E f : f = [n \in 0 .. k |-> IF n = 0 THEN S ELSE Related(o, f[n - 1])]
<1> DEFINE Search(f, j) == f = [n \in 0 .. j |-> IF n = 0 THEN S ELSE Related(o, f[n - 1])]
           bad == {j \in Nat : ~ \E f : Search(f, j)}
<1>1. SUFFICES ASSUME bad # {} PROVE FALSE
  OBVIOUS
<1>2. PICK j \in bad : \A i \in bad : j <= i
  <2> HIDE DEF Search
  <2> QED
    BY <1>1, NatSetHasMin
<1>3. CASE j = 0
  <2>1. [n \in 0 .. 0 |-> S] = [n \in 0 .. 0 |-> IF n = 0 THEN S ELSE Related(o, [i \in 0 .. 0 |-> S][n - 1])]
    OBVIOUS
  <2> QED
    BY <1>2, <1>3, <2>1
<1>4. CASE j # 0
  <2>1. PICK f : Search(f, j - 1)
    <3> HIDE DEF Search
    <3>1. j - 1 \in Nat /\ ~(j <= j - 1)
      BY <1>2, <1>4
    <3>2. j - 1 \notin bad
      BY <1>2, <3>1
    <3> QED
      BY <3>1, <3>2
  <2> DEFINE g == [n \in 0 .. j |-> IF n = 0 THEN S ELSE Related(o, f[n - 1])]
  <2>2. \A n \in 0 .. j - 1 : g[n] = f[n]
    <3>1. \A n \in 0 .. j - 1 : f[n] = IF n = 0 THEN S ELSE Related(o, f[n - 1])
      BY <2>1
    <3> QED
      BY <1>2, <3>1
  <2>3. \A n \in 0 .. j : (IF n = 0 THEN S ELSE Related(o, f[n - 1])) = (IF n = 0 THEN S ELSE Related(o, g[n - 1]))
    <3> SUFFICES ASSUME NEW n \in 0 .. j, n # 0 PROVE f[n - 1] = g[n - 1]
      OBVIOUS
    <3>1. n - 1 \in 0 .. j - 1
      BY <1>2
    <3> HIDE DEF g
    <3> QED
      BY <2>2, <3>1
  <2>4. Search(g, j)
    BY <2>3
  <2> HIDE DEF g, Search
  <2> QED
    BY <1>2, <2>4
<1> QED
  BY <1>3, <1>4

LEMMA ReachTyped ==
    ASSUME IInv, NEW o, NEW S \in SUBSET Mems
    PROVE  Reach(o, S) \in SUBSET Mems
<1> DEFINE D == 0 .. CascadeDepth
           F(f) == [n \in D |-> IF n = 0 THEN S ELSE Related(o, f[n - 1])]
           reach == CHOOSE f : f = F(f)
           bad == {n \in D : reach[n] \notin SUBSET Mems}
<1>1. Reach(o, S) = reach[CascadeDepth]
  BY DEF Reach
<1>2. reach = F(reach)
  BY LimitsAssumption, SearchDefined
<1>3. CascadeDepth \in Nat
  BY LimitsAssumption
<1> HIDE DEF reach
<1>4. \A n \in D : reach[n] = IF n = 0 THEN S ELSE Related(o, reach[n - 1])
  BY <1>2
<1>5. SUFFICES ASSUME bad # {} PROVE FALSE
  BY <1>1, <1>3
<1>6. PICK n \in bad : \A i \in bad : n <= i
  <2>1. bad \in SUBSET Nat
    OBVIOUS
  <2> HIDE DEF bad
  <2> QED
    BY <1>5, <2>1, NatSetHasMin
<1>7. n \in D /\ n # 0
  BY <1>4, <1>6
<1>8. n - 1 \in D /\ ~(n <= n - 1)
  BY <1>3, <1>7
<1>9. reach[n - 1] \in SUBSET Mems
  BY <1>6, <1>8
<1>10. reach[n] \in SUBSET Mems
  <2>1. ASSUME NEW x \in Related(o, reach[n - 1]) PROVE x \in Mems
    BY <1>9, <2>1 DEF Related, RelsOf, Ends, IInv, TypeOK, TablesOK
  <2> QED
    BY <1>4, <1>7, <2>1
<1> QED
  BY <1>6, <1>10

-----------------------------------------------------------------------------
(* Selects *)

\* A SELECT of session s: it goes on to c, having written nothing.
LEMMA Selects ==
    ASSUME IInv, NEW s \in Sessions, call[s].step \in Selecting, NEW c \in CallType,
           call' = [call EXCEPT ![s] = c], UNCHANGED <<tables, tx, history, requests, faults>>,
           c.op = call[s].op, c.org = call[s].org, c.sign = call[s].sign,
           c.step \in {"hash", "delete", "rows"},
           c.step \in {"hash", "delete"} => c.op \in {"forget", "gdpr_delete"},
           c.todo = c.seen, c.seen \subseteq c.ids, c.step # "rows" => c.seen = {},
           \A m \in c.seen : row[m].st # "none" /\ org[m] = c.org,
           HashFits(c)
    PROVE  IInv'
<1>1. Fits(call[s], tx[s])
  BY DEF IInv, CallsFit
<1>2. /\ tx[s] = NoTx /\ c.op \in {"forget", "gdpr_delete", "retention"} /\ c.org \in Orgs
      /\ (c.sign => c.op \in {"forget", "gdpr_delete"})
  BY <1>1 DEF Fits, EndFits, Selecting
<1>3. RowsFit(c, NoTx) /\ StoreFits(c, NoTx) /\ EraseFits(c, NoTx)
  BY <1>2, IdleTyped DEF RowsFit, StoreFits, EraseFits
<1>4. EndFits(c, NoTx)
  BY <1>2, IdleTyped DEF EndFits, Selecting
<1> QED
  BY <1>2, <1>3, <1>4, CallGoesOn DEF Fits, history, IInv, TypeOK

LEMMA CascadeFinds == ASSUME IInv, NEW s \in Sessions, find_related_memories(s) PROVE IInv'
<1> DEFINE found == Reach(call[s].org, call[s].ids)
           next == IF call[s].sign THEN "hash" ELSE "delete"
           c == [call[s] EXCEPT !.ids = found, !.step = next]
<1>1. /\ call[s] \in CallType /\ call[s].step = "cascade" /\ call[s].step \in Selecting
      /\ Fits(call[s], tx[s])
  BY DEF find_related_memories, IInv, TypeOK, CallsFit, Selecting
<1>2. call[s].op \in {"forget", "gdpr_delete"} /\ call[s].seen = {} /\ call[s].todo = {}
  BY <1>1 DEF Fits, EndFits
<1>3. found \in SUBSET Mems
  BY <1>1, ReachTyped DEF CallType
<1>4. call' = [call EXCEPT ![s] = c]
  BY DEF find_related_memories, IInv, TypeOK
<1>5. next \in {"hash", "delete"}
  OBVIOUS
<1>6. call[s].hashed = {}
  BY <1>1 DEF Fits, EndFits
<1> HIDE DEF found, next
<1>7. /\ c \in CallType /\ c.op = call[s].op /\ c.org = call[s].org /\ c.step = next /\ c.ids = found
      /\ c.seen = {} /\ c.todo = {} /\ c.hashed = {} /\ c.sign = call[s].sign
  BY <1>1, <1>2, <1>3, <1>5, <1>6 DEF CallType, Steps
<1> HIDE DEF c
<1>8. HashFits(c)
  BY <1>7 DEF HashFits
<1>9. UNCHANGED <<tables, tx, history, requests, faults>>
  BY DEF find_related_memories
<1> QED
  BY <1>1, <1>2, <1>4, <1>5, <1>7, <1>8, <1>9, Selects

LEMMA SnapshotTaken == ASSUME IInv, NEW s \in Sessions, snapshot_content_hashes(s) PROVE IInv'
<1> DEFINE there == Visible(call[s].org, call[s].ids)
           c == [call[s] EXCEPT !.hashed = there, !.step = "delete"]
<1>1. /\ call[s] \in CallType /\ call[s].step = "hash" /\ call[s].step \in Selecting
      /\ Fits(call[s], tx[s])
  BY DEF snapshot_content_hashes, IInv, TypeOK, CallsFit, Selecting
<1>2. /\ call[s].op \in {"forget", "gdpr_delete"} /\ call[s].seen = {} /\ call[s].todo = {}
      /\ call[s].org \in Orgs
  BY <1>1 DEF Fits, EndFits
<1>3. /\ there \in SUBSET Mems /\ there \subseteq call[s].ids
      /\ \A m \in there : row[m].st # "none" /\ org[m] = call[s].org
  BY <1>1, <1>2, VisibleThere DEF CallType
<1>4. call' = [call EXCEPT ![s] = c]
  BY DEF snapshot_content_hashes, IInv, TypeOK
<1> HIDE DEF there
<1>5. /\ c \in CallType /\ c.op = call[s].op /\ c.org = call[s].org /\ c.step = "delete"
      /\ c.ids = call[s].ids /\ c.seen = {} /\ c.todo = {} /\ c.hashed = there /\ c.sign = call[s].sign
  BY <1>1, <1>2, <1>3 DEF CallType, Steps
<1> HIDE DEF c
<1>6. HashFits(c)
  BY <1>3, <1>5 DEF HashFits, Selecting
<1>7. UNCHANGED <<tables, tx, history, requests, faults>>
  BY DEF snapshot_content_hashes
<1> QED
  BY <1>1, <1>2, <1>4, <1>5, <1>6, <1>7, Selects

LEMMA ExcessSelected == ASSUME IInv, NEW s \in Sessions, SelectExcess(s) PROVE IInv'
<1>1. PICK found \in SUBSET LiveMems(call[s].org) :
        call' = [call EXCEPT ![s].ids = found, ![s].seen = found, ![s].todo = found, ![s].step = "rows"]
  BY DEF SelectExcess
<1> DEFINE c == [call[s] EXCEPT !.ids = found, !.seen = found, !.todo = found, !.step = "rows"]
<1>2. /\ call[s] \in CallType /\ call[s].step = "select" /\ call[s].step \in Selecting
      /\ Fits(call[s], tx[s])
  BY DEF SelectExcess, IInv, TypeOK, CallsFit, Selecting
<1>3. call[s].op = "retention" /\ call[s].org \in Orgs /\ call[s].hashed = {}
  BY <1>2 DEF Fits, EndFits
<1>4. found \in SUBSET Mems /\ \A m \in found : row[m].st # "none" /\ org[m] = call[s].org
  BY <1>3, VisibleThere
<1>5. call' = [call EXCEPT ![s] = c]
  BY <1>1 DEF IInv, TypeOK
<1>6. /\ c \in CallType /\ c.op = call[s].op /\ c.org = call[s].org /\ c.step = "rows" /\ c.ids = found
      /\ c.seen = found /\ c.todo = found /\ c.hashed = {} /\ c.sign = call[s].sign
  BY <1>2, <1>3, <1>4 DEF CallType, Steps
<1> HIDE DEF c
<1>7. HashFits(c)
  BY <1>6 DEF HashFits
<1>8. UNCHANGED <<tables, tx, history, requests, faults>>
  BY DEF SelectExcess
<1> QED
  BY <1>2, <1>4, <1>5, <1>6, <1>7, <1>8, Selects

\* The statement that deletes: it has found its rows, and for a hard delete the
\* relationships are gone.
LEMMA DeleteStarted == ASSUME IInv, NEW s \in Sessions, DeleteBegins(s) PROVE IInv'
<1> DEFINE there == Visible(call[s].org, call[s].ids)
           gone == IF call[s].op = "gdpr_delete"
                   THEN {r \in RelsOf(call[s].org) : Ends(r) \cap call[s].ids # {}} ELSE {}
           c == [call[s] EXCEPT !.step = "rows", !.seen = there, !.todo = there]
           t == [NoTx EXCEPT !.unlinked = gone]
<1>1. call[s] \in CallType /\ call[s].step = "delete" /\ Fits(call[s], tx[s])
  BY DEF DeleteBegins, IInv, TypeOK, CallsFit
<1>2. call[s].op \in {"forget", "gdpr_delete"} /\ tx[s] = NoTx /\ call[s].org \in Orgs
  BY <1>1 DEF Fits, EndFits, Selecting
<1>3. /\ there \in SUBSET Mems /\ there \subseteq call[s].ids
      /\ \A m \in there : row[m].st # "none" /\ org[m] = call[s].org
  BY <1>1, <1>2, VisibleThere DEF CallType
<1>4. call' = [call EXCEPT ![s] = c] /\ tx' = [tx EXCEPT ![s] = t]
  BY <1>2 DEF DeleteBegins, IInv, TypeOK
<1>5. \A m \in call[s].hashed \ there : row[m].st = "erased"
  <2> SUFFICES ASSUME NEW m \in call[s].hashed \ there PROVE row[m].st = "erased"
    OBVIOUS
  <2>1. m \in call[s].ids /\ m \in Mems /\ row[m].st # "none" /\ org[m] = call[s].org
    BY <1>1 DEF Fits, HashFits, CallType
  <2>2. row[m].st \notin Present
    BY <2>1 DEF Visible
  <2>3. row[m] \in RowType
    BY <2>1 DEF IInv, TypeOK, TablesOK
  <2> QED
    BY <2>1, <2>2, <2>3 DEF RowType, States, Present
<1> HIDE DEF there
<1>6. /\ c \in CallType /\ c.op = call[s].op /\ c.org = call[s].org /\ c.step = "rows"
      /\ c.ids = call[s].ids /\ c.seen = there /\ c.todo = there /\ c.hashed = call[s].hashed
      /\ c.sign = call[s].sign
  BY <1>1, <1>3 DEF CallType, Steps
<1> HIDE DEF c
<1>7. gone \in SUBSET (Mems \X Mems)
  BY DEF RelsOf, IInv, TypeOK, TablesOK
<1> HIDE DEF gone
<1>8. /\ t \in TxType /\ DOMAIN t.rows = {} /\ t.links = {} /\ t.certs = {} /\ ~t.aborted
  BY <1>7, IdleTyped DEF TxType
<1> HIDE DEF t
<1>9. RowsFit(c, t) /\ StoreFits(c, t) /\ EraseFits(c, t)
  BY <1>2, <1>3, <1>6, <1>8 DEF RowsFit, StoreFits, EraseFits
<1>10. HashFits(c)
  BY <1>1, <1>5, <1>6 DEF Fits, HashFits
<1>11. EndFits(c, t)
  BY <1>2, <1>6, <1>8 DEF EndFits, Selecting
<1>12. \A u \in Sessions \ {s} :
          /\ DOMAIN t.rows \cap Locks(u) = {}
          /\ c.op = "gdpr_delete" => \A r \in tx[u].links : Ends(r) \cap DOMAIN t.rows = {}
          /\ call[u].op = "gdpr_delete" => \A r \in t.links : Ends(r) \cap Locks(u) = {}
  BY <1>8
<1>13. Fits(c, t) /\ (t.aborted => swallowed')
  BY <1>8, <1>9, <1>10, <1>11 DEF Fits
<1>14. /\ UNCHANGED <<tables, bumps>> /\ reported' = reported /\ swallowed' = swallowed
       /\ swallowed \in BOOLEAN /\ requests' \in 0 .. MaxRequests /\ faults' \in 0 .. MaxFaults
  BY DEF DeleteBegins, history, IInv, TypeOK
<1> QED
  BY <1>4, <1>6, <1>8, <1>12, <1>13, <1>14, SessionStep

-----------------------------------------------------------------------------
(* Rows *)

\* A row that recall passes is below those it has still to lock.
LEMMA RecallOrder ==
    ASSUME IInv, NEW s \in Sessions, NEW m \in NextRows(s), call[s].op = "recall"
    PROVE  \A x \in call[s].todo \ {m} : m < x
<1>1. m \in Mems /\ call[s].todo \subseteq Mems /\ Mems \subseteq Nat /\ \A x \in call[s].todo : m <= x
  BY MemsAssumption DEF NextRows, IInv, TypeOK, CallType
<1>2. ASSUME NEW x \in call[s].todo \ {m} PROVE m < x
  <2>1. m \in Nat /\ x \in Nat /\ m <= x /\ x # m
    BY <1>1
  <2> QED
    BY <2>1
<1> QED
  BY <1>2

\* After a row, whether it is written or not, the others are as before.
LEMMA RowPassed ==
    ASSUME IInv, NEW s \in Sessions, NEW m \in Mems, m \in NextRows(s), call[s].step = "rows"
    PROVE  LET c == [call[s] EXCEPT !.todo = @ \ {m}]
           IN  /\ c \in CallType /\ c.op = call[s].op /\ c.step = "rows" /\ c.ids = call[s].ids
               /\ c.todo = call[s].todo \ {m} /\ c.sign = call[s].sign /\ c.link = call[s].link
               /\ c.org = call[s].org /\ c.seen = call[s].seen /\ c.hashed = call[s].hashed
               /\ m \in call[s].todo /\ m \in c.seen /\ m \in c.ids /\ call[s].op # "store"
               /\ c.op = "recall" => \A q \in c.ids \ c.todo : \A x \in c.todo : q < x
<1> DEFINE c == [call[s] EXCEPT !.todo = @ \ {m}]
<1>1. call[s] \in CallType /\ Fits(call[s], tx[s])
  BY DEF IInv, TypeOK, CallsFit
<1>2. /\ c \in CallType /\ c.op = call[s].op /\ c.step = "rows" /\ c.ids = call[s].ids
      /\ c.todo = call[s].todo \ {m} /\ c.sign = call[s].sign /\ c.link = call[s].link
      /\ c.org = call[s].org /\ c.seen = call[s].seen /\ c.hashed = call[s].hashed
  BY <1>1 DEF CallType, Steps
<1>3. m \in call[s].todo /\ m \in call[s].seen /\ m \in call[s].ids
  BY <1>1 DEF NextRows, Fits, RowsFit
<1>4. call[s].op # "store"
  BY <1>1, <1>3 DEF Fits, StoreFits
<1> HIDE DEF c
<1>5. ASSUME c.op = "recall", NEW q \in c.ids \ c.todo, NEW x \in c.todo PROVE q < x
  <2>1. CASE q = m
    BY <1>2, <1>5, <2>1, RecallOrder
  <2>2. CASE q # m
    BY <1>1, <1>2, <1>5, <2>2 DEF Fits, RowsFit
  <2> QED
    BY <2>1, <2>2
<1>6. c.op = "recall" => \A q \in c.ids \ c.todo : \A x \in c.todo : q < x
  BY <1>5
<1> QED
  BY <1>2, <1>3, <1>4, <1>6 DEF c

LEMMA RowSkipped == ASSUME IInv, NEW s \in Sessions, NEW m \in Mems, SkipRow(s, m) PROVE IInv'
<1> DEFINE c == [call[s] EXCEPT !.todo = @ \ {m}]
<1>1. m \in NextRows(s) /\ call[s].step = "rows" /\ ~Matches(s, m)
  BY DEF SkipRow
<1>2. /\ c \in CallType /\ c.op = call[s].op /\ c.step = "rows" /\ c.ids = call[s].ids
      /\ c.todo = call[s].todo \ {m} /\ c.sign = call[s].sign /\ c.link = call[s].link
      /\ c.org = call[s].org /\ c.seen = call[s].seen /\ c.hashed = call[s].hashed
      /\ m \in call[s].todo /\ m \in c.seen /\ m \in c.ids /\ call[s].op # "store"
      /\ c.op = "recall" => \A q \in c.ids \ c.todo : \A x \in c.todo : q < x
  BY <1>1, RowPassed
<1>3. call' = [call EXCEPT ![s] = c]
  BY DEF SkipRow, RowDone, IInv, TypeOK
<1> HIDE DEF c
<1>4. Fits(call[s], tx[s]) /\ row[m] \in RowType
  BY DEF IInv, CallsFit, TypeOK, TablesOK
<1>5. m \notin Locks(s) /\ Sees(s, m) = row[m] /\ row[m].st # "none"
  BY <1>2, <1>4 DEF Fits, RowsFit, Locks, Sees
<1>6. row[m].st \in Passes(call[s].op)
  BY <1>1, <1>4, <1>5 DEF Matches, Passes, Present, RowType, States
<1>7. RowsFit(c, tx[s])
  BY <1>2, <1>4, <1>5, <1>6 DEF Fits, RowsFit, Locks
<1>8. HashFits(c) /\ StoreFits(c, tx[s]) /\ EraseFits(c, tx[s]) /\ EndFits(c, tx[s])
  BY <1>1, <1>2, <1>4 DEF Fits, HashFits, StoreFits, EraseFits, EndFits, Selecting
<1> QED
  BY <1>2, <1>3, <1>7, <1>8, CallGoesOn DEF Fits, SkipRow, history, IInv, TypeOK

\* What WriteRow writes is how a call of its kind writes.
LEMMA NewRowBecomes ==
    ASSUME IInv, NEW s \in Sessions, NEW m \in Mems, m \notin Locks(s), Matches(s, m),
           call[s].op \notin {"none", "store"}, ~Rewrites(call[s].op)
    PROVE  NewRow(s, m) \in RowType /\ Becomes(call[s].op, row[m], NewRow(s, m))
<1>1. Sees(s, m) = row[m] /\ row[m] \in RowType /\ row[m].st \in Present
  BY DEF Sees, Matches, Present, IInv, TypeOK, TablesOK
<1>2. call[s].op \in {"forget", "sweep", "retention", "recall", "gdpr_delete"}
  BY DEF Rewrites, memories_scd_trigger, IInv, TypeOK, CallType, Ops
<1> QED
  BY <1>1, <1>2 DEF NewRow, Becomes, RowType, States, Present

LEMMA RowWritten == ASSUME IInv, NEW s \in Sessions, NEW m \in Mems, WriteRow(s, m) PROVE IInv'
<1> DEFINE c == [call[s] EXCEPT !.todo = @ \ {m}]
           v == NewRow(s, m)
           gone == IF call[s].op = "gdpr_delete" THEN Touching(m) ELSE {}
           t == [tx[s] EXCEPT !.rows = With(@, m, v), !.unlinked = @ \cup gone]
<1>1. /\ m \in NextRows(s) /\ call[s].step = "rows" /\ Matches(s, m) /\ Blockers(s, m) = {}
      /\ ~Rewrites(call[s].op)
  BY DEF WriteRow
<1>2. /\ c \in CallType /\ c.op = call[s].op /\ c.step = "rows" /\ c.ids = call[s].ids
      /\ c.todo = call[s].todo \ {m} /\ c.sign = call[s].sign /\ c.link = call[s].link
      /\ c.org = call[s].org /\ c.seen = call[s].seen /\ c.hashed = call[s].hashed
      /\ m \in call[s].todo /\ m \in c.seen /\ m \in c.ids /\ call[s].op # "store"
      /\ c.op = "recall" => \A q \in c.ids \ c.todo : \A x \in c.todo : q < x
  BY <1>1, RowPassed
<1>3. call' = [call EXCEPT ![s] = c] /\ tx' = [tx EXCEPT ![s] = t]
  BY DEF WriteRow, RowDone, IInv, TypeOK
<1> HIDE DEF c
<1>4. /\ Fits(call[s], tx[s]) /\ (tx[s].aborted => swallowed) /\ tx[s] \in TxType
      /\ call[s] \in CallType
  BY DEF IInv, CallsFit, TypeOK
<1>5. m \notin Locks(s) /\ call[s].op # "none"
  <2>1. m \notin Locks(s)
    BY <1>2, <1>4 DEF Fits, RowsFit, Locks
  <2>2. Matches(s, m) /\ call[s].op # "update"
    BY <1>1 DEF Rewrites, memories_scd_trigger
  <2>3. call[s].op = "none" => Rewrites(call[s].op)
    BY DEF Rewrites, memories_scd_trigger
  <2> QED
    BY <1>1, <2>1, <2>3
<1>6. v \in RowType /\ Becomes(call[s].op, row[m], v)
  BY <1>1, <1>2, <1>5, NewRowBecomes
<1> HIDE DEF v
<1>7. gone \subseteq rels /\ rels \subseteq Mems \X Mems
  BY DEF Touching, IInv, TypeOK, TablesOK
<1>8. call[s].op = "gdpr_delete" => gone = Touching(m)
  OBVIOUS
<1> HIDE DEF gone
<1>9. /\ t.links = tx[s].links /\ t.unlinked = tx[s].unlinked \cup gone /\ t.events = tx[s].events
      /\ t.versions = tx[s].versions /\ t.certs = tx[s].certs /\ t.aborted = tx[s].aborted
      /\ t.rows = With(tx[s].rows, m, v)
  BY <1>4 DEF TxType
<1>10. With(tx[s].rows, m, v) \in [Locks(s) \cup {m} -> RowType] /\ Locks(s) \cup {m} \subseteq Mems
  BY <1>4, <1>6 DEF With, Locks, TxType
<1>11. t \in TxType
  <2>1. With(tx[s].rows, m, v) \in UNION {[D -> RowType] : D \in SUBSET Mems}
    BY <1>10
  <2> QED
    BY <1>4, <1>7, <2>1 DEF TxType
<1>12. /\ DOMAIN t.rows = DOMAIN tx[s].rows \cup {m} /\ t.rows[m] = v
       /\ \A q \in DOMAIN tx[s].rows : t.rows[q] = tx[s].rows[q]
  BY <1>5, <1>9 DEF With, Locks
<1> HIDE DEF t
<1>13. RowsFit(c, t)
  BY <1>2, <1>4, <1>6, <1>12 DEF Fits, RowsFit
<1>14. HashFits(c) /\ StoreFits(c, t) /\ EndFits(c, t)
  BY <1>1, <1>2, <1>4, <1>9 DEF Fits, HashFits, StoreFits, EndFits, Selecting
<1>15. EraseFits(c, t)
  BY <1>2, <1>4, <1>8, <1>9, <1>12 DEF Fits, EraseFits
<1>16. ASSUME NEW u \in Sessions \ {s}
       PROVE  /\ DOMAIN t.rows \cap Locks(u) = {}
              /\ c.op = "gdpr_delete" => \A r \in tx[u].links : Ends(r) \cap DOMAIN t.rows = {}
              /\ call[u].op = "gdpr_delete" => \A r \in t.links : Ends(r) \cap Locks(u) = {}
  <2>1. m \notin Locks(u) /\ (call[s].op = "gdpr_delete" => \A r \in tx[u].links : m \notin Ends(r))
    BY <1>1 DEF Blockers
  <2>2. /\ Locks(s) \cap Locks(u) = {}
        /\ call[s].op = "gdpr_delete" => \A r \in tx[u].links : Ends(r) \cap Locks(s) = {}
        /\ call[u].op = "gdpr_delete" => \A r \in tx[s].links : Ends(r) \cap Locks(u) = {}
    BY DEF IInv, CallsFit, LocksExclusive, LinksGuarded
  <2>3. DOMAIN t.rows = Locks(s) \cup {m}
    BY <1>12 DEF Locks
  <2> QED
    BY <1>2, <1>9, <2>1, <2>2, <2>3
<1> QED
  BY <1>2, <1>3, <1>4, <1>9, <1>11, <1>13, <1>14, <1>15, <1>16, SessionStep
     DEF Fits, WriteRow, history, IInv, TypeOK

-----------------------------------------------------------------------------
(* The end of a call *)

LEMMA Raised == ASSUME IInv, NEW s \in Sessions, NEW e, Raise(s, e) PROVE IInv'
  BY RolledBack DEF Raise, IInv, TypeOK

LEMMA RowsFinished == ASSUME IInv, NEW s \in Sessions, FinishRows(s) PROVE IInv'
<1> DEFINE next == IF call[s].sign THEN "cert" ELSE "commit"
           c == [call[s] EXCEPT !.step = next]
           t == [tx[s] EXCEPT !.events = Audits(s)]
<1>1. call[s].step = "rows" /\ call[s].todo = {}
  BY DEF FinishRows
<1>2. /\ Fits(call[s], tx[s]) /\ (tx[s].aborted => swallowed) /\ tx[s] \in TxType
      /\ call[s] \in CallType
  BY DEF IInv, CallsFit, TypeOK
<1>3. call' = [call EXCEPT ![s] = c] /\ tx' = [tx EXCEPT ![s] = t]
  BY DEF FinishRows, IInv, TypeOK
<1>4. /\ c \in CallType /\ c.op = call[s].op /\ c.step = next /\ c.ids = call[s].ids
      /\ c.todo = {} /\ c.sign = call[s].sign /\ c.link = call[s].link
      /\ c.org = call[s].org /\ c.seen = call[s].seen /\ c.hashed = call[s].hashed
  BY <1>1, <1>2 DEF CallType, Steps
<1>5. call[s].op # "store" /\ call[s].org \in Orgs
  BY <1>1, <1>2 DEF Fits, StoreFits, EndFits
<1>6. Audits(s) \in SUBSET EventType
  BY <1>2, <1>5 DEF Audits, EventType, CallType
<1>7. /\ call[s].op = "gdpr_delete" =>
            \A m \in call[s].ids : <<"gdpr_delete", m, call[s].org>> \in Audits(s)
      /\ call[s].op \in {"forget", "sweep", "retention"}
            => \A m \in call[s].ids : <<"forget", m, call[s].org>> \in Audits(s)
  BY DEF Audits
<1>8. /\ t \in TxType /\ t.rows = tx[s].rows /\ t.links = tx[s].links /\ t.aborted = tx[s].aborted
      /\ t.unlinked = tx[s].unlinked /\ t.events = Audits(s) /\ t.certs = tx[s].certs
  BY <1>2, <1>6 DEF TxType
<1> HIDE DEF c, t
<1>9. RowsFit(c, t) /\ HashFits(c) /\ StoreFits(c, t) /\ EraseFits(c, t)
  BY <1>1, <1>2, <1>4, <1>5, <1>8 DEF Fits, RowsFit, HashFits, Selecting, StoreFits, EraseFits
<1>10. EndFits(c, t)
  BY <1>1, <1>2, <1>4, <1>7, <1>8 DEF Fits, EndFits, Selecting
<1>11. \A u \in Sessions \ {s} :
          /\ DOMAIN t.rows \cap Locks(u) = {}
          /\ c.op = "gdpr_delete" => \A r \in tx[u].links : Ends(r) \cap DOMAIN t.rows = {}
          /\ call[u].op = "gdpr_delete" => \A r \in t.links : Ends(r) \cap Locks(u) = {}
  BY <1>4, <1>8 DEF IInv, CallsFit, LocksExclusive, LinksGuarded, Locks
<1> QED
  BY <1>2, <1>3, <1>4, <1>8, <1>9, <1>10, <1>11, SessionStep
     DEF Fits, FinishRows, history, IInv, TypeOK

LEMMA Linked == ASSUME IInv, NEW s \in Sessions, Link(s) PROVE IInv'
<1> DEFINE m == CHOOSE x \in call[s].ids : TRUE
           r == <<m, call[s].link>>
           c == [call[s] EXCEPT !.step = "version"]
           t == [tx[s] EXCEPT !.links = {r}, !.events = {<<"store", m, org[m]>>}]
<1>1. call[s].step = "link" /\ row[call[s].link].st \in Present /\ LinkBlockers(s) = {}
  BY DEF Link
<1>2. /\ Fits(call[s], tx[s]) /\ (tx[s].aborted => swallowed) /\ tx[s] \in TxType
      /\ call[s] \in CallType
  BY DEF IInv, CallsFit, TypeOK
<1>3. call' = [call EXCEPT ![s] = c] /\ tx' = [tx EXCEPT ![s] = t]
  BY DEF Link, IInv, TypeOK
<1>4. call[s].op = "store" /\ call[s].link \in Mems
  BY <1>1, <1>2 DEF Fits, StoreFits
<1>5. PICK q \in Mems : call[s].ids = {q} /\ DOMAIN tx[s].rows = {q} /\ call[s].seen = {}
  BY <1>2, <1>4 DEF Fits, StoreFits
<1>6. m = q /\ call[s].link # q
  BY <1>2, <1>4, <1>5 DEF Fits, StoreFits
<1> HIDE DEF m
<1>7. /\ c \in CallType /\ c.op = "store" /\ c.step = "version" /\ c.ids = {q}
      /\ c.seen = {} /\ c.todo = call[s].todo /\ c.sign = call[s].sign /\ c.link = call[s].link
      /\ c.org = call[s].org /\ c.hashed = call[s].hashed
  BY <1>2, <1>4, <1>5 DEF CallType, Steps
<1>8. /\ t \in TxType /\ t.rows = tx[s].rows /\ t.links = {r} /\ t.aborted = tx[s].aborted
      /\ t.unlinked = tx[s].unlinked /\ t.certs = tx[s].certs
  <2>1. {r} \in SUBSET (Mems \X Mems) /\ {<<"store", m, org[m]>>} \in SUBSET EventType
    BY <1>4, <1>6 DEF EventType, IInv, TypeOK, TablesOK
  <2> HIDE DEF r
  <2> QED
    BY <1>2, <2>1 DEF TxType
<1> HIDE DEF c, t
<1>9. RowsFit(c, t)
  BY <1>2, <1>4, <1>5, <1>7, <1>8 DEF Fits, RowsFit
<1>10. StoreFits(c, t)
  BY <1>1, <1>5, <1>6, <1>7, <1>8 DEF StoreFits
<1>11. HashFits(c) /\ EraseFits(c, t) /\ EndFits(c, t)
  BY <1>1, <1>2, <1>4, <1>5, <1>7, <1>8 DEF Fits, HashFits, EraseFits, EndFits, Selecting
<1>12. ASSUME NEW u \in Sessions \ {s}
       PROVE  /\ DOMAIN t.rows \cap Locks(u) = {}
              /\ call[u].op = "gdpr_delete" => \A x \in t.links : Ends(x) \cap Locks(u) = {}
  <2>1. Locks(s) \cap Locks(u) = {} /\ Locks(s) = {q}
    BY <1>5 DEF IInv, CallsFit, LocksExclusive, Locks
  <2>2. call[u].op = "gdpr_delete" => call[s].link \notin Locks(u)
    BY <1>1 DEF LinkBlockers
  <2>3. Ends(r) = {q, call[s].link}
    BY <1>6 DEF Ends
  <2> QED
    BY <1>5, <1>8, <2>1, <2>2, <2>3
<1>13. Fits(c, t) /\ (t.aborted => swallowed) /\ c.op # "gdpr_delete"
  BY <1>2, <1>7, <1>8, <1>9, <1>10, <1>11 DEF Fits
<1>14. /\ UNCHANGED <<tables, bumps>> /\ reported' = reported /\ swallowed' = swallowed
       /\ swallowed \in BOOLEAN /\ requests' \in 0 .. MaxRequests /\ faults' \in 0 .. MaxFaults
  BY DEF Link, history, IInv, TypeOK
<1> QED
  BY <1>3, <1>7, <1>8, <1>12, <1>13, <1>14, SessionStep

\* A best-effort step ends: it has written t, or it has failed.
LEMMA StepEnds ==
    ASSUME IInv, NEW s \in Sessions, call[s].step \in {"version", "cert"}, NEW t \in TxType,
           call' = [call EXCEPT ![s].step = "commit"], tx' = [tx EXCEPT ![s] = t],
           t.rows = tx[s].rows, t.links = tx[s].links, t.unlinked = tx[s].unlinked,
           t.events = tx[s].events, t.aborted => swallowed',
           \A x \in t.certs : /\ call[s].op \in {"forget", "gdpr_delete"}
                              /\ x.hashed = call[s].hashed /\ x.hard = (call[s].op = "gdpr_delete"),
           UNCHANGED <<tables, reported, bumps>>, swallowed' \in BOOLEAN, swallowed => swallowed',
           requests' \in 0 .. MaxRequests, faults' \in 0 .. MaxFaults,
           call[s].step = "version" => t.certs = {}
    PROVE  IInv'
<1> DEFINE c == [call[s] EXCEPT !.step = "commit"]
<1>1. Fits(call[s], tx[s]) /\ call[s] \in CallType
  BY DEF IInv, CallsFit, TypeOK
<1>2. call' = [call EXCEPT ![s] = c]
  BY DEF IInv, TypeOK
<1>3. /\ c \in CallType /\ c.op = call[s].op /\ c.step = "commit" /\ c.ids = call[s].ids
      /\ c.todo = call[s].todo /\ c.sign = call[s].sign /\ c.link = call[s].link
      /\ c.org = call[s].org /\ c.seen = call[s].seen /\ c.hashed = call[s].hashed
  BY <1>1 DEF CallType, Steps
<1> HIDE DEF c
<1>4. RowsFit(c, t) /\ HashFits(c) /\ EraseFits(c, t) /\ StoreFits(c, t)
  BY <1>1, <1>3 DEF Fits, RowsFit, HashFits, Selecting, EraseFits, StoreFits
<1>5. call[s].step = "version" => call[s].op = "store" /\ call[s].todo = {}
  BY <1>1 DEF Fits, RowsFit, StoreFits
<1>6. EndFits(c, t)
  BY <1>1, <1>3, <1>5 DEF Fits, EndFits, Selecting
<1>7. \A u \in Sessions \ {s} :
          /\ DOMAIN t.rows \cap Locks(u) = {}
          /\ c.op = "gdpr_delete" => \A r \in tx[u].links : Ends(r) \cap DOMAIN t.rows = {}
          /\ call[u].op = "gdpr_delete" => \A r \in t.links : Ends(r) \cap Locks(u) = {}
  BY <1>3 DEF IInv, CallsFit, LocksExclusive, LinksGuarded, Locks
<1> QED
  BY <1>2, <1>3, <1>4, <1>6, <1>7, SessionStep DEF Fits

LEMMA Swallowed ==
    ASSUME IInv, NEW s \in Sessions, call[s].step \in {"version", "cert"}, Swallow(s)
    PROVE  IInv'
<1>1. /\ Fits(call[s], tx[s]) /\ (tx[s].aborted => swallowed) /\ tx[s] \in TxType
      /\ swallowed \in BOOLEAN
  BY DEF IInv, CallsFit, TypeOK
<1>2. tx[s].certs = {}
  BY <1>1 DEF Fits, EndFits
<1>3. faults' \in 0 .. MaxFaults /\ requests' \in 0 .. MaxRequests
  BY LimitsAssumption DEF Swallow, IInv, TypeOK
<1>4. UNCHANGED <<tables, reported, bumps>> /\ call' = [call EXCEPT ![s].step = "commit"]
  BY DEF Swallow
<1>5. CASE tx' = [tx EXCEPT ![s].aborted = TRUE] /\ swallowed' = TRUE
  <2> DEFINE t == [tx[s] EXCEPT !.aborted = TRUE]
  <2>1. tx' = [tx EXCEPT ![s] = t]
    BY <1>5 DEF IInv, TypeOK
  <2>2. /\ t \in TxType /\ t.rows = tx[s].rows /\ t.links = tx[s].links
        /\ t.unlinked = tx[s].unlinked /\ t.events = tx[s].events /\ t.certs = {}
    BY <1>1, <1>2 DEF TxType
  <2> HIDE DEF t
  <2> QED
    BY <1>3, <1>4, <1>5, <2>1, <2>2, StepEnds
<1>6. CASE UNCHANGED <<tx, swallowed>>
  <2> DEFINE t == tx[s]
  <2>1. tx' = [tx EXCEPT ![s] = t]
    BY <1>6 DEF IInv, TypeOK
  <2>2. t \in TxType /\ t.certs = {}
    BY <1>1, <1>2
  <2> QED
    BY <1>1, <1>3, <1>4, <1>6, <2>1, <2>2, StepEnds
<1> QED
  BY <1>5, <1>6 DEF Swallow

LEMMA VersionRecorded == ASSUME IInv, NEW s \in Sessions, record_memo_version(s) PROVE IInv'
<1>1. call[s].step = "version"
  BY DEF record_memo_version
<1>2. CASE Swallow(s)
  BY <1>1, <1>2, Swallowed
<1>3. CASE /\ tx' = [tx EXCEPT ![s].versions = call[s].ids]
           /\ call' = [call EXCEPT ![s].step = "commit"]
           /\ UNCHANGED <<tables, history, requests, faults>>
  <2> DEFINE t == [tx[s] EXCEPT !.versions = call[s].ids]
  <2>1. /\ Fits(call[s], tx[s]) /\ (tx[s].aborted => swallowed) /\ tx[s] \in TxType
        /\ call[s] \in CallType
    BY DEF IInv, CallsFit, TypeOK
  <2>2. tx' = [tx EXCEPT ![s] = t]
    BY <1>3 DEF IInv, TypeOK
  <2>3. /\ t \in TxType /\ t.rows = tx[s].rows /\ t.links = tx[s].links /\ t.aborted = tx[s].aborted
        /\ t.unlinked = tx[s].unlinked /\ t.events = tx[s].events /\ t.certs = tx[s].certs
    BY <2>1 DEF TxType, CallType
  <2>4. t.certs = {}
    BY <1>1, <2>1, <2>3 DEF Fits, EndFits
  <2> HIDE DEF t
  <2> QED
    BY <1>1, <1>3, <2>1, <2>2, <2>3, <2>4, StepEnds DEF history, IInv, TypeOK
<1> QED
  BY <1>2, <1>3 DEF record_memo_version

LEMMA CertificateEmitted ==
    ASSUME IInv, NEW s \in Sessions, emit_forget_certificate(s) PROVE IInv'
<1>1. call[s].step = "cert"
  BY DEF emit_forget_certificate
<1>2. CASE Swallow(s)
  BY <1>1, <1>2, Swallowed
<1> DEFINE cert == [ids |-> call[s].ids, hashed |-> call[s].hashed, hard |-> call[s].op = "gdpr_delete"]
<1>3. CASE /\ tx' = [tx EXCEPT ![s].certs = {cert}]
           /\ call' = [call EXCEPT ![s].step = "commit"]
           /\ UNCHANGED <<tables, history, requests, faults>>
  <2> DEFINE t == [tx[s] EXCEPT !.certs = {cert}]
  <2>1. /\ Fits(call[s], tx[s]) /\ (tx[s].aborted => swallowed) /\ tx[s] \in TxType
        /\ call[s] \in CallType
    BY DEF IInv, CallsFit, TypeOK
  <2>2. call[s].op \in {"forget", "gdpr_delete"}
    BY <1>1, <2>1 DEF Fits, EndFits
  <2>3. tx' = [tx EXCEPT ![s] = t]
    BY <1>3 DEF IInv, TypeOK
  <2>4. cert \in CertType /\ cert.hashed = call[s].hashed /\ cert.hard = (call[s].op = "gdpr_delete")
    BY <2>1 DEF CertType, CallType
  <2> HIDE DEF cert
  <2>5. /\ t \in TxType /\ t.rows = tx[s].rows /\ t.links = tx[s].links /\ t.aborted = tx[s].aborted
        /\ t.unlinked = tx[s].unlinked /\ t.events = tx[s].events /\ t.certs = {cert}
    BY <2>1, <2>4 DEF TxType
  <2>6. \A x \in t.certs : /\ call[s].op \in {"forget", "gdpr_delete"}
                            /\ x.hashed = call[s].hashed /\ x.hard = (call[s].op = "gdpr_delete")
    BY <2>2, <2>4, <2>5
  <2>7. /\ UNCHANGED <<tables, reported, bumps>> /\ swallowed' = swallowed
        /\ swallowed \in BOOLEAN /\ requests' \in 0 .. MaxRequests /\ faults' \in 0 .. MaxFaults
    BY <1>3 DEF history, IInv, TypeOK
  <2> HIDE DEF t
  <2> QED
    BY <1>1, <1>3, <2>1, <2>3, <2>5, <2>6, <2>7, StepEnds
<1> QED
  BY <1>2, <1>3 DEF emit_forget_certificate

LEMMA ResultsTyped == ASSUME IInv, NEW s \in Sessions PROVE Results(s) \subseteq ResultType
<1>1. call[s].ids \subseteq Mems
  BY DEF IInv, TypeOK, CallType
<1>2. \A m \in Mems, b \in BOOLEAN : <<"stored", m, b>> \in ResultType /\ <<"forgotten", m, b>> \in ResultType
  BY DEF ResultType
<1>3. \A m \in Mems : (m \in call[s].seen) \in BOOLEAN
  OBVIOUS
<1>4. \A m \in Mems : <<"forgotten", m, m \in call[s].seen>> \in ResultType
  BY ONLY <1>2, <1>3, Zenon
<1>5. {<<"stored", m, TRUE>> : m \in call[s].ids} \subseteq ResultType
  BY <1>1, <1>2
<1>6. {<<"forgotten", m, m \in call[s].seen>> : m \in call[s].ids} \subseteq ResultType
  BY <1>1, <1>4, Zenon
<1> QED
  BY <1>5, <1>6, Zenon DEF Results

LEMMA AbortedCommit == ASSUME IInv, NEW s \in Sessions, CommitAborted(s) PROVE IInv'
<1>1. swallowed /\ swallowed' = swallowed
  BY DEF CommitAborted, IInv, CallsFit
<1>2. reported' \subseteq ResultType
  BY ResultsTyped DEF CommitAborted, IInv, TypeOK
<1>3. /\ Rollback(s) /\ UNCHANGED <<tables, bumps>>
      /\ requests' \in 0 .. MaxRequests /\ faults' \in 0 .. MaxFaults
  BY DEF CommitAborted, IInv, TypeOK
<1> QED
  BY <1>1, <1>2, <1>3, RolledBack

LEMMA ConnectionDies == ASSUME IInv, NEW s \in Sessions, ConnectionLost(s) PROVE IInv'
<1>1. faults' \in 0 .. MaxFaults /\ requests' \in 0 .. MaxRequests
  BY LimitsAssumption DEF ConnectionLost, IInv, TypeOK
<1> QED
  BY <1>1, RolledBack DEF ConnectionLost, history

-----------------------------------------------------------------------------
(* Commit *)

\* A row stays as it is, or changes the way the call that commits writes rows.
LEMMA CommitRows ==
    ASSUME IInv, NEW s \in Sessions, Commit(s), NEW m \in Mems
    PROVE  /\ row[m] \in RowType
           /\ m \notin Locks(s) => row'[m] = row[m]
           /\ m \in Locks(s) => /\ row'[m] = tx[s].rows[m]
                                /\ Becomes(call[s].op, row[m], row'[m])
                                /\ m \in call[s].ids /\ org[m] = call[s].org
  BY DEF IInv, CallsFit, Fits, RowsFit, Commit, Sees, Locks, TypeOK, TablesOK

\* What a row that has been there can become.
LEMMA CommitOrder ==
    ASSUME IInv, NEW s \in Sessions, Commit(s), NEW m \in Mems
    PROVE  /\ row'[m] \in RowType
           /\ row[m].st # "none" => row'[m].st # "none"
           /\ row[m].st = "deleted" => row'[m].st \in {"deleted", "erased"}
           /\ row[m].st = "erased" => row'[m].st = "erased"
           /\ row'[m].st \in {"none", "live"} => row[m].st \in {"none", "live"}
           /\ row[m].st \in Present /\ row'[m].st \notin Present
                 => m \in Locks(s) /\ call[s].op = "gdpr_delete"
           /\ row'[m].n = IF m \in Locks(s) /\ call[s].op = "recall" THEN row[m].n + 1 ELSE row[m].n
<1>1. CASE m \notin Locks(s)
  BY <1>1, CommitRows
<1>2. CASE m \in Locks(s)
  <2>1. row[m] \in RowType /\ Becomes(call[s].op, row[m], row'[m])
    BY <1>2, CommitRows
  <2> QED
    BY <1>2, <2>1 DEF Becomes, RowType, States, Present
<1> QED
  BY <1>1, <1>2

\* Where each row that the call's statement had, or that it hashed, stands
\* afterwards.
LEMMA CommitDone ==
    ASSUME IInv, NEW s \in Sessions, Commit(s), NEW m \in call[s].seen \cup call[s].hashed \cup Locks(s)
    PROVE  /\ m \in Mems
           /\ call[s].op = "gdpr_delete" => row'[m].st = "erased"
           /\ call[s].op = "forget" => row'[m].st \in {"deleted", "erased"}
           /\ call[s].op = "store" => row'[m].st = "live"
           /\ call[s].op = "recall" /\ m \notin Locks(s) => row'[m].st = "erased"
<1>1. /\ Fits(call[s], tx[s]) /\ call[s].step = "commit" /\ call[s] \in CallType /\ call[s].ids \subseteq Mems
      /\ call[s].todo = {} /\ call[s].step \notin Selecting
  BY DEF Commit, IInv, CallsFit, TypeOK, CallType, Fits, EndFits, Selecting
<1>2. m \in Mems
  BY <1>1 DEF CallType, Fits, RowsFit, Locks
<1>3. CASE m \in Locks(s)
  <2>1. row[m] \in RowType /\ Becomes(call[s].op, row[m], row'[m])
    BY <1>2, <1>3, CommitRows
  <2> QED
    BY <1>2, <1>3, <2>1 DEF Becomes, RowType, States, Present
<1>4. CASE m \notin Locks(s) /\ m \in call[s].seen
  <2>1. row'[m] = row[m]
    BY <1>2, <1>4, CommitRows
  <2>2. call[s].op # "store"
    BY <1>1, <1>4 DEF Fits, StoreFits
  <2>3. row[m].st \in Passes(call[s].op)
    BY <1>1, <1>4 DEF Fits, RowsFit, Locks
  <2> QED
    BY <1>2, <1>4, <2>1, <2>2, <2>3 DEF Passes
<1>5. CASE m \notin Locks(s) /\ m \notin call[s].seen
  <2>1. m \in call[s].hashed /\ row[m].st = "erased"
    BY <1>1, <1>5 DEF Fits, HashFits
  <2>2. row'[m].st = "erased"
    BY <1>2, <2>1, CommitOrder
  <2>3. m \in call[s].ids /\ call[s].op # "store"
    BY <1>1, <1>5, <2>1 DEF Fits, HashFits, StoreFits, Locks
  <2> QED
    BY <1>2, <2>2, <2>3
<1> QED
  BY <1>3, <1>4, <1>5

\* The calls of the others fit the new rows.
LEMMA CommitFitsOthers ==
    ASSUME IInv, NEW s \in Sessions, Commit(s), NEW u \in Sessions, u # s
    PROVE  Fits(call[u], tx[u])'
<1> DEFINE c == call[u]
           t == tx[u]
<1>1. /\ call'[u] = c /\ tx'[u] = t /\ Fits(c, t) /\ DOMAIN t.rows = Locks(u)
      /\ c \in CallType /\ t \in TxType
  BY DEF Commit, Rollback, IInv, CallsFit, TypeOK, Locks
<1>2. /\ Locks(u) \cap Locks(s) = {} /\ Locks(u) \subseteq Mems
      /\ c.seen \subseteq Mems /\ c.hashed \subseteq Mems /\ org' = org
  BY DEF IInv, CallsFit, LocksExclusive, TypeOK, CallType, TxType, Locks, Commit
<1>3. \A m \in Mems : /\ row[m].st # "none" => row'[m].st # "none"
                      /\ row[m].st \in Passes(c.op) => row'[m].st \in Passes(c.op)
  BY CommitOrder DEF Passes
<1>4. \A m \in Locks(u) : row'[m] = row[m]
  BY <1>2, CommitRows
<1>5. RowsFit(c, t)'
  <2>1. RowsFit(c, t)
    BY <1>1 DEF Fits
  <2>2. \A m \in DOMAIN t.rows : Becomes(c.op, row'[m], t.rows[m]) /\ org'[m] = c.org
    BY <1>1, <1>2, <1>4, <2>1 DEF RowsFit
  <2>3. \A m \in c.seen : row'[m].st # "none" /\ org'[m] = c.org
    BY <1>2, <1>3, <2>1 DEF RowsFit
  <2>4. \A m \in c.seen \ (c.todo \cup DOMAIN t.rows) : row'[m].st \in Passes(c.op)
    BY <1>2, <1>3, <2>1 DEF RowsFit
  <2>5. RowsFit(c, t)' <=>
          /\ c.todo \subseteq c.seen /\ c.seen \subseteq c.ids
          /\ DOMAIN t.rows \subseteq c.ids \ c.todo
          /\ \A m \in DOMAIN t.rows : Becomes(c.op, row'[m], t.rows[m]) /\ org'[m] = c.org
          /\ c.op # "store" => DOMAIN t.rows \subseteq c.seen
          /\ \A m \in c.seen : row'[m].st # "none" /\ org'[m] = c.org
          /\ \A m \in c.seen \ (c.todo \cup DOMAIN t.rows) : row'[m].st \in Passes(c.op)
          /\ c.op = "recall" =>
                c.seen = c.ids /\ \A m \in c.ids \ c.todo : \A x \in c.todo : m < x
    BY <1>1 DEF RowsFit
  <2> QED
    BY <2>1, <2>2, <2>3, <2>4, <2>5 DEF RowsFit
<1>6. \A r \in t.links : row'[r[2]].st \in Present
  <2> SUFFICES ASSUME NEW r \in t.links PROVE row'[r[2]].st \in Present
    OBVIOUS
  <2>1. r[2] \in Mems /\ row[r[2]].st \in Present
    BY <1>1 DEF Fits, StoreFits, TxType
  <2>2. call[s].op = "gdpr_delete" => r[2] \notin Locks(s)
    BY DEF IInv, CallsFit, LinksGuarded, Ends
  <2> QED
    BY <2>1, <2>2, CommitOrder
<1>7. StoreFits(c, t)'
  BY <1>1, <1>6 DEF Fits, StoreFits
<1>8. EraseFits(c, t)'
  <2> SUFFICES ASSUME c.op = "gdpr_delete", NEW m \in Locks(u), NEW r \in rels', m \in Ends(r)
               PROVE  r \in t.unlinked
    BY <1>1 DEF EraseFits, Touching
  <2>1. r \in rels \cup tx[s].links
    BY DEF Commit
  <2>2. r \notin tx[s].links
    BY DEF IInv, CallsFit, LinksGuarded
  <2> QED
    BY <1>1, <2>1, <2>2 DEF Fits, EraseFits, Touching
<1>9. EndFits(c, t)'
  BY <1>1 DEF Fits, EndFits
<1>10. HashFits(c)'
  <2>1. \A m \in Mems : row[m].st = "erased" => row'[m].st = "erased"
    BY CommitOrder
  <2> QED
    BY <1>1, <1>2, <1>3, <2>1 DEF Fits, HashFits
<1> QED
  BY <1>1, <1>5, <1>7, <1>8, <1>9, <1>10 DEF Fits

LEMMA CommitCallsFit == ASSUME IInv, NEW s \in Sessions, Commit(s) PROVE CallsFit'
<1>1. /\ call'[s] = Idle /\ tx'[s] = NoTx /\ swallowed' = swallowed
      /\ \A u \in Sessions \ {s} : call'[u] = call[u] /\ tx'[u] = tx[u]
  BY DEF Commit, Rollback, IInv, TypeOK
<1>2. Fits(call[s], tx[s])'
  BY <1>1, IdleTyped DEF Fits, RowsFit, HashFits, Selecting, StoreFits, EraseFits, EndFits
<1>3. \A u \in Sessions : Fits(call[u], tx[u])' /\ (tx'[u].aborted => swallowed')
  BY <1>1, <1>2, CommitFitsOthers, IdleTyped DEF IInv, CallsFit
<1>4. LocksExclusive'
  BY <1>1, IdleTyped DEF IInv, CallsFit, LocksExclusive, Locks
<1>5. LinksGuarded'
  BY <1>1, IdleTyped DEF IInv, CallsFit, LinksGuarded, Locks, Ends
<1> QED
  BY <1>3, <1>4, <1>5 DEF CallsFit

LEMMA CommitTyped == ASSUME IInv, NEW s \in Sessions, Commit(s) PROVE TypeOK'
<1>1. /\ row \in [Mems -> RowType] /\ org' \in [Mems -> Orgs] /\ rels \subseteq Mems \X Mems /\ events \subseteq EventType
      /\ versioned \subseteq Mems /\ certs \subseteq CertType /\ bumps \in [Mems -> Nat]
      /\ tx[s] \in TxType /\ call[s] \in CallType
      /\ reported \subseteq ResultType
  BY DEF IInv, TypeOK, TablesOK, Commit
<1>2. row' \in [Mems -> RowType]
  <2>1. \A m \in Mems : Sees(s, m) \in RowType
    BY <1>1 DEF Sees, Locks, TxType
  <2> QED
    BY <2>1 DEF Commit
<1>3. rels' \subseteq Mems \X Mems /\ events' \subseteq EventType /\ versioned' \subseteq Mems
      /\ certs' \subseteq CertType
  BY <1>1 DEF Commit, TxType
<1>4. bumps' \in [Mems -> Nat]
  BY <1>1 DEF Commit
<1>5. reported' \subseteq ResultType
  BY <1>1, ResultsTyped DEF Commit
<1>6. call' \in [Sessions -> CallType] /\ tx' \in [Sessions -> TxType]
  BY IdleTyped DEF Commit, Rollback, IInv, TypeOK
<1> QED
  BY <1>1, <1>2, <1>3, <1>4, <1>5, <1>6 DEF TypeOK, TablesOK, Commit, IInv

LEMMA CommitAudited == ASSUME IInv, NEW s \in Sessions, Commit(s) PROVE DeletionsAudited'
<1> SUFFICES ASSUME NEW m \in Mems
             PROVE  /\ row'[m].st = "deleted" => <<"forget", m, org[m]>> \in events'
                    /\ row'[m].st = "erased" => <<"gdpr_delete", m, org[m]>> \in events'
  BY DEF DeletionsAudited, Commit
<1>1. /\ row[m].st = "deleted" => <<"forget", m, org[m]>> \in events
      /\ row[m].st = "erased" => <<"gdpr_delete", m, org[m]>> \in events
      /\ events' = events \cup tx[s].events
  BY DEF IInv, DeletionsAudited, Commit
<1>2. CASE m \notin Locks(s)
  BY <1>1, <1>2, CommitRows
<1>3. CASE m \in Locks(s)
  <2>1. m \in call[s].ids /\ org[m] = call[s].org /\ row[m] \in RowType /\ Becomes(call[s].op, row[m], row'[m])
    BY <1>3, CommitRows
  <2>2. /\ call[s].op = "gdpr_delete" => <<"gdpr_delete", m, org[m]>> \in tx[s].events
        /\ call[s].op \in {"forget", "sweep", "retention"} => <<"forget", m, org[m]>> \in tx[s].events
    BY <2>1 DEF Commit, IInv, CallsFit, Fits, EndFits
  <2> QED
    BY <1>1, <2>1, <2>2 DEF Becomes, RowType, Present
<1> QED
  BY <1>2, <1>3

LEMMA CommitRelations == ASSUME IInv, NEW s \in Sessions, Commit(s) PROVE RelationsJoinMemories'
<1> SUFFICES ASSUME NEW r \in rels', NEW m \in Ends(r) PROVE row'[m].st \in Present
  BY DEF RelationsJoinMemories, Ends
<1>1. r \in rels \cup tx[s].links /\ r \notin tx[s].unlinked
  BY DEF Commit
<1>2. Fits(call[s], tx[s]) /\ tx[s] \in TxType
  BY DEF IInv, CallsFit, TypeOK
<1>3. CASE r \in rels
  <2>1. m \in Mems /\ row[m].st \in Present
    BY <1>3 DEF IInv, RelationsJoinMemories, Ends, TypeOK, TablesOK
  <2>2. ~(m \in Locks(s) /\ call[s].op = "gdpr_delete")
    BY <1>1, <1>2, <1>3 DEF Fits, EraseFits, Touching, Locks
  <2> QED
    BY <2>1, <2>2, CommitOrder
<1>4. CASE r \in tx[s].links
  <2>1. /\ r \in Mems \X Mems /\ call[s].op = "store" /\ r[1] \in Locks(s) /\ r[2] \notin Locks(s)
        /\ row[r[2]].st \in Present
    BY <1>2, <1>4 DEF Fits, StoreFits, Locks, TxType
  <2>2. row'[r[2]].st \in Present
    BY <2>1, CommitRows
  <2>3. row'[r[1]].st \in Present
    <3>1. Becomes("store", row[r[1]], row'[r[1]])
      BY <2>1, CommitRows
    <3> QED
      BY <3>1 DEF Becomes, Present
  <2> QED
    BY <2>2, <2>3 DEF Ends
<1> QED
  BY <1>1, <1>3, <1>4

LEMMA CommitCounts == ASSUME IInv, NEW s \in Sessions, Commit(s) PROVE CountsFit'
<1> SUFFICES ASSUME NEW m \in Mems
             PROVE  /\ row'[m].st \in Present => row'[m].n = bumps'[m]
                    /\ row'[m].st = "none" => row'[m].n = 0 /\ bumps'[m] = 0
  BY DEF CountsFit, NoLostBump
<1>1. row[m] \in RowType /\ row'[m] \in RowType /\ bumps[m] \in Nat
  BY CommitRows, CommitOrder DEF IInv, TypeOK
<1>2. /\ row[m].st \in Present => row[m].n = bumps[m]
      /\ row[m].st = "none" => row[m].n = 0 /\ bumps[m] = 0
  BY DEF IInv, CountsFit, NoLostBump
<1>3. bumps'[m] = IF call[s].op = "recall" /\ m \in call[s].ids /\ row'[m].st \in Present
                  THEN bumps[m] + 1 ELSE bumps[m]
  BY DEF Commit
<1>4. CASE call[s].op # "recall"
  <2>1. row'[m].n = row[m].n /\ bumps'[m] = bumps[m]
    BY <1>3, <1>4, CommitOrder
  <2>2. row'[m].st \in Present => row[m].st \in Present \cup {"none"}
    BY <1>1, CommitOrder DEF Present, RowType, States
  <2>3. row'[m].st = "none" => row[m].st = "none"
    BY CommitOrder
  <2> QED
    BY <1>2, <2>1, <2>2, <2>3
<1>5. CASE call[s].op = "recall" /\ m \in Locks(s)
  <2>1. Becomes("recall", row[m], row'[m]) /\ m \in call[s].ids
    BY <1>5, CommitRows
  <2>2. row[m].st \in Present /\ row'[m].st = row[m].st /\ row'[m].n = row[m].n + 1
    BY <1>1, <2>1 DEF Becomes, RowType
  <2> QED
    BY <1>2, <1>3, <1>5, <2>1, <2>2 DEF Present
<1>6. CASE call[s].op = "recall" /\ m \notin Locks(s)
  <2>1. m \in call[s].ids => m \in call[s].seen
    BY <1>6 DEF IInv, CallsFit, Fits, RowsFit
  <2>2. row'[m] = row[m] /\ (m \in call[s].ids => row'[m].st = "erased")
    BY <1>6, <2>1, CommitRows, CommitDone
  <2> QED
    BY <1>2, <1>3, <2>2 DEF Present
<1> QED
  BY <1>4, <1>5, <1>6

LEMMA CommitTruthful ==
    ASSUME IInv, NEW s \in Sessions, Commit(s)
    PROVE  CertificatesTruthful' /\ ReportedHoldsUnlessSwallowed'
<1>1. CertificatesTruthful'
  <2> SUFFICES ASSUME NEW c \in certs', NEW m \in c.hashed
               PROVE  IF c.hard THEN row'[m].st = "erased" ELSE row'[m].st \in {"deleted", "erased"}
    BY DEF CertificatesTruthful
  <2>1. c \in certs \cup tx[s].certs
    BY DEF Commit
  <2>2. CASE c \in certs
    <3>1. m \in Mems
      BY <2>2 DEF IInv, TypeOK, TablesOK, CertType
    <3>2. IF c.hard THEN row[m].st = "erased" ELSE row[m].st \in {"deleted", "erased"}
      BY <2>2 DEF IInv, CertificatesTruthful
    <3> QED
      BY <3>1, <3>2, CommitOrder
  <2>3. CASE c \in tx[s].certs
    <3>1. /\ call[s].op \in {"forget", "gdpr_delete"} /\ c.hashed = call[s].hashed
          /\ c.hard = (call[s].op = "gdpr_delete")
      BY <2>3 DEF IInv, CallsFit, Fits, EndFits
    <3> QED
      BY <3>1, CommitDone
  <2> QED
    BY <2>1, <2>2, <2>3
<1>2. ASSUME ~swallowed', NEW m \in Mems
      PROVE  /\ <<"forgotten", m, TRUE>> \in reported' => row'[m].st \in {"deleted", "erased"}
             /\ <<"stored", m, TRUE>> \in reported' => row'[m].st # "none"
  <2>1. /\ <<"forgotten", m, TRUE>> \in reported => row[m].st \in {"deleted", "erased"}
        /\ <<"stored", m, TRUE>> \in reported => row[m].st # "none"
    BY <1>2 DEF IInv, ReportedHoldsUnlessSwallowed, ReportedHolds, Commit
  <2>2. reported' = reported \cup Results(s)
    BY DEF Commit
  <2>3. CASE <<"forgotten", m, TRUE>> \in Results(s)
    <3>1. m \in call[s].seen /\ call[s].op \in {"forget", "gdpr_delete"}
      BY <2>3 DEF Results
    <3>2. <<"stored", m, TRUE>> \notin Results(s)
      BY <3>1 DEF Results
    <3> QED
      BY <2>1, <2>2, <3>1, <3>2, CommitDone, CommitOrder
  <2>4. CASE <<"stored", m, TRUE>> \in Results(s)
    <3>1. call[s].op = "store" /\ m \in Locks(s)
      BY <2>4 DEF Results, IInv, CallsFit, Fits, StoreFits, Locks
    <3>2. <<"forgotten", m, TRUE>> \notin Results(s)
      BY <3>1 DEF Results
    <3> QED
      BY <2>1, <2>2, <3>1, <3>2, CommitDone, CommitOrder
  <2>5. CASE <<"forgotten", m, TRUE>> \notin Results(s) /\ <<"stored", m, TRUE>> \notin Results(s)
    BY <2>1, <2>2, <2>5, CommitOrder
  <2> QED
    BY <2>3, <2>4, <2>5
<1> QED
  BY <1>1, <1>2 DEF ReportedHoldsUnlessSwallowed, ReportedHolds

LEMMA Commits == ASSUME IInv, NEW s \in Sessions, Commit(s) PROVE IInv'
  BY CommitTyped, CommitCallsFit, CommitAudited, CommitRelations, CommitCounts, CommitTruthful DEF IInv

-----------------------------------------------------------------------------
(* Every step *)

LEMMA CallSteps == ASSUME IInv, NEW s \in Sessions, CallStep(s) PROVE IInv'
<1>1. CASE find_related_memories(s) \/ snapshot_content_hashes(s) \/ DeleteBegins(s) \/ SelectExcess(s)
  BY <1>1, CascadeFinds, SnapshotTaken, DeleteStarted, ExcessSelected
<1>2. CASE RowStep(s)
  BY <1>2, RowSkipped, RowWritten, Raised DEF RowStep, RewriteRow
<1>3. CASE FinishRows(s) \/ NotFound(s)
  BY <1>3, RowsFinished, Raised DEF NotFound
<1>4. CASE Link(s) \/ LinkFails(s)
  BY <1>4, Linked, Raised DEF LinkFails
<1>5. CASE record_memo_version(s) \/ emit_forget_certificate(s)
  BY <1>5, VersionRecorded, CertificateEmitted
<1>6. CASE Commit(s) \/ CommitAborted(s)
  BY <1>6, Commits, AbortedCommit
<1>7. CASE DeadlockVictim(s)
  BY <1>7, Raised DEF DeadlockVictim
<1> QED
  BY <1>1, <1>2, <1>3, <1>4, <1>5, <1>6, <1>7 DEF CallStep

LEMMA NextInvariant == IInv /\ [Next]_vars => IInv'
<1> SUFFICES ASSUME IInv, [Next]_vars PROVE IInv'
  OBVIOUS
<1>1. ASSUME NEW s \in Sessions, BeginCall(s) \/ CallStep(s) \/ ConnectionLost(s) PROVE IInv'
  BY <1>1, CallBegins, CallSteps, ConnectionDies
<1>2. CASE UNCHANGED vars
  <2> USE <1>2 DEF vars, tables, history
  <2>1. TypeOK' /\ DeletionsAudited' /\ RelationsJoinMemories' /\ CountsFit'
    BY DEF IInv, TypeOK, TablesOK, DeletionsAudited, RelationsJoinMemories, Ends, CountsFit, NoLostBump
  <2>2. CertificatesTruthful' /\ ReportedHoldsUnlessSwallowed'
    BY DEF IInv, CertificatesTruthful, ReportedHoldsUnlessSwallowed, ReportedHolds
  <2>3. ASSUME NEW s \in Sessions PROVE Fits(call[s], tx[s])' /\ (tx[s].aborted => swallowed)'
    <3>1. Fits(call[s], tx[s]) /\ (tx[s].aborted => swallowed)
      BY DEF IInv, CallsFit
    <3> QED
      BY <3>1 DEF Fits, RowsFit, HashFits, StoreFits, EraseFits, EndFits, Touching
  <2>4. LocksExclusive' /\ LinksGuarded'
    BY DEF IInv, CallsFit, LocksExclusive, LinksGuarded, Locks, Ends
  <2> QED
    BY <2>1, <2>2, <2>3, <2>4 DEF IInv, CallsFit
<1> QED
  BY <1>1, <1>2 DEF Next

LEMMA SpecInvariant == Spec => []IInv
  BY InitInvariant, NextInvariant, PTL DEF Spec

-----------------------------------------------------------------------------
(* Theorems *)

\* Every variable keeps its type, for any sessions, memories and bounds.
THEOREM MemoriesTypeCorrect == Spec => []TypeOK
  BY SpecInvariant, PTL DEF IInv

\* However many sessions delete, erase, sweep and enforce the cap at once, and
\* whichever fail, each deleted row has its audit event from the commit that
\* deleted it.
THEOREM EveryDeletionAudited == Spec => []DeletionsAudited
  BY SpecInvariant, PTL DEF IInv

\* No interleaving of store with a hard delete of its target leaves a
\* relationship to a memory that is gone.
THEOREM NoDanglingRelations == Spec => []RelationsJoinMemories
  BY SpecInvariant, PTL DEF IInv

\* Recalls that overlap never lose an increment to each other, to a deletion
\* or to a transaction that is rolled back.
THEOREM BumpsNeverLost == Spec => []NoLostBump
  BY SpecInvariant, PTL DEF IInv, CountsFit

\* A forget certificate that can be read is true of every memory it has a hash
\* for, and stays true.  Of its other ids nothing is known: forget did not find
\* them.
THEOREM CertificatesStayTrue == Spec => []CertificatesTruthful
  BY SpecInvariant, PTL DEF IInv

\* Swallowed database errors are the only way for a stored memory, or for the
\* deletion of a row that forget's statement had, to be returned and not held.
THEOREM OnlySwallowingMisreports == Spec => []ReportedHoldsUnlessSwallowed
  BY SpecInvariant, PTL DEF IInv

\* A step that is not a commit leaves the rows alone.
LEMMA OnlyCommitsWrite ==
    ASSUME IInv, [Next]_vars
    PROVE  UNCHANGED row \/ \E s \in Sessions : Commit(s)
<1>1. CASE UNCHANGED vars
  BY <1>1 DEF vars, tables
<1>2. ASSUME NEW s \in Sessions, BeginCall(s) PROVE UNCHANGED row
  BY <1>2 DEF BeginCall, Begin, store, forget, sweep_expired_memories, enforce_retention_cap, recall,
              update_memory, transition_memory, decay_importance, tables
<1>3. ASSUME NEW s \in Sessions, CallStep(s) PROVE UNCHANGED row \/ Commit(s)
  BY <1>3 DEF CallStep, find_related_memories, snapshot_content_hashes, DeleteBegins, SelectExcess, RowStep, SkipRow, WriteRow, RewriteRow,
              FinishRows, NotFound, Link, LinkFails, record_memo_version, emit_forget_certificate,
              Swallow, CommitAborted, DeadlockVictim, Raise, tables
<1>4. ASSUME NEW s \in Sessions, ConnectionLost(s) PROVE UNCHANGED row
  BY <1>4 DEF ConnectionLost, tables
<1> QED
  BY <1>1, <1>2, <1>3, <1>4 DEF Next

\* No interleaving of the calls brings back a deleted memory, turns an erased
\* one into anything else or lowers a count: a write is made on the version
\* the row lock protects, never on the one an earlier SELECT returned.
THEOREM DeletionsFinal == Spec => DeletionIsFinal
<1>1. ASSUME IInv, [Next]_vars, NEW m \in Mems
      PROVE  /\ row[m].st = "erased" => row'[m].st = "erased"
             /\ row[m].st = "deleted" => row'[m].st \in {"deleted", "erased"}
             /\ row'[m].n >= row[m].n
  <2>1. row[m].n \in Nat
    BY <1>1 DEF IInv, TypeOK, TablesOK, RowType
  <2>2. CASE UNCHANGED row
    BY <2>1, <2>2
  <2>3. ASSUME NEW s \in Sessions, Commit(s)
        PROVE  /\ row[m].st = "erased" => row'[m].st = "erased"
               /\ row[m].st = "deleted" => row'[m].st \in {"deleted", "erased"}
               /\ row'[m].n >= row[m].n
    <3>1. row'[m].n \in {row[m].n, row[m].n + 1}
      BY <1>1, <2>3, CommitOrder
    <3>2. row'[m].n >= row[m].n
      BY <2>1, <3>1
    <3> QED
      BY <1>1, <2>3, <3>2, CommitOrder
  <2> QED
    BY <1>1, <2>2, <2>3, OnlyCommitsWrite
<1>2. IInv /\ [Next]_vars
        => [\A m \in Mems :
              /\ row[m].st = "erased" => row'[m].st = "erased"
              /\ row[m].st = "deleted" => row'[m].st \in {"deleted", "erased"}
              /\ row'[m].n >= row[m].n]_vars
  BY <1>1
<1> QED
  BY <1>2, SpecInvariant, PTL DEF Spec, DeletionIsFinal

-----------------------------------------------------------------------------
(* Recalls do not deadlock *)

\* A recall that waits, waits for the row it would lock next.
LEMMA WaitsUpward ==
    ASSUME IInv, NEW s \in Sessions, NEW t \in Sessions, WaitsFor(s, t), call[s].op = "recall"
    PROVE  \E m \in NextRows(s) : m \in Mems /\ m \in Locks(t)
<1>1. Fits(call[s], tx[s]) /\ call[s] \in CallType
  BY DEF IInv, CallsFit, TypeOK
<1>2. call[s].step # "link"
  BY <1>1 DEF Fits, StoreFits
<1>3. PICK m \in NextRows(s) : t \in Blockers(s, m)
  BY <1>2 DEF WaitsFor
<1>4. m \in Locks(t)
  BY <1>3 DEF Blockers
<1> QED
  BY <1>1, <1>4 DEF NextRows, CallType

LEMMA NoUpwardCycle ==
    ASSUME NEW W \in SUBSET Mems, W # {}
    PROVE  \E m \in W : \A x \in W : ~(m < x)
<1> DEFINE above(m) == {x \in W : m < x}
           sizes == {Cardinality(above(m)) : m \in W}
<1>1. \A m \in W : IsFiniteSet(above(m)) /\ Cardinality(above(m)) \in Nat
  <2>1. \A m \in W : above(m) \in SUBSET Mems
    OBVIOUS
  <2> HIDE DEF above
  <2> QED
    BY <2>1, MemsAssumption, FS_Subset, FS_CardinalityType
<1>2. PICK k \in sizes : \A j \in sizes : k <= j
  <2>1. sizes \in SUBSET Nat /\ sizes # {}
    BY <1>1
  <2> HIDE DEF sizes
  <2> QED
    BY <2>1, NatSetHasMin
<1>3. PICK m \in W : k = Cardinality(above(m))
  OBVIOUS
<1>4. ASSUME NEW x \in W, m < x PROVE FALSE
  <2>1. m \in Nat /\ x \in Nat /\ \A y \in W : y \in Nat
    BY MemsAssumption
  <2>2. above(x) \subseteq above(m)
    <3> SUFFICES ASSUME NEW y \in W, x < y PROVE m < y
      OBVIOUS
    <3>1. m \in Nat /\ x \in Nat /\ y \in Nat /\ m < x /\ x < y
      BY <1>4, <2>1
    <3> QED
      BY <3>1
  <2>3. x \in above(m) /\ x \notin above(x)
    BY <1>4, <2>1
  <2>4. Cardinality(above(x)) < Cardinality(above(m))
    <3> HIDE DEF above
    <3> QED
      BY <1>1, <2>2, <2>3, FS_Subset
  <2>5. k <= Cardinality(above(x))
    BY <1>2
  <2> HIDE DEF above
  <2> QED
    BY <1>1, <1>3, <2>4, <2>5
<1> QED
  BY <1>4

LEMMA RecallsWait == IInv => RecallsDoNotDeadlock
<1> SUFFICES ASSUME IInv, NEW S \in SUBSET {s \in Sessions : call[s].op = "recall"}, Deadlocked(S)
             PROVE  FALSE
  BY DEF RecallsDoNotDeadlock
<1> DEFINE W == {m \in Mems : \E s, t \in S : WaitsFor(s, t) /\ m \in NextRows(s) /\ m \in Locks(t)}
<1>1. W # {}
  <2>1. PICK s \in S, t \in S : WaitsFor(s, t)
    BY DEF Deadlocked
  <2> QED
    BY <2>1, WaitsUpward
<1>2. PICK m \in W : \A x \in W : ~(m < x)
  <2> HIDE DEF W
  <2>1. W \in SUBSET Mems
    BY DEF W
  <2> QED
    BY <1>1, <2>1, NoUpwardCycle
<1>3. PICK t \in S : m \in Locks(t)
  BY <1>2
<1>4. PICK u \in S : WaitsFor(t, u)
  BY DEF Deadlocked
<1>5. PICK x \in NextRows(t) : x \in Mems /\ x \in Locks(u)
  BY <1>4, WaitsUpward
<1>6. x \in W
  BY <1>4, <1>5
<1>7. m < x
  <2>1. Fits(call[t], tx[t]) /\ call[t].op = "recall"
    BY DEF IInv, CallsFit
  <2>2. m \in call[t].ids \ call[t].todo /\ x \in call[t].todo
    BY <1>3, <1>5, <2>1 DEF Fits, RowsFit, Locks, NextRows
  <2> QED
    BY <2>1, <2>2 DEF Fits, RowsFit
<1> QED
  BY <1>2, <1>6, <1>7

\* However many recalls overlap on however many rows, they never wait for each
\* other in a cycle: what each has locked is below what it waits for.
THEOREM RecallsNeverDeadlock == Spec => []RecallsDoNotDeadlock
  BY SpecInvariant, RecallsWait, PTL
================================================================================
