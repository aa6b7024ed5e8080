------------------------------ MODULE SubmitProofs ------------------------------
(***************************************************************************)
(* Theorems about a submission, for any number of calls, keys, requests,   *)
(* faults and crashes and any limits.                                      *)
(*                                                                         *)
(* First the manager's side, IdempotentSubmit: the lock table is exact, a  *)
(* key leads to one job until it is evicted, and an answer is about the    *)
(* request that was sent.  Only LineInv looks at who stands in line and    *)
(* which key is the oldest; nothing else depends on either.                *)
(*                                                                         *)
(* Then the handler in front of it, HttpSubmit: it leaves the manager's    *)
(* side what it is, a request with anything wrong with it never reaches    *)
(* submit(), a status code says what became of the request, and the        *)
(* counter of jobs is right.                                               *)
(***************************************************************************)
EXTENDS HttpSubmit, FiniteSetTheorems, TLAPS

(* What of TypeOK most arguments need; LineInv below has the rest of it.     *)
Types ==
  /\ rows \subseteq Calls
  /\ jobOf \in [Keys -> Calls \cup {NoCall}]
  /\ prints \in [Keys -> {RequestOf[c] : c \in Calls} \cup {NoPrint}]
  /\ locks \in [Keys -> Calls \cup {NoCall}]
  /\ waiters \in [Keys -> Nat]
  /\ held \subseteq Calls
  /\ lockOf \in [Calls -> Calls \cup {NoCall}]
  /\ found \in [Calls -> Calls \cup {NoCall}]
  /\ call \in [Calls -> CallState]
  /\ reply \in [Calls -> Calls \cup {NoCall, "refused"}]
  /\ faults \in 0 .. StoreFaults
  /\ crashes \in 0 .. MaxCrashes

-----------------------------------------------------------------------------
(* The lock table: a key at work has one lock, which its calls have taken   *)
(* and which is locked while one of them, and only one, is in the store.    *)
Users(k) == {c \in Calls : KeyOf[c] = k /\ call[c] \in Inside}

TableInv == \A k \in Keys :
  /\ waiters[k] = Cardinality(Users(k))
  /\ locks[k] # NoCall <=> Users(k) # {}

LockInv ==
  /\ \A c \in Calls : call[c] \in Inside => lockOf[c] = locks[KeyOf[c]]
  /\ \A c \in Calls : call[c] \in InStore => lockOf[c] \in held
  /\ \A k \in Keys : locks[k] # NoCall => KeyOf[locks[k]] = k
  /\ \A c, d \in Calls : /\ call[c] \in InStore /\ call[d] \in InStore
                         /\ KeyOf[c] = KeyOf[d]
                         => c = d

-----------------------------------------------------------------------------
(* The key table: while a call is in the store no other has its key.        *)
KeyTable == \A k \in Keys :
  /\ jobOf[k] # NoCall => KeyOf[jobOf[k]] = k
  /\ prints[k] # NoPrint => jobOf[k] # NoCall /\ prints[k] = RequestOf[jobOf[k]]

(* A key that is remembered leads to the one job made under it.             *)
OnlyRow == \A c \in rows : KeyOf[c] \notin forgotten => jobOf[KeyOf[c]] = c

NoRow(k) == \A c \in rows : KeyOf[c] # k

Progressing(c) ==
  /\ call[c] \in {"getting", "comparing"} =>
       /\ found[c] \in Calls /\ KeyOf[found[c]] = KeyOf[c]
       /\ jobOf[KeyOf[c]] \in {found[c], NoCall}
       /\ jobOf[KeyOf[c]] = NoCall => KeyOf[c] \in forgotten
  /\ call[c] = "comparing" => found[c] \in rows
  /\ call[c] = "remembering" => KeyOf[c] \in forgotten \/ NoRow(KeyOf[c])
  /\ call[c] \in {"stamping", "creating"} =>
       /\ jobOf[KeyOf[c]] \in {c, NoCall}
       /\ KeyOf[c] \in forgotten \/ (NoRow(KeyOf[c]) /\ jobOf[KeyOf[c]] = c)

KeyInv == KeyTable /\ OnlyRow /\ \A c \in Calls : Progressing(c)

-----------------------------------------------------------------------------
(* The answers: a caller is told nothing before it returns, and the one     *)
(* that made a job is told of it, unless the process died between the       *)
(* commit and the return.                                                   *)
Answered(c) ==
  /\ reply[c] \in Calls =>
       reply[c] \in rows /\ RequestOf[reply[c]] = RequestOf[c] /\ KeyOf[reply[c]] = KeyOf[c]
  /\ reply[c] = "refused" =>
       \E d \in rows : KeyOf[d] = KeyOf[c] /\ RequestOf[d] # RequestOf[c]
  /\ call[c] # "returned" => reply[c] = NoCall
  /\ c \in rows => call[c] = "lost" \/ (call[c] = "returned" /\ reply[c] = c)

AnswerInv == \A c \in Calls : Answered(c)

SubmitInv == Types /\ TableInv /\ LockInv /\ KeyInv /\ AnswerInv

-----------------------------------------------------------------------------
(* The lock table.                                                          *)

LEMMA UsersFinite == ASSUME NEW k PROVE IsFiniteSet(Users(k))
<1>1. Users(k) \in SUBSET Calls
  BY DEF Users
<1> QED
  BY <1>1, FS_Subset, ConstantsAssumption

(* A move from one await to another leaves the table as it is.              *)
LEMMA TableSame ==
  ASSUME TableInv, UNCHANGED <<locks, waiters>>,
         \A c \in Calls : call[c] \in Inside <=> call'[c] \in Inside
  PROVE  TableInv'
<1>1. \A k : Users(k)' = Users(k)
  BY DEF Users
<1> QED
  BY <1>1 DEF TableInv

(* The count is of those at work on the key: the last one out drops the     *)
(* lock, and nobody else does.                                              *)
LEMMA TableDropped ==
  ASSUME Types, TableInv, NEW c \in Calls, call[c] \in Inside, DropLock(c),
         NEW s \in Over, call' = [call EXCEPT ![c] = s]
  PROVE  /\ TableInv'
         /\ locks' \in [Keys -> Calls \cup {NoCall}] /\ waiters' \in [Keys -> Nat]
         /\ \A k \in Keys : locks'[k] \in {locks[k], NoCall}
         /\ \A d \in Calls \ {c} : call[d] \in Inside => locks'[KeyOf[d]] = locks[KeyOf[d]]
<1> DEFINE k0 == KeyOf[c]
<1>1. k0 \in Keys /\ s \notin Inside
  BY ConstantsAssumption DEF Over, Inside, InStore
<1>2. Users(k0)' = Users(k0) \ {c} /\ \A k \in Keys \ {k0} : Users(k)' = Users(k)
  BY <1>1 DEF Users, Types
<1>3. c \in Users(k0) /\ waiters[k0] = Cardinality(Users(k0)) /\ waiters[k0] \in Nat
  BY <1>1 DEF Users, TableInv, Types
<1>4. Cardinality(Users(k0)') = waiters[k0] - 1
  BY <1>2, <1>3, UsersFinite, FS_RemoveElement
<1>5. IsFiniteSet(Users(k0)') /\ (Users(k0)' = {} <=> waiters[k0] = 1)
  <2>1. IsFiniteSet(Users(k0)')
    BY <1>2, UsersFinite, FS_RemoveElement
  <2>2. Cardinality(Users(k0)') = 0 <=> Users(k0)' = {}
    BY <2>1, FS_EmptySet
  <2> QED
    BY <1>3, <1>4, <2>1, <2>2
<1>6. waiters[k0] >= 1
  <2>1. Cardinality(Users(k0)') \in Nat
    BY <1>5, FS_CardinalityType
  <2> QED
    BY <1>3, <1>4, <2>1
<1>7. waiters' = [waiters EXCEPT ![k0] = waiters[k0] - 1]
  <2>1. (IF LastOut(c) THEN 0 ELSE waiters[k0] - 1) = waiters[k0] - 1
    BY <1>3 DEF LastOut
  <2> QED
    BY <2>1 DEF DropLock
<1>8. locks' = IF Users(k0)' = {} THEN [locks EXCEPT ![k0] = NoCall] ELSE locks
  BY <1>5 DEF DropLock, LastOut
<1>9. locks' \in [Keys -> Calls \cup {NoCall}] /\ waiters' \in [Keys -> Nat]
  BY <1>1, <1>3, <1>6, <1>7, <1>8 DEF Types
<1>10. TableInv'
  <2> SUFFICES ASSUME NEW k \in Keys
               PROVE  /\ waiters'[k] = Cardinality(Users(k)')
                      /\ locks'[k] # NoCall <=> Users(k)' # {}
    BY DEF TableInv
  <2>1. CASE k = k0
    <3>1. locks[k0] # NoCall
      BY <1>1, <1>3 DEF TableInv
    <3> QED
      BY <1>1, <1>4, <1>7, <1>8, <2>1, <3>1 DEF Types
  <2>2. CASE k # k0
    BY <1>2, <1>7, <1>8, <2>2 DEF Types, TableInv
  <2> QED
    BY <2>1, <2>2
<1>11. \A k \in Keys : locks'[k] \in {locks[k], NoCall}
  BY <1>1, <1>8 DEF Types
<1>12. ASSUME NEW d \in Calls \ {c}, call[d] \in Inside
       PROVE  locks'[KeyOf[d]] = locks[KeyOf[d]]
  <2>1. CASE KeyOf[d] = k0
    <3>1. d \in Users(k0)'
      BY <1>2, <1>12, <2>1 DEF Users
    <3> QED
      BY <1>8, <3>1
  <2>2. CASE KeyOf[d] # k0
    BY <1>1, <1>8, <2>2, ConstantsAssumption DEF Types
  <2> QED
    BY <2>1, <2>2
<1> QED
  BY <1>9, <1>10, <1>11, <1>12

(* An arrival finds the lock of its key, or makes it.                       *)
LEMMA TableEntered ==
  ASSUME Types, TableInv, NEW c \in Calls, Arrive(c)
  PROVE  /\ TableInv'
         /\ locks' \in [Keys -> Calls \cup {NoCall}] /\ waiters' \in [Keys -> Nat]
         /\ call'[c] \in Inside /\ \A d \in Calls \ {c} : call'[d] = call[d]
<1> DEFINE k0 == KeyOf[c]
           l == IF locks[k0] = NoCall THEN c ELSE locks[k0]
<1>1. k0 \in Keys /\ l \in Calls /\ l # NoCall
  BY ConstantsAssumption DEF Types
<1>2. /\ call[c] = "idle" /\ call' \in {[call EXCEPT ![c] = "recalling"], [call EXCEPT ![c] = "waiting"]}
      /\ locks' = [locks EXCEPT ![k0] = l]
      /\ waiters' = [waiters EXCEPT ![k0] = waiters[k0] + 1]
  BY DEF Arrive, Go
<1>3. call'[c] \in Inside /\ call[c] \notin Inside /\ \A d \in Calls \ {c} : call'[d] = call[d]
  BY <1>2 DEF Inside, InStore, Types
<1>4. Users(k0)' = Users(k0) \cup {c} /\ \A k \in Keys \ {k0} : Users(k)' = Users(k)
  BY <1>3 DEF Users
<1>5. Cardinality(Users(k0)') = Cardinality(Users(k0)) + 1
  BY <1>3, <1>4, UsersFinite, FS_AddElement DEF Users
<1>6. TableInv'
  <2> SUFFICES ASSUME NEW k \in Keys
               PROVE  /\ waiters'[k] = Cardinality(Users(k)')
                      /\ locks'[k] # NoCall <=> Users(k)' # {}
    BY DEF TableInv
  <2>1. CASE k = k0
    BY <1>1, <1>2, <1>4, <1>5, <2>1 DEF Types, TableInv
  <2>2. CASE k # k0
    BY <1>2, <1>4, <2>2 DEF Types, TableInv
  <2> QED
    BY <2>1, <2>2
<1>7. locks' \in [Keys -> Calls \cup {NoCall}] /\ waiters' \in [Keys -> Nat]
  BY <1>1, <1>2 DEF Types
<1> QED
  BY <1>3, <1>6, <1>7

-----------------------------------------------------------------------------
(* Mutual exclusion.                                                        *)

(* Two calls with one lock have one key.                                    *)
LEMMA OneLockOneKey ==
  ASSUME TableInv, LockInv,
         NEW c \in Calls, NEW d \in Calls, call[c] \in Inside, call[d] \in Inside
  PROVE  /\ lockOf[c] = lockOf[d] <=> KeyOf[c] = KeyOf[d]
         /\ lockOf[c] = locks[KeyOf[c]] /\ lockOf[c] # NoCall
<1>1. KeyOf[c] \in Keys /\ KeyOf[d] \in Keys
  BY ConstantsAssumption
<1>2. c \in Users(KeyOf[c]) /\ d \in Users(KeyOf[d])
  BY DEF Users
<1> QED
  BY <1>1, <1>2 DEF TableInv, LockInv

LEMMA LockSame ==
  ASSUME Types, LockInv, NEW c \in Calls, call[c] \in InStore, UNCHANGED lockVars,
         NEW s \in InStore, call' = [call EXCEPT ![c] = s]
  PROVE  LockInv'
<1>1. \A d \in Calls : (call'[d] \in Inside <=> call[d] \in Inside)
                       /\ (call'[d] \in InStore <=> call[d] \in InStore)
  BY DEF Types, Inside
<1>2. UNCHANGED <<locks, held, lockOf>>
  BY DEF lockVars
<1> QED
  BY <1>1, <1>2 DEF LockInv

(* Whoever leaves, others at work keep their lock, and the one in the store *)
(* keeps it locked.                                                         *)
LEMMA LockDropped ==
  ASSUME Types, TableInv, LockInv, NEW c \in Calls, call[c] \in Inside, DropLock(c),
         UNCHANGED lockOf, NEW s \in Over, call' = [call EXCEPT ![c] = s],
         held' = held \/ (call[c] \in InStore /\ held' = held \ {lockOf[c]})
  PROVE  LockInv'
<1>1. s \notin Inside /\ s \notin InStore /\ InStore \subseteq Inside
  BY DEF Over, Inside, InStore
<1>2. \A d \in Calls : call'[d] \in Inside => d # c /\ call'[d] = call[d]
  BY <1>1 DEF Types
<1>3. \A d \in Calls : call'[d] \in Inside => lockOf'[d] = locks'[KeyOf[d]]
  <2>1. \A d \in Calls \ {c} : call[d] \in Inside => locks'[KeyOf[d]] = locks[KeyOf[d]]
    BY TableDropped
  <2> QED
    BY <1>2, <2>1 DEF LockInv
<1>4. \A d \in Calls : call'[d] \in InStore => lockOf'[d] \in held'
  BY <1>1, <1>2, OneLockOneKey DEF LockInv
<1>5. \A k \in Keys : locks'[k] # NoCall => KeyOf[locks'[k]] = k
  BY TableDropped DEF LockInv
<1>6. \A d, e \in Calls : call'[d] \in InStore /\ call'[e] \in InStore /\ KeyOf[d] = KeyOf[e] => d = e
  BY <1>1, <1>2 DEF LockInv
<1> QED
  BY <1>3, <1>4, <1>5, <1>6 DEF LockInv

(* The lock lets a call in only when no other is in the store under it.     *)
LEMMA LockEntered ==
  ASSUME Types, TableInv, LockInv, NEW c \in Calls, Enter(c)
  PROVE  LockInv'
<1>1. /\ call[c] = "waiting" /\ lockOf[c] \notin held /\ held' = held \cup {lockOf[c]}
      /\ call' = [call EXCEPT ![c] = "recalling"] /\ UNCHANGED <<locks, lockOf>>
  BY DEF Enter, Go
<1>2. call[c] \in Inside /\ InStore \subseteq Inside /\ "recalling" \in InStore
  BY <1>1 DEF Inside, InStore
<1>3. \A d \in Calls : call'[d] \in Inside <=> call[d] \in Inside
  BY <1>1, <1>2 DEF Types
<1>4. \A d \in Calls : call[d] \in InStore => KeyOf[d] # KeyOf[c]
  BY <1>1, <1>2, OneLockOneKey DEF LockInv
<1>5. \A d \in Calls : call'[d] \in InStore => d = c \/ call[d] \in InStore
  BY <1>1 DEF Types
<1> QED
  BY <1>1, <1>3, <1>4, <1>5 DEF LockInv

LEMMA LockArrived ==
  ASSUME Types, TableInv, LockInv, NEW c \in Calls, Arrive(c)
  PROVE  LockInv' /\ held' \subseteq Calls /\ lockOf' \in [Calls -> Calls \cup {NoCall}]
<1> DEFINE k0 == KeyOf[c]
           l == IF locks[k0] = NoCall THEN c ELSE locks[k0]
<1>1. /\ k0 \in Keys /\ l \in Calls /\ l # NoCall /\ KeyOf[l] = k0
  BY ConstantsAssumption DEF Types, LockInv
<1>2. /\ locks' = [locks EXCEPT ![k0] = l] /\ lockOf' = [lockOf EXCEPT ![c] = l]
      /\ \/ l \notin held /\ held' = held \cup {l} /\ call' = [call EXCEPT ![c] = "recalling"]
         \/ held' = held /\ call' = [call EXCEPT ![c] = "waiting"]
      /\ call[c] = "idle"
  BY DEF Arrive, Go
<1>3. /\ \A d \in Calls \ {c} : call'[d] = call[d] /\ lockOf'[d] = lockOf[d]
      /\ lockOf'[c] = l /\ locks'[k0] = l /\ call[c] \notin Inside /\ InStore \subseteq Inside
      /\ call'[c] \in InStore => l \notin held /\ l \in held'
      /\ held \subseteq held'
  BY <1>1, <1>2 DEF Types, Inside, InStore
<1>4. \A d \in Calls \ {c} : call[d] \in Inside => lockOf[d] = locks'[KeyOf[d]]
  <2> SUFFICES ASSUME NEW d \in Calls \ {c}, call[d] \in Inside
               PROVE  lockOf[d] = locks'[KeyOf[d]]
    OBVIOUS
  <2>1. lockOf[d] = locks[KeyOf[d]] /\ locks[KeyOf[d]] # NoCall
    BY OneLockOneKey
  <2> QED
    BY <1>1, <1>2, <2>1, ConstantsAssumption DEF Types
<1>5. \A d \in Calls : call'[d] \in Inside => lockOf'[d] = locks'[KeyOf[d]]
  BY <1>3, <1>4
<1>6. \A d \in Calls : call'[d] \in InStore => lockOf'[d] \in held'
  BY <1>3 DEF LockInv
<1>7. \A k \in Keys : locks'[k] # NoCall => KeyOf[locks'[k]] = k
  BY <1>1, <1>2 DEF Types, LockInv
<1>8. call'[c] \in InStore => \A d \in Calls \ {c} : call[d] \in InStore => KeyOf[d] # k0
  <2> SUFFICES ASSUME call'[c] \in InStore, NEW d \in Calls \ {c}, call[d] \in InStore, KeyOf[d] = k0
               PROVE  FALSE
    OBVIOUS
  <2>1. lockOf[d] = locks[k0] /\ locks[k0] # NoCall
    BY <1>3, OneLockOneKey
  <2>2. lockOf[d] \in held
    BY DEF LockInv
  <2> QED
    BY <1>3, <2>1, <2>2
<1>9. \A d, e \in Calls : call'[d] \in InStore /\ call'[e] \in InStore /\ KeyOf[d] = KeyOf[e] => d = e
  BY <1>3, <1>8 DEF LockInv
<1>10. held' \subseteq Calls /\ lockOf' \in [Calls -> Calls \cup {NoCall}]
  BY <1>1, <1>2 DEF Types
<1> QED
  BY <1>5, <1>6, <1>7, <1>9, <1>10 DEF LockInv

-----------------------------------------------------------------------------
(* The key table.                                                           *)

(* A step that leaves the store alone and moves one call.                   *)
LEMMA KeySame ==
  ASSUME KeyInv, UNCHANGED storeVars, NEW c \in Calls,
         \A d \in Calls \ {c} : call'[d] = call[d] /\ found'[d] = found[d],
         Progressing(c)'
  PROVE  KeyInv'
<1>1. UNCHANGED <<rows, jobOf, prints, forgotten>>
  BY DEF storeVars
<1>2. ASSUME NEW d \in Calls \ {c}
      PROVE  Progressing(d)'
  BY <1>1, <1>2 DEF KeyInv, Progressing, NoRow
<1> QED
  BY <1>1, <1>2 DEF KeyInv, KeyTable, OnlyRow

LEMMA KeyRecalled ==
  ASSUME Types, KeyInv, NEW c \in Calls, Recalled(c)
  PROVE  KeyInv'
<1> DEFINE k0 == KeyOf[c]
<1>1. /\ UNCHANGED storeVars /\ call[c] = "recalling"
      /\ \/ jobOf[k0] = NoCall /\ call' = [call EXCEPT ![c] = "remembering"] /\ found' = found
         \/ /\ jobOf[k0] # NoCall /\ call' = [call EXCEPT ![c] = "getting"]
            /\ found' = [found EXCEPT ![c] = jobOf[k0]]
  BY DEF Recalled, Go
<1>2. k0 \in Keys /\ jobOf[k0] \in Calls \cup {NoCall}
  BY ConstantsAssumption DEF Types
<1>3. \A d \in Calls \ {c} : call'[d] = call[d] /\ found'[d] = found[d]
  BY <1>1 DEF Types
<1>4. jobOf[k0] = NoCall => k0 \in forgotten \/ NoRow(k0)
  BY ConstantsAssumption DEF KeyInv, OnlyRow, NoRow, Types
<1>5. Progressing(c)'
  <2>1. UNCHANGED <<rows, jobOf, forgotten>>
    BY <1>1 DEF storeVars
  <2>2. CASE jobOf[k0] = NoCall
    BY <1>1, <1>4, <2>1, <2>2 DEF Progressing, NoRow, Types
  <2>3. CASE jobOf[k0] # NoCall
    BY <1>1, <1>2, <2>1, <2>3 DEF Progressing, Types, KeyInv, KeyTable
  <2> QED
    BY <2>2, <2>3
<1> QED
  BY <1>1, <1>3, <1>5, KeySame

LEMMA KeyGot ==
  ASSUME Types, KeyInv, NEW c \in Calls, Got(c)
  PROVE  KeyInv'
<1> DEFINE k0 == KeyOf[c]
<1>1. /\ UNCHANGED <<storeVars, found>> /\ call[c] = "getting"
      /\ call' = [call EXCEPT ![c] = IF found[c] \in rows THEN "comparing" ELSE "remembering"]
  BY DEF Got, Go, Exists
<1>2. \A d \in Calls \ {c} : call'[d] = call[d] /\ found'[d] = found[d]
  BY <1>1 DEF Types
<1>3. Progressing(c)
  BY DEF KeyInv
<1>4. found[c] \notin rows => k0 \in forgotten \/ NoRow(k0)
  BY <1>1, <1>3 DEF KeyInv, OnlyRow, NoRow, Progressing, Types
<1>5. Progressing(c)'
  <2>1. UNCHANGED <<rows, jobOf, forgotten>>
    BY <1>1 DEF storeVars
  <2> QED
    BY <1>1, <1>3, <1>4, <2>1 DEF Progressing, NoRow, Types
<1> QED
  BY <1>1, <1>2, <1>5, KeySame

(* A key is taken over by a job of the call that holds its lock; another    *)
(* key is left as it was, or evicted.                                       *)
LEMMA KeyRemembered ==
  ASSUME Types, LockInv, KeyInv, NEW c \in Calls, Remembered(c)
  PROVE  KeyInv'
<1> DEFINE k0 == KeyOf[c]
           gone == Evicted(k0)
<1>1. /\ call[c] = "remembering" /\ call' = [call EXCEPT ![c] = "stamping"]
      /\ \A k \in Keys : jobOf'[k] = IF k \in gone THEN NoCall ELSE IF k = k0 THEN c ELSE jobOf[k]
      /\ \A k \in Keys : prints'[k] = IF k \in gone \cup {k0} THEN NoPrint ELSE prints[k]
      /\ forgotten' = forgotten \cup gone
      /\ UNCHANGED <<rows, found>>
  BY DEF Remembered, Go
<1>2. k0 \in Keys /\ c # NoCall
  BY ConstantsAssumption
<1>3. KeyTable'
  BY <1>1, <1>2 DEF KeyTable, KeyInv
<1>4. k0 \in forgotten \/ NoRow(k0)
  BY <1>1 DEF KeyInv, Progressing
<1>5. OnlyRow'
  BY <1>1, <1>4, ConstantsAssumption DEF OnlyRow, NoRow, KeyInv, Types
<1>6. ASSUME NEW d \in Calls
      PROVE  Progressing(d)'
  <2>1. CASE d = c
    BY <1>1, <1>2, <1>4, <2>1 DEF Progressing, NoRow, Types
  <2>2. CASE d # c
    <3>1. call'[d] = call[d] /\ KeyOf[d] \in Keys
      BY <1>1, <2>2, ConstantsAssumption DEF Types
    <3>2. call[d] \in InStore => KeyOf[d] # k0
      BY <1>1, <2>2 DEF LockInv, InStore
    <3>3. call[d] \in InStore => jobOf'[KeyOf[d]] = IF KeyOf[d] \in gone THEN NoCall ELSE jobOf[KeyOf[d]]
      BY <1>1, <3>1, <3>2
    <3> QED
      BY <1>1, <3>1, <3>3 DEF Progressing, NoRow, KeyInv, InStore
  <2> QED
    BY <2>1, <2>2
<1> QED
  BY <1>3, <1>5, <1>6 DEF KeyInv

LEMMA KeyStamped ==
  ASSUME Types, KeyInv, NEW c \in Calls, Stamped(c)
  PROVE  KeyInv'
<1> DEFINE k0 == KeyOf[c]
<1>1. /\ call[c] = "stamping" /\ call' = [call EXCEPT ![c] = "creating"]
      /\ prints' = IF jobOf[k0] = NoCall THEN prints ELSE [prints EXCEPT ![k0] = RequestOf[c]]
      /\ UNCHANGED <<rows, jobOf, forgotten, found>>
  BY DEF Stamped, Go
<1>2. Progressing(c) /\ k0 \in Keys
  BY ConstantsAssumption DEF KeyInv
<1>3. jobOf[k0] \in {c, NoCall}
  BY <1>1, <1>2 DEF Progressing
<1>4. KeyTable'
  BY <1>1, <1>2, <1>3 DEF KeyTable, KeyInv, Types
<1>5. \A d \in Calls : Progressing(d)'
  BY <1>1, <1>2 DEF Progressing, NoRow, KeyInv, Types
<1> QED
  BY <1>1, <1>4, <1>5 DEF KeyInv, OnlyRow

(* A row is added under its key by the holder of the key's lock.            *)
LEMMA KeyCreated ==
  ASSUME Types, LockInv, KeyInv, NEW c \in Calls, call[c] = "creating", rows' = rows \cup {c},
         UNCHANGED <<jobOf, prints, forgotten, found>>,
         \A d \in Calls : (call'[d] = call[d] /\ d # c) \/ call'[d] \notin InStore
  PROVE  KeyInv'
<1>1. Progressing(c)
  BY DEF KeyInv
<1>2. KeyTable' /\ OnlyRow'
  BY <1>1 DEF KeyInv, KeyTable, OnlyRow, NoRow, Progressing
<1>3. ASSUME NEW d \in Calls
      PROVE  Progressing(d)'
  <2>1. CASE call'[d] \notin InStore
    BY <2>1 DEF Progressing, InStore
  <2>2. CASE call'[d] = call[d] /\ d # c /\ call[d] \in InStore
    <3>1. KeyOf[d] # KeyOf[c]
      BY <2>2 DEF LockInv, InStore
    <3> QED
      BY <2>2, <3>1 DEF Progressing, NoRow, KeyInv
  <2> QED
    BY <2>1, <2>2
<1> QED
  BY <1>2, <1>3 DEF KeyInv

-----------------------------------------------------------------------------
(* The answers.                                                             *)

(* A step of a call that neither makes a row nor answers.                   *)
LEMMA AnswerSame ==
  ASSUME AnswerInv, UNCHANGED <<rows, reply>>, NEW c \in Calls, call[c] \notin {"returned", "lost"},
         \A d \in Calls \ {c} : call'[d] = call[d]
  PROVE  AnswerInv'
<1>1. c \notin rows
  BY DEF AnswerInv, Answered
<1>2. ASSUME NEW d \in Calls
      PROVE  Answered(d)'
  BY <1>1, <1>2 DEF AnswerInv, Answered
<1> QED
  BY <1>2 DEF AnswerInv

(* The fingerprint compared with is that of the request that made the job.  *)
LEMMA AnswerCompared ==
  ASSUME Types, KeyInv, AnswerInv, NEW c \in Calls, Compared(c)
  PROVE  AnswerInv' /\ reply' \in [Calls -> Calls \cup {NoCall, "refused"}]
<1> DEFINE k0 == KeyOf[c]
           f == found[c]
<1>1. /\ call[c] = "comparing" /\ call' = [call EXCEPT ![c] = "returned"] /\ UNCHANGED rows
      /\ reply' = [reply EXCEPT ![c] = IF StoredPrint(c) = RequestOf[c] THEN f ELSE "refused"]
  BY DEF Compared, Go, storeVars
<1>2. f \in rows /\ f \in Calls /\ KeyOf[f] = k0 /\ jobOf[k0] \in {f, NoCall} /\ k0 \in Keys
  BY <1>1, ConstantsAssumption DEF KeyInv, Progressing
<1>3. StoredPrint(c) = RequestOf[f]
  BY <1>2 DEF StoredPrint, KeyInv, KeyTable
<1>4. \A d \in Calls \ {c} : call'[d] = call[d] /\ reply'[d] = reply[d]
  BY <1>1 DEF Types
<1>5. c \notin rows
  BY <1>1 DEF AnswerInv, Answered
<1>6. Answered(c)'
  <2>1. reply'[c] = IF RequestOf[f] = RequestOf[c] THEN f ELSE "refused"
    BY <1>1, <1>3 DEF Types
  <2>2. CASE RequestOf[f] = RequestOf[c]
    BY <1>1, <1>2, <1>5, <2>1, <2>2, ConstantsAssumption DEF Answered, Types
  <2>3. CASE RequestOf[f] # RequestOf[c]
    BY <1>1, <1>2, <1>5, <2>1, <2>3, ConstantsAssumption DEF Answered, Types
  <2> QED
    BY <2>2, <2>3
<1>7. ASSUME NEW d \in Calls \ {c}
      PROVE  Answered(d)'
  BY <1>1, <1>4, <1>7 DEF AnswerInv, Answered
<1> QED
  BY <1>1, <1>2, <1>6, <1>7 DEF AnswerInv, Types

LEMMA AnswerCreated ==
  ASSUME Types, AnswerInv, NEW c \in Calls, rows' = rows \cup {c},
         \/ call' = [call EXCEPT ![c] = "returned"] /\ reply' = [reply EXCEPT ![c] = c]
         \/ /\ UNCHANGED reply /\ call[c] = "creating"
            /\ call' = [d \in Calls |-> IF call[d] \in Inside THEN "lost" ELSE call[d]]
  PROVE  AnswerInv'
<1>1. ASSUME NEW d \in Calls \ {c}
      PROVE  Answered(d)'
  <2>1. /\ reply'[d] = reply[d]
        /\ call'[d] = call[d] \/ (call'[d] = "lost" /\ call[d] # "returned")
    BY <1>1 DEF Types, Inside, InStore
  <2> QED
    BY <1>1, <2>1 DEF AnswerInv, Answered
<1>2. CASE call' = [call EXCEPT ![c] = "returned"] /\ reply' = [reply EXCEPT ![c] = c]
  BY <1>1, <1>2, ConstantsAssumption DEF AnswerInv, Answered, Types
<1>3. CASE /\ UNCHANGED reply /\ call[c] = "creating"
           /\ call' = [d \in Calls |-> IF call[d] \in Inside THEN "lost" ELSE call[d]]
  <2>1. call'[c] = "lost"
    BY <1>3 DEF Inside, InStore
  <2> QED
    BY <1>1, <1>3, <2>1 DEF Answered, AnswerInv
<1> QED
  BY <1>1, <1>2, <1>3 DEF AnswerInv

-----------------------------------------------------------------------------
(* The whole.                                                               *)

LEMMA SubmitInit == Init => SubmitInv
<1> SUFFICES ASSUME Init
             PROVE  SubmitInv
  OBVIOUS
<1> USE DEF Init
<1>1. rows \subseteq Legacy /\ Legacy \subseteq Calls /\ NoCall \notin Calls
  BY ConstantsAssumption
<1>2. \A c \in rows : jobOf[KeyOf[c]] = c
  <2> SUFFICES ASSUME NEW c \in rows
               PROVE  jobOf[KeyOf[c]] = c
    OBVIOUS
  <2>1. KeyOf[c] \in Keys
    BY <1>1, ConstantsAssumption
  <2>2. \A d \in rows : KeyOf[d] = KeyOf[c] => d = c
    BY <1>1, ConstantsAssumption
  <2> QED
    BY <2>1, <2>2
<1>3. \A k \in Keys : jobOf[k] = NoCall \/ (jobOf[k] \in rows /\ KeyOf[jobOf[k]] = k)
  OBVIOUS
<1>4. \A c \in Calls : call[c] \notin Inside /\ call[c] \in CallState
  BY DEF Inside, InStore, CallState, Over
<1>5. Types
  <2>1. jobOf \in [Keys -> Calls \cup {NoCall}]
    BY <1>1, <1>3
  <2>2. faults \in 0 .. StoreFaults /\ crashes \in 0 .. MaxCrashes
    BY ConstantsAssumption
  <2> QED
    BY <1>1, <1>4, <2>1, <2>2 DEF Types
<1>6. TableInv
  <2>1. \A k \in Keys : Users(k) = {}
    BY <1>4 DEF Users
  <2> QED
    BY <2>1, FS_EmptySet DEF TableInv
<1>7. LockInv
  BY <1>4 DEF LockInv, Inside
<1>8. KeyInv
  <2>1. \A c \in Calls : call[c] \in {"idle", "returned"}
    OBVIOUS
  <2> QED
    BY <1>1, <1>2, <1>3, <2>1 DEF KeyInv, KeyTable, OnlyRow, Progressing
<1>9. AnswerInv
  BY <1>1, ConstantsAssumption DEF AnswerInv, Answered
<1> QED
  BY <1>5, <1>6, <1>7, <1>8, <1>9 DEF SubmitInv

(* A call leaves by a return or an exception.                               *)
LEMMA LeaveKeeps ==
  ASSUME SubmitInv, NEW c \in Calls, call[c] \in InStore, Leave(c),
         NEW s \in {"returned", "failed"}, call' = [call EXCEPT ![c] = s]
  PROVE  /\ TableInv' /\ LockInv' /\ call' \in [Calls -> CallState]
         /\ locks' \in [Keys -> Calls \cup {NoCall}] /\ waiters' \in [Keys -> Nat]
         /\ held' \subseteq Calls /\ UNCHANGED lockOf
         /\ \A d \in Calls \ {c} : call'[d] = call[d]
<1>1. DropLock(c) /\ held' = held \ {lockOf[c]} /\ UNCHANGED lockOf
  BY DEF Leave
<1>2. call[c] \in Inside /\ s \in Over /\ s \in CallState
  BY DEF Inside, Over, CallState
<1>3. Types /\ TableInv /\ LockInv
  BY DEF SubmitInv
<1>4. /\ TableInv' /\ locks' \in [Keys -> Calls \cup {NoCall}] /\ waiters' \in [Keys -> Nat]
  BY <1>1, <1>2, <1>3, TableDropped
<1>5. LockInv'
  BY <1>1, <1>2, <1>3, LockDropped
<1> QED
  BY <1>1, <1>2, <1>3, <1>4, <1>5 DEF Types

LEMMA SubmitStep ==
  ASSUME SubmitInv, [Next]_vars
  PROVE  SubmitInv'
<1>0. Types /\ TableInv /\ LockInv /\ KeyInv /\ AnswerInv
  BY DEF SubmitInv
<1>1. ASSUME NEW c \in Calls, Arrive(c)
      PROVE  SubmitInv'
  <2>1. /\ UNCHANGED <<storeVars, found, reply, faults, crashes>> /\ call[c] = "idle"
        /\ call' \in {[call EXCEPT ![c] = "recalling"], [call EXCEPT ![c] = "waiting"]}
    BY <1>1 DEF Arrive, Go
  <2>2. \A d \in Calls \ {c} : call'[d] = call[d]
    BY <1>0, <1>1, TableEntered
  <2>3. Progressing(c)'
    BY <1>0, <2>1 DEF Progressing, Types
  <2>4. TableInv' /\ locks' \in [Keys -> Calls \cup {NoCall}] /\ waiters' \in [Keys -> Nat]
    BY <1>0, <1>1, TableEntered
  <2>5. LockInv' /\ held' \subseteq Calls /\ lockOf' \in [Calls -> Calls \cup {NoCall}]
    BY <1>0, <1>1, LockArrived
  <2>6. KeyInv'
    BY <1>0, <2>1, <2>2, <2>3, KeySame
  <2>7. AnswerInv'
    BY <1>0, <2>1, <2>2, AnswerSame DEF storeVars
  <2>8. Types'
    BY <1>0, <2>1, <2>4, <2>5 DEF Types, storeVars, CallState, Inside, InStore
  <2> QED
    BY <2>4, <2>5, <2>6, <2>7, <2>8 DEF SubmitInv
<1>2. ASSUME NEW c \in Calls, Enter(c)
      PROVE  SubmitInv'
  <2>1. /\ UNCHANGED <<storeVars, found, reply, faults, crashes, locks, waiters, lockOf>>
        /\ call[c] = "waiting" /\ call' = [call EXCEPT ![c] = "recalling"]
        /\ held' = held \cup {lockOf[c]}
    BY <1>2 DEF Enter, Go
  <2>2. \A d \in Calls \ {c} : call'[d] = call[d]
    BY <1>0, <2>1 DEF Types
  <2>3. Progressing(c)'
    BY <1>0, <2>1 DEF Progressing, Types
  <2>4. TableInv'
    BY <1>0, <2>1, TableSame DEF Types, Inside, InStore
  <2>5. LockInv'
    BY <1>0, <1>2, LockEntered
  <2>6. KeyInv'
    BY <1>0, <2>1, <2>2, <2>3, KeySame
  <2>7. AnswerInv'
    BY <1>0, <2>1, <2>2, AnswerSame DEF storeVars
  <2>8. lockOf[c] \in Calls
    <3>1. lockOf[c] # NoCall
      BY <1>0, <2>1, OneLockOneKey DEF Inside
    <3> QED
      BY <1>0, <3>1 DEF Types
  <2>9. Types'
    BY <1>0, <2>1, <2>8 DEF Types, storeVars, CallState, Inside, InStore
  <2> QED
    BY <2>4, <2>5, <2>6, <2>7, <2>9 DEF SubmitInv
<1>3. ASSUME NEW c \in Calls, Abort(c)
      PROVE  SubmitInv'
  <2>1. /\ UNCHANGED <<storeVars, found, reply, faults, crashes, held, lockOf>>
        /\ call[c] = "waiting" /\ call' = [call EXCEPT ![c] = "aborted"] /\ DropLock(c)
    BY <1>3 DEF Abort, Go
  <2>2. \A d \in Calls \ {c} : call'[d] = call[d]
    BY <1>0, <2>1 DEF Types
  <2>3. Progressing(c)'
    BY <1>0, <2>1 DEF Progressing, Types
  <2>4. call[c] \in Inside /\ "aborted" \in Over /\ "aborted" \in CallState
    BY <2>1 DEF Inside, Over, CallState
  <2>5. TableInv' /\ locks' \in [Keys -> Calls \cup {NoCall}] /\ waiters' \in [Keys -> Nat]
    BY <1>0, <2>1, <2>4, TableDropped
  <2>6. LockInv'
    BY <1>0, <2>1, <2>4, LockDropped
  <2>7. KeyInv'
    BY <1>0, <2>1, <2>2, <2>3, KeySame
  <2>8. AnswerInv'
    BY <1>0, <2>1, <2>2, AnswerSame DEF storeVars
  <2>9. Types'
    BY <1>0, <2>1, <2>4, <2>5 DEF Types, storeVars
  <2> QED
    BY <2>5, <2>6, <2>7, <2>8, <2>9 DEF SubmitInv
<1>4. ASSUME NEW c \in Calls, Recalled(c) \/ Got(c) \/ Remembered(c) \/ Stamped(c)
      PROVE  SubmitInv'
  <2>1. /\ UNCHANGED <<rows, lockVars, reply, faults, crashes>> /\ call[c] \in InStore
        /\ \E s \in InStore : call' = [call EXCEPT ![c] = s]
    BY <1>4 DEF Recalled, Got, Remembered, Stamped, Go, InStore, storeVars
  <2>2. PICK s \in InStore : call' = [call EXCEPT ![c] = s]
    BY <2>1
  <2>3. TableInv'
    BY <1>0, <2>1, <2>2, TableSame DEF Types, Inside, lockVars
  <2>4. LockInv'
    BY <1>0, <2>1, <2>2, LockSame
  <2>5. KeyInv'
    BY <1>0, <1>4, KeyRecalled, KeyGot, KeyRemembered, KeyStamped
  <2>6. AnswerInv'
    BY <1>0, <2>1, <2>2, AnswerSame DEF Types, InStore
  <2>7. /\ jobOf' \in [Keys -> Calls \cup {NoCall}]
        /\ prints' \in [Keys -> {RequestOf[d] : d \in Calls} \cup {NoPrint}]
        /\ found' \in [Calls -> Calls \cup {NoCall}]
    <3>1. KeyOf[c] \in Keys
      BY ConstantsAssumption
    <3>2. CASE Recalled(c)
      BY <1>0, <3>1, <3>2 DEF Recalled, Types, storeVars
    <3>3. CASE Got(c)
      BY <1>0, <3>3 DEF Got, Types, storeVars
    <3>4. CASE Remembered(c)
      BY <1>0, <3>1, <3>4 DEF Remembered, Types
    <3>5. CASE Stamped(c)
      BY <1>0, <3>1, <3>5 DEF Stamped, Types
    <3> QED
      BY <1>4, <3>2, <3>3, <3>4, <3>5
  <2>8. Types'
    BY <1>0, <2>1, <2>2, <2>7 DEF Types, lockVars, CallState, Inside
  <2> QED
    BY <2>3, <2>4, <2>5, <2>6, <2>8 DEF SubmitInv
<1>5. ASSUME NEW c \in Calls, Compared(c)
      PROVE  SubmitInv'
  <2>1. /\ UNCHANGED <<storeVars, found, faults, crashes>> /\ call[c] = "comparing" /\ Leave(c)
        /\ call' = [call EXCEPT ![c] = "returned"]
    BY <1>5 DEF Compared, Go
  <2>2. /\ TableInv' /\ LockInv' /\ call' \in [Calls -> CallState]
        /\ locks' \in [Keys -> Calls \cup {NoCall}] /\ waiters' \in [Keys -> Nat]
        /\ held' \subseteq Calls /\ UNCHANGED lockOf
        /\ \A d \in Calls \ {c} : call'[d] = call[d]
    BY <2>1, LeaveKeeps DEF InStore
  <2>3. AnswerInv' /\ reply' \in [Calls -> Calls \cup {NoCall, "refused"}]
    BY <1>0, <1>5, AnswerCompared
  <2>4. Progressing(c)'
    BY <1>0, <2>1 DEF Progressing, Types
  <2>5. KeyInv'
    BY <1>0, <2>1, <2>2, <2>4, KeySame
  <2>6. Types'
    BY <1>0, <2>1, <2>2, <2>3 DEF Types, storeVars
  <2> QED
    BY <2>2, <2>3, <2>5, <2>6 DEF SubmitInv
<1>6. ASSUME NEW c \in Calls, Created(c)
      PROVE  SubmitInv'
  <2>1. /\ UNCHANGED <<jobOf, prints, forgotten, found, faults, crashes>>
        /\ call[c] = "creating" /\ Leave(c) /\ rows' = rows \cup {c}
        /\ call' = [call EXCEPT ![c] = "returned"] /\ reply' = [reply EXCEPT ![c] = c]
    BY <1>6 DEF Created, Go
  <2>2. /\ TableInv' /\ LockInv' /\ call' \in [Calls -> CallState]
        /\ locks' \in [Keys -> Calls \cup {NoCall}] /\ waiters' \in [Keys -> Nat]
        /\ held' \subseteq Calls /\ UNCHANGED lockOf
        /\ \A d \in Calls \ {c} : call'[d] = call[d]
    BY <2>1, LeaveKeeps DEF InStore
  <2>3. call'[c] \notin InStore
    BY <1>0, <2>1 DEF Types, InStore
  <2>4. KeyInv'
    BY <1>0, <2>1, <2>2, <2>3, KeyCreated
  <2>5. AnswerInv'
    BY <1>0, <2>1, AnswerCreated
  <2>6. Types'
    BY <1>0, <2>1, <2>2 DEF Types
  <2> QED
    BY <2>2, <2>4, <2>5, <2>6 DEF SubmitInv
<1>7. ASSUME NEW c \in Calls, Raises(c)
      PROVE  SubmitInv'
  <2>1. /\ UNCHANGED <<storeVars, found, reply, crashes>> /\ call[c] \in InStore /\ Leave(c)
        /\ call' = [call EXCEPT ![c] = "failed"] /\ faults < StoreFaults /\ faults' = faults + 1
    BY <1>7 DEF Raises, Go
  <2>2. /\ TableInv' /\ LockInv' /\ call' \in [Calls -> CallState]
        /\ locks' \in [Keys -> Calls \cup {NoCall}] /\ waiters' \in [Keys -> Nat]
        /\ held' \subseteq Calls /\ UNCHANGED lockOf
        /\ \A d \in Calls \ {c} : call'[d] = call[d]
    BY <2>1, LeaveKeeps
  <2>3. Progressing(c)'
    BY <1>0, <2>1 DEF Progressing, Types
  <2>4. KeyInv'
    BY <1>0, <2>1, <2>2, <2>3, KeySame
  <2>5. AnswerInv'
    BY <1>0, <2>1, <2>2, AnswerSame DEF storeVars, InStore
  <2>6. faults' \in 0 .. StoreFaults
    BY <1>0, <2>1, ConstantsAssumption DEF Types
  <2>7. Types'
    BY <1>0, <2>1, <2>2, <2>6 DEF Types, storeVars
  <2> QED
    BY <2>2, <2>4, <2>5, <2>7 DEF SubmitInv
<1>8. CASE Crash
  <2>1. /\ call' = [c \in Calls |-> IF call[c] \in Inside THEN "lost" ELSE call[c]]
        /\ locks' = [k \in Keys |-> NoCall] /\ waiters' = [k \in Keys |-> 0] /\ held' = {}
        /\ lockOf' = [c \in Calls |-> NoCall]
        /\ crashes < MaxCrashes /\ crashes' = crashes + 1
        /\ UNCHANGED <<jobOf, prints, forgotten, found, reply, faults>>
    BY <1>8 DEF Crash
  <2>2. \A c \in Calls : call'[c] \notin Inside /\ call'[c] \notin InStore
    BY <2>1 DEF Inside, InStore
  <2>3. TableInv'
    <3>1. \A k \in Keys : Users(k)' = {}
      BY <2>2 DEF Users
    <3> QED
      BY <2>1, <3>1, FS_EmptySet DEF TableInv
  <2>4. LockInv'
    BY <2>1, <2>2 DEF LockInv
  <2>5. crashes' \in 0 .. MaxCrashes
    BY <1>0, <2>1, ConstantsAssumption DEF Types
  <2>6. call' \in [Calls -> CallState]
    BY <1>0, <2>1 DEF Types, CallState, Over
  <2>7. CASE rows' = rows
    <3>1. KeyInv'
      BY <1>0, <2>1, <2>2, <2>7 DEF KeyInv, KeyTable, OnlyRow, Progressing, InStore
    <3>2. AnswerInv'
      BY <1>0, <2>1, <2>7 DEF AnswerInv, Answered, Inside, InStore
    <3>3. Types'
      BY <1>0, <2>1, <2>5, <2>6, <2>7 DEF Types
    <3> QED
      BY <2>3, <2>4, <3>1, <3>2, <3>3 DEF SubmitInv
  <2>8. ASSUME NEW c \in Calls, call[c] = "creating", rows' = rows \cup {c}
        PROVE  SubmitInv'
    <3>1. KeyInv'
      BY <1>0, <2>1, <2>2, <2>8, KeyCreated
    <3>2. AnswerInv'
      BY <1>0, <2>1, <2>8, AnswerCreated
    <3>3. Types'
      BY <1>0, <2>1, <2>5, <2>6, <2>8 DEF Types
    <3> QED
      BY <2>3, <2>4, <3>1, <3>2, <3>3 DEF SubmitInv
  <2> QED
    BY <1>8, <2>7, <2>8 DEF Crash
<1>9. CASE UNCHANGED vars
  <2>1. UNCHANGED <<rows, jobOf, prints, forgotten, locks, waiters, held, lockOf, found, call, reply,
                    faults, crashes>>
    BY <1>9 DEF vars, storeVars, lockVars
  <2>2. TableInv' /\ LockInv' /\ KeyInv' /\ AnswerInv'
    BY <1>0, <2>1, TableSame
    DEF LockInv, KeyInv, KeyTable, OnlyRow, Progressing, NoRow, AnswerInv, Answered
  <2> QED
    BY <1>0, <2>1, <2>2 DEF SubmitInv, Types
<1> QED
  BY <1>1, <1>2, <1>3, <1>4, <1>5, <1>6, <1>7, <1>8, <1>9 DEF Next, CallStep

(* The locks exclude each other per key, and the key table says what the call*)
(* inside the lock has done so far: the invariant behind the properties below.*)
THEOREM SubmitInvKept == Spec => []SubmitInv
BY SubmitInit, SubmitStep, PTL DEF Spec

-----------------------------------------------------------------------------
(* The two sequences: the keys by age stay within the cap, and whoever      *)
(* waits for a lock stands in its line, so that the line is never empty     *)
(* when a release looks for its first waiter.                               *)
Stands(x, s) == \E i \in DOMAIN s : s[i] = x

Waiting(c) == call[c] = "waiting" => Stands(c, line[lockOf[c]])

LineInv ==
  /\ byAge \in Seq(Keys) /\ Len(byAge) <= MaxKeys /\ forgotten \subseteq Keys
  /\ line \in [Calls -> Seq(Calls)]
  /\ \A c \in Calls : Waiting(c)

LEMMA Smallest ==
  ASSUME NEW S \in SUBSET Nat, S # {}
  PROVE  \E n \in S : \A m \in S : n <= m
<1>1. PICK n \in S : \A m \in S : ~(<<m, n>> \in OpToRel(<, Nat))
  BY NatLessThanWellFounded, WFMin, Zenon
<1>2. \A m \in S : ~(m < n)
  BY <1>1 DEF OpToRel
<1> QED
  BY <1>2

(* Removing an element takes one place away, and nobody else's.             *)
LEMMA FirstRemoved ==
  ASSUME NEW S, NEW s \in Seq(S), NEW e
  PROVE  /\ RemoveFirst(s, e) \in Seq(S) /\ Len(RemoveFirst(s, e)) <= Len(s)
         /\ \A x : x # e /\ Stands(x, s) => Stands(x, RemoveFirst(s, e))
<1>1. CASE ~\E i \in 1 .. Len(s) : s[i] = e
  BY <1>1 DEF RemoveFirst
<1>2. CASE \E i \in 1 .. Len(s) : s[i] = e
  <2> DEFINE I == {i \in 1 .. Len(s) : s[i] = e}
             n == SelectInSeq(s, LAMBDA v : v = e)
  <2>1. I # {} /\ I \in SUBSET Nat
    BY <1>2
  <2>2. n \in I
    <3>1. \E i \in I : \A k \in I : i <= k
      BY <2>1, Smallest
    <3>2. n = Min(I)
      BY <2>1 DEF SelectInSeq
    <3> QED
      BY <3>1, <3>2 DEF Min
  <2>3. n \in 1 .. Len(s) /\ s[n] = e
    BY <2>2
  <2>4. RemoveFirst(s, e) = SubSeq(s, 1, n - 1) \o SubSeq(s, n + 1, Len(s))
    BY <1>2 DEF RemoveFirst, RemoveAt
  <2> DEFINE r == RemoveFirst(s, e)
  <2> HIDE DEF n, I
  <2>5. /\ r \in Seq(S) /\ Len(r) = Len(s) - 1
        /\ \A i \in 1 .. n - 1 : r[i] = s[i]
        /\ \A i \in n .. Len(s) - 1 : r[i] = s[i + 1]
    <3> DEFINE u == SubSeq(s, 1, n - 1)
               v == SubSeq(s, n + 1, Len(s))
    <3>1. n \in Nat \ {0} /\ Len(s) \in Nat /\ n <= Len(s)
      BY <2>3
    <3>2. u \in Seq(S) /\ Len(u) = n - 1 /\ \A i \in 1 .. n - 1 : u[i] = s[i]
      BY <3>1
    <3>3. v \in Seq(S) /\ Len(v) = Len(s) - n /\ \A i \in 1 .. Len(s) - n : v[i] = s[n + i]
      BY <3>1
    <3> HIDE DEF u, v
    <3>4. r = u \o v
      BY <2>4 DEF u, v
    <3>5. r \in Seq(S) /\ Len(r) = Len(s) - 1
      BY <3>1, <3>2, <3>3, <3>4
    <3>6. \A i \in 1 .. n - 1 : r[i] = s[i]
      BY <3>1, <3>2, <3>3, <3>4
    <3>7. ASSUME NEW i \in n .. Len(s) - 1 PROVE r[i] = s[i + 1]
      <4>1. i - (n - 1) \in 1 .. Len(s) - n /\ n + (i - (n - 1)) = i + 1
        BY <3>1
      <4>2. r[i] = v[i - (n - 1)]
        BY <3>1, <3>2, <3>3, <3>4, <4>1
      <4> QED
        BY <3>3, <4>1, <4>2
    <3> QED
      BY <3>5, <3>6, <3>7
  <2> HIDE DEF r
  <2>6. ASSUME NEW x, x # e, Stands(x, s)
        PROVE  Stands(x, r)
    <3>1. PICK i \in 1 .. Len(s) : s[i] = x
      BY <2>6 DEF Stands
    <3>2. CASE i < n
      <4>1. i \in DOMAIN r /\ r[i] = x
        BY <2>3, <2>5, <3>1, <3>2
      <4> QED
        BY <4>1 DEF Stands
    <3>3. CASE i > n
      <4>1. i - 1 \in DOMAIN r /\ r[i - 1] = x
        BY <2>3, <2>5, <3>1, <3>3
      <4> QED
        BY <4>1 DEF Stands
    <3> QED
      BY <2>3, <2>6, <3>1, <3>2, <3>3
  <2> QED
    BY <2>5, <2>6 DEF r
<1> QED
  BY <1>1, <1>2

LEMMA LineInit == Init => LineInv
<1> SUFFICES ASSUME Init PROVE LineInv
  OBVIOUS
<1>1. rows \subseteq Calls /\ Cardinality(rows) <= MaxKeys
  BY ConstantsAssumption DEF Init
<1>2. Cardinality(rows) \in Nat
  BY <1>1, FS_Subset, FS_CardinalityType, ConstantsAssumption
<1>3. byAge \in [1 .. Cardinality(rows) -> Keys]
  BY <1>1, ConstantsAssumption DEF Init
<1>4. byAge \in Seq(Keys) /\ Len(byAge) = Cardinality(rows)
  BY <1>2, <1>3
<1>5. forgotten = {} /\ line \in [Calls -> Seq(Calls)] /\ \A c \in Calls : call[c] # "waiting"
  BY DEF Init
<1> QED
  BY <1>1, <1>4, <1>5 DEF LineInv, Waiting

(* A call in a line stays there while its own state, its lock and the line  *)
(* do.                                                                      *)
LEMMA LineSame ==
  ASSUME LineInv, UNCHANGED <<byAge, forgotten, line>>,
         \A d \in Calls : call'[d] = "waiting" => call[d] = "waiting" /\ lockOf'[d] = lockOf[d]
  PROVE  LineInv'
BY DEF LineInv, Waiting, Stands

LEMMA LineStep ==
  ASSUME SubmitInv, LineInv, [Next]_vars
  PROVE  LineInv'
<1>0. Types /\ TableInv /\ LockInv
  BY DEF SubmitInv
<1>1. ASSUME NEW c \in Calls, Arrive(c)
      PROVE  LineInv'
  <2> DEFINE l == IF locks[KeyOf[c]] = NoCall THEN c ELSE locks[KeyOf[c]]
  <2>1. l \in Calls
    BY <1>0, ConstantsAssumption DEF Types
  <2> HIDE DEF l
  <2>2. /\ call[c] = "idle" /\ lockOf' = [lockOf EXCEPT ![c] = l]
        /\ UNCHANGED <<byAge, forgotten>>
        /\ \/ call' = [call EXCEPT ![c] = "recalling"] /\ UNCHANGED line
           \/ /\ call' = [call EXCEPT ![c] = "waiting"]
              /\ line' = [line EXCEPT ![l] = Append(@, c)]
    BY <1>1 DEF Arrive, Go, storeVars, l
  <2>3. CASE call' = [call EXCEPT ![c] = "recalling"] /\ UNCHANGED line
    BY <1>0, <2>2, <2>3, LineSame DEF Types
  <2>4. CASE /\ call' = [call EXCEPT ![c] = "waiting"]
             /\ line' = [line EXCEPT ![l] = Append(@, c)]
    <3>1. line' \in [Calls -> Seq(Calls)]
      BY <2>1, <2>4 DEF LineInv
    <3>2. ASSUME NEW x, NEW m \in Calls, Stands(x, line[m])
          PROVE  Stands(x, line'[m])
      <4>1. line[m] \in Seq(Calls) /\ line'[m] \in {line[m], Append(line[m], c)}
        BY <2>1, <2>4 DEF LineInv
      <4>2. PICK i \in 1 .. Len(line[m]) : line[m][i] = x
        BY <3>2, <4>1 DEF Stands
      <4>3. i \in DOMAIN line'[m] /\ line'[m][i] = x
        BY <4>1, <4>2
      <4> QED
        BY <4>3 DEF Stands
    <3>3. Stands(c, line'[l])
      <4>1. line'[l] = Append(line[l], c) /\ line[l] \in Seq(Calls)
        BY <2>1, <2>4 DEF LineInv
      <4>2. Len(line[l]) + 1 \in DOMAIN line'[l] /\ line'[l][Len(line[l]) + 1] = c
        BY <4>1
      <4> QED
        BY <4>2 DEF Stands
    <3>4. ASSUME NEW d \in Calls PROVE Waiting(d)'
      <4>1. CASE d = c
        BY <1>0, <2>2, <3>3, <4>1 DEF Waiting, Types
      <4>2. CASE d # c /\ call[d] = "waiting"
        <5>1. call[d] \in Inside /\ d \in Users(KeyOf[d]) /\ KeyOf[d] \in Keys
          BY <4>2, ConstantsAssumption DEF Inside, Users
        <5>2. lockOf[d] \in Calls /\ lockOf'[d] = lockOf[d]
          BY <1>0, <2>2, <4>2, <5>1, OneLockOneKey DEF Types
        <5> QED
          BY <3>2, <4>2, <5>2 DEF LineInv, Waiting
      <4>3. CASE d # c /\ call[d] # "waiting"
        BY <1>0, <2>4, <4>3 DEF Waiting, Types
      <4> QED
        BY <4>1, <4>2, <4>3
    <3> QED
      BY <2>2, <3>1, <3>4 DEF LineInv
  <2> QED
    BY <2>2, <2>3, <2>4
<1>2. ASSUME NEW c \in Calls, Enter(c) \/ Abort(c)
      PROVE  LineInv'
  <2> DEFINE l == lockOf[c]
             s == line[l]
             t == line'[l]
  <2>1. /\ call[c] = "waiting" /\ UNCHANGED <<byAge, forgotten, lockOf>>
        /\ \E next \in {"recalling", "aborted"} : call' = [call EXCEPT ![c] = next]
    BY <1>2 DEF Enter, Abort, Go, storeVars
  <2>2. l \in Calls
    <3>1. call[c] \in Inside
      BY <2>1 DEF Inside
    <3> QED
      BY <1>0, <3>1, OneLockOneKey DEF Types
  <2>3. s \in Seq(Calls) /\ Stands(c, s)
    BY <2>1, <2>2 DEF LineInv, Waiting
  <2>4. /\ line' = [line EXCEPT ![l] = t] /\ t \in Seq(Calls)
        /\ \A x : x # c /\ Stands(x, s) => Stands(x, t)
    <3> DEFINE u == Tail(s)
               r == RemoveFirst(s, c)
    <3>1. CASE Enter(c)
      <4>1. line' = [line EXCEPT ![l] = u] /\ s[1] = c
        BY <3>1 DEF Enter
      <4>2. t = u
        BY <2>2, <4>1 DEF LineInv
      <4> HIDE DEF l, s, t
      <4>3. u \in Seq(Calls) /\ Len(u) = Len(s) - 1 /\ \A i \in 1 .. Len(s) - 1 : u[i] = s[i + 1]
        BY <2>3 DEF Stands
      <4> HIDE DEF u
      <4>4. ASSUME NEW x, x # c, Stands(x, s)
            PROVE  Stands(x, u)
        <5>1. PICK i \in 1 .. Len(s) : s[i] = x
          BY <2>3, <4>4 DEF Stands
        <5>2. i # 1
          BY <4>1, <4>4, <5>1
        <5>3. i - 1 \in DOMAIN u /\ u[i - 1] = x
          BY <2>3, <4>3, <5>1, <5>2
        <5> QED
          BY <5>3 DEF Stands
      <4> QED
        BY <4>1, <4>2, <4>3, <4>4
    <3>2. CASE Abort(c)
      <4>1. line' = [line EXCEPT ![l] = r]
        BY <3>2 DEF Abort
      <4>2. t = r
        BY <2>2, <4>1 DEF LineInv
      <4> HIDE DEF l, s, t
      <4>3. r \in Seq(Calls) /\ \A x : x # c /\ Stands(x, s) => Stands(x, r)
        BY <2>3, FirstRemoved
      <4> QED
        BY <4>1, <4>2, <4>3
    <3> QED
      BY <1>2, <3>1, <3>2
  <2> HIDE DEF l, t
  <2>5. line' \in [Calls -> Seq(Calls)]
    BY <2>4 DEF LineInv
  <2>6. ASSUME NEW d \in Calls PROVE Waiting(d)'
    <3>1. CASE d = c \/ call[d] # "waiting"
      BY <1>0, <2>1, <3>1 DEF Waiting, Types
    <3>2. CASE d # c /\ call[d] = "waiting"
      <4>1. call[d] \in Inside
        BY <3>2 DEF Inside
      <4>2. lockOf[d] \in Calls /\ lockOf'[d] = lockOf[d]
        BY <1>0, <2>1, <4>1, OneLockOneKey DEF Types
      <4>3. Stands(d, line[lockOf[d]])
        BY <3>2 DEF LineInv, Waiting
      <4>4. Stands(d, line'[lockOf[d]])
        BY <2>2, <2>4, <3>2, <4>2, <4>3 DEF LineInv
      <4> QED
        BY <4>2, <4>4 DEF Waiting
    <3> QED
      BY <3>1, <3>2
  <2> QED
    BY <2>1, <2>5, <2>6 DEF LineInv
<1>3. ASSUME NEW c \in Calls, Remembered(c)
      PROVE  LineInv'
  <2> DEFINE k == KeyOf[c]
             a == Aged(k)
  <2>1. /\ UNCHANGED <<line, lockOf>> /\ call' = [call EXCEPT ![c] = "stamping"]
        /\ byAge' = IF Evicted(k) = {} THEN a ELSE Tail(a)
        /\ forgotten' = forgotten \cup Evicted(k)
    BY <1>3 DEF Remembered, Go, lockVars
  <2>2. a \in Seq(Keys) /\ Len(a) \in 1 .. MaxKeys + 1
    <3> DEFINE r == RemoveFirst(byAge, k)
    <3>1. r \in Seq(Keys) /\ Len(r) <= Len(byAge) /\ k \in Keys
      BY FirstRemoved, ConstantsAssumption DEF LineInv
    <3>2. a = Append(r, k)
      BY DEF Aged
    <3>3. Len(byAge) \in Nat /\ Len(byAge) <= MaxKeys /\ MaxKeys \in Nat
      BY ConstantsAssumption DEF LineInv
    <3> HIDE DEF r, a, k
    <3> QED
      BY <3>1, <3>2, <3>3
  <2>3. Evicted(k) = {} <=> ~(Len(a) > MaxKeys)
    BY DEF Evicted
  <2> HIDE DEF a
  <2>4. byAge' \in Seq(Keys) /\ Len(byAge') <= MaxKeys
    BY <2>1, <2>2, <2>3, ConstantsAssumption
  <2>5. forgotten' \subseteq Keys
    <3>1. Evicted(k) \subseteq {a[1]}
      BY DEF Evicted, a
    <3>2. a[1] \in Keys
      BY <2>2
    <3> QED
      BY <2>1, <3>1, <3>2 DEF LineInv
  <2>6. \A d \in Calls : Waiting(d)'
    BY <1>0, <2>1 DEF LineInv, Waiting, Types
  <2> QED
    BY <2>1, <2>4, <2>5, <2>6 DEF LineInv
<1>4. ASSUME NEW c \in Calls,
             Recalled(c) \/ Got(c) \/ Compared(c) \/ Stamped(c) \/ Created(c) \/ Raises(c)
      PROVE  LineInv'
  <2>1. UNCHANGED <<byAge, forgotten, line, lockOf>> /\ \E s : s # "waiting" /\ call' = [call EXCEPT ![c] = s]
    BY <1>4 DEF Recalled, Got, Compared, Stamped, Created, Raises, Leave, Go, storeVars, lockVars
  <2> QED
    BY <1>0, <2>1, LineSame DEF Types
<1>5. CASE Crash
  <2>1. UNCHANGED <<byAge, forgotten>> /\ line' = [c \in Calls |-> << >>]
        /\ call' = [c \in Calls |-> IF call[c] \in Inside THEN "lost" ELSE call[c]]
    BY <1>5 DEF Crash
  <2>2. \A c \in Calls : call'[c] # "waiting"
    BY <2>1 DEF Inside
  <2> QED
    BY <2>1, <2>2 DEF LineInv, Waiting
<1>6. CASE UNCHANGED vars
  BY <1>6, LineSame DEF vars, storeVars, lockVars
<1> QED
  BY <1>1, <1>2, <1>3, <1>4, <1>5, <1>6 DEF Next, CallStep

(* Every variable has its type, and the key table never outgrows its cap.   *)
THEOREM SubmitTyped == Spec => []TypeOK
<1>1. SubmitInv /\ LineInv => TypeOK
  BY DEF SubmitInv, Types, LineInv, TypeOK
<1>2. SubmitInv /\ LineInv /\ [Next]_vars => LineInv'
  BY LineStep
<1> QED
  BY <1>1, <1>2, LineInit, SubmitInvKept, PTL DEF Spec

-----------------------------------------------------------------------------
(* What callers rely on.                                                    *)

(* One key, one job and one provider run, however many retries race and     *)
(* wherever the process dies, until the key is evicted at the cap.          *)
THEOREM OneKeyOneJob == Spec => []OneJobPerKey
<1>1. SubmitInv => OneJobPerKey
  BY DEF SubmitInv, KeyInv, OnlyRow, OneJobPerKey
<1> QED
  BY <1>1, SubmitInvKept, PTL

(* A caller is told of a job made from its own request, on record, and      *)
(* refused only for another request's.                                      *)
THEOREM AnswersTrue == Spec => []AnswersMatch
<1>1. SubmitInv => AnswersMatch
  BY DEF SubmitInv, AnswerInv, Answered, AnswersMatch
<1> QED
  BY <1>1, SubmitInvKept, PTL

(* The lock table is no larger than the work under way.                     *)
THEOREM LocksExact == Spec => []LocksCollected
<1>1. ASSUME SubmitInv
      PROVE  LocksCollected
  <2> SUFFICES ASSUME NEW k \in Keys
               PROVE  /\ waiters[k] = Cardinality(Users(k))
                      /\ (locks[k] # NoCall) = (waiters[k] > 0)
    BY DEF LocksCollected, Users
  <2>1. waiters[k] = Cardinality(Users(k)) /\ (locks[k] # NoCall <=> Users(k) # {})
    BY <1>1 DEF SubmitInv, TableInv
  <2>2. waiters[k] \in Nat /\ (waiters[k] = 0 <=> Users(k) = {})
    BY <1>1, <2>1, UsersFinite, FS_EmptySet DEF SubmitInv, Types
  <2> QED
    BY <2>1, <2>2
<1> QED
  BY <1>1, SubmitInvKept, PTL

-----------------------------------------------------------------------------
(* The handler's side.  First what its proofs need of the manager's steps.  *)

(* A step of one call moves that call only, which has arrived, on within    *)
(* submit() or out of it.                                                   *)
Moves(c) == /\ call[c] # "idle"
            /\ \E s \in CallState \ {"idle"} : call' = [call EXCEPT ![c] = s]

LEMMA CallStepMoves ==
  ASSUME NEW c \in Calls, CallStep(c) \/ Raises(c)
  PROVE  Moves(c)
<1>1. CASE Enter(c)      BY <1>1 DEF Enter, Go, Moves, CallState, Inside, InStore
<1>2. CASE Recalled(c)   BY <1>2 DEF Recalled, Go, Moves, CallState, Inside, InStore
<1>3. CASE Got(c)        BY <1>3 DEF Got, Go, Moves, CallState, Inside, InStore
<1>4. CASE Compared(c)   BY <1>4 DEF Compared, Go, Moves, CallState, Over
<1>5. CASE Remembered(c) BY <1>5 DEF Remembered, Go, Moves, CallState, Inside, InStore
<1>6. CASE Stamped(c)    BY <1>6 DEF Stamped, Go, Moves, CallState, Inside, InStore
<1>7. CASE Created(c)    BY <1>7 DEF Created, Go, Moves, CallState, Over
<1>8. CASE Raises(c)     BY <1>8 DEF Raises, Go, Moves, CallState, Over, InStore
<1> QED
  BY <1>1, <1>2, <1>3, <1>4, <1>5, <1>6, <1>7, <1>8 DEF CallStep

LEMMA ArriveMoves ==
  ASSUME NEW c \in Calls, Arrive(c)
  PROVE  \E s \in CallState \ {"idle"} : call' = [call EXCEPT ![c] = s]
BY DEF Arrive, Go, CallState, Inside, InStore

LEMMA AbortMoves ==
  ASSUME NEW c \in Calls, Abort(c)
  PROVE  Moves(c)
BY DEF Abort, Go, Moves, CallState, Over

(* A call that has not arrived does not notice a crash.                     *)
LEMMA CrashSparesIdle ==
  ASSUME Crash, call \in [Calls -> CallState]
  PROVE  /\ call' \in [Calls -> CallState]
         /\ \A c \in Calls : call[c] = "idle" => call'[c] = "idle"
BY DEF Crash, CallState, Inside, InStore, Over

-----------------------------------------------------------------------------
(* What the handler keeps: until submit() is called the call is idle, a     *)
(* flaw that matters is there only as long, and what has been checked is    *)
(* not wrong any more.                                                      *)
Before == {"outside", "reading", "resolving"}
Allowed == IF AllowPrivate THEN {"private"} ELSE {}
InHead == {"key", "name", "longkey"}
InBody == {"oversized", "json", "url"}

DoorKept(c) ==
  /\ door[c] \in Before => call[c] = "idle"
  /\ flaws[c] \subseteq Allowed \/ door[c] \in {"reading", "resolving"}
  /\ door[c] \in {"reading", "resolving"} => InHead \cap flaws[c] = {}
  /\ door[c] = "resolving" => InBody \cap flaws[c] = {}

DoorInv ==
  /\ call \in [Calls -> CallState]
  /\ door \in [Remote -> Door]
  /\ flaws \in [Remote -> SUBSET Flaw]
  /\ taken \in [Remote -> 0 .. MaxBody]
  /\ \A c \in Remote : DoorKept(c)

LEMMA AnswerKeeps ==
  ASSUME DoorInv, NEW c \in Remote, NEW code, Answer(c, code),
         call' \in [Calls -> CallState], \A d \in Remote \ {c} : call'[d] = call[d]
  PROVE  DoorInv'
BY HttpAssumption DEF DoorInv, DoorKept, Answer, Door, Before

LEMMA HandKeeps ==
  ASSUME DoorInv, NEW c \in Remote, Hand(c), door[c] \in Before,
         InHead \cap flaws[c] = {}, InBody \cap flaws[c] = {},
         "private" \in flaws[c] => AllowPrivate
  PROVE  DoorInv'
<1>1. CASE "capability" \in flaws[c]
  BY <1>1, AnswerKeeps DEF Hand, vars, DoorInv
<1>2. CASE "capability" \notin flaws[c]
  <2>1. Arrive(c) /\ Proceed(c, "inside") /\ flaws' = flaws
    BY <1>2 DEF Hand
  <2>2. PICK s \in CallState \ {"idle"} : call' = [call EXCEPT ![c] = s]
    BY <2>1, ArriveMoves, HttpAssumption
  <2>3. flaws[c] \subseteq Allowed
    BY <1>2 DEF DoorInv, Flaw, Allowed, InHead, InBody
  <2> QED
    BY <2>1, <2>2, <2>3, HttpAssumption DEF DoorInv, DoorKept, Proceed, Door, Before
<1> QED
  BY <1>1, <1>2

LEMMA HandlerKeeps ==
  ASSUME DoorInv, NEW c \in Remote, Handler(c)
  PROVE  DoorInv'
<1>1. CASE Receive(c)
  <2>1. PICK f \in Requests :
          \/ \E code : Answer(c, code)
          \/ /\ HeadRefusal(f) = 0
             /\ Proceed(c, "reading")
             /\ flaws' = [flaws EXCEPT ![c] = f]
    BY <1>1 DEF Receive
  <2>2. CASE \E code : Answer(c, code)
    BY <1>1, <2>2, AnswerKeeps DEF Receive, vars, DoorInv
  <2>3. CASE HeadRefusal(f) = 0 /\ Proceed(c, "reading") /\ flaws' = [flaws EXCEPT ![c] = f]
    <3>1. f \subseteq Flaw /\ InHead \cap f = {}
      BY <2>3, HttpAssumption DEF HeadRefusal, InHead
    <3> QED
      BY <1>1, <2>3, <3>1, HttpAssumption
      DEF Receive, vars, DoorInv, DoorKept, Proceed, Door, Before
  <2> QED
    BY <2>1, <2>2, <2>3
<1>2. CASE Chunk(c)
  <2>1. CASE Exceeds(taken[c] + 1)
    BY <1>2, <2>1, AnswerKeeps DEF Chunk, vars, DoorInv
  <2>2. CASE ~Exceeds(taken[c] + 1)
    BY <1>2, <2>2, HttpAssumption DEF Chunk, Exceeds, vars, DoorInv, DoorKept
  <2> QED
    BY <2>1, <2>2
<1>3. CASE Disconnect(c)
  BY <1>3, HttpAssumption DEF Disconnect, Proceed, vars, DoorInv, DoorKept, Door, Before
<1>4. CASE BodyEnds(c)
  <2>1. "oversized" \notin flaws[c] /\ InHead \cap flaws[c] = {}
    BY <1>4, HttpAssumption DEF BodyEnds, DoorInv, DoorKept
  <2>2. CASE (\E code : Answer(c, code)) /\ UNCHANGED vars
    BY <2>2, AnswerKeeps DEF vars, DoorInv
  <2>3. CASE {"json", "url"} \cap flaws[c] = {} /\ Proceed(c, "resolving") /\ UNCHANGED <<vars, flaws>>
    BY <1>4, <2>1, <2>3, HttpAssumption
    DEF BodyEnds, Proceed, vars, DoorInv, DoorKept, Door, Before, InBody
  <2>4. CASE /\ {"json", "url"} \cap flaws[c] = {}
             /\ AllowPrivate \/ "private" \notin flaws[c]
             /\ Hand(c)
    BY <1>4, <2>1, <2>4, HandKeeps DEF BodyEnds, Before, InBody
  <2> QED
    BY <1>4, <2>2, <2>3, <2>4 DEF BodyEnds
<1>5. CASE Resolved(c)
  <2>1. PICK answered \in BOOLEAN :
          IF Refuses(c, answered) THEN Answer(c, 422) /\ UNCHANGED vars ELSE Hand(c)
    BY <1>5 DEF Resolved
  <2>2. CASE Refuses(c, answered)
    BY <2>1, <2>2, AnswerKeeps DEF vars, DoorInv
  <2>3. CASE ~Refuses(c, answered)
    BY <1>5, <2>1, <2>3, HandKeeps DEF Resolved, Refuses, DoorInv, DoorKept, Before
  <2> QED
    BY <2>2, <2>3
<1> QED
  BY <1>1, <1>2, <1>3, <1>4, <1>5 DEF Handler

LEMMA InnerKeeps ==
  ASSUME DoorInv, NEW c \in Calls, Inner(c)
  PROVE  DoorInv'
<1>1. Moves(c)
  BY CallStepMoves DEF Inner
<1>2. PICK s \in CallState \ {"idle"} : call' = [call EXCEPT ![c] = s]
  BY <1>1 DEF Moves
<1>3. CASE c \in Remote /\ call'[c] \in Over
  BY <1>2, <1>3, AnswerKeeps, HttpAssumption DEF Inner, DoorInv
<1>4. CASE ~(c \in Remote /\ call'[c] \in Over)
  BY <1>1, <1>2, <1>4, HttpAssumption DEF Inner, Moves, doorVars, DoorInv, DoorKept
<1> QED
  BY <1>3, <1>4

LEMMA DoorInvKept == HttpSpec => []DoorInv
<1>1. HttpInit => DoorInv
  <2> SUFFICES ASSUME HttpInit
               PROVE  DoorInv
    OBVIOUS
  <2>1. call \in [Calls -> CallState]
    BY DEF HttpInit, Init, CallState, Over
  <2> QED
    BY <2>1, HttpAssumption DEF HttpInit, DoorInv, DoorKept, Door, Before, InHead, InBody
<1>2. DoorInv /\ [HttpNext]_httpVars => DoorInv'
  <2> SUFFICES ASSUME DoorInv, [HttpNext]_httpVars
               PROVE  DoorInv'
    OBVIOUS
  <2>1. CASE \E c \in Remote : Handler(c)
    BY <2>1, HandlerKeeps
  <2>2. ASSUME NEW c \in Calls \ Remote, InProcess(c)
        PROVE  DoorInv'
    <3>1. PICK s \in CallState \ {"idle"} : call' = [call EXCEPT ![c] = s]
      BY <2>2, ArriveMoves, AbortMoves DEF InProcess, Moves
    <3> QED
      BY <2>2, <3>1, HttpAssumption DEF InProcess, doorVars, DoorInv, DoorKept
  <2>3. CASE \E c \in Calls : Inner(c)
    BY <2>3, InnerKeeps
  <2>4. CASE Die
    BY <2>4, CrashSparesIdle, HttpAssumption
    DEF Die, DoorInv, DoorKept, Door, Before, InHead, InBody
  <2>5. CASE UNCHANGED httpVars
    BY <2>5 DEF httpVars, vars, doorVars, DoorInv, DoorKept
  <2> QED
    BY <2>1, <2>2, <2>3, <2>4, <2>5 DEF HttpNext
<1> QED
  BY <1>1, <1>2, PTL DEF HttpSpec

(* A request with anything wrong with it never gets into submit(), and no   *)
(* request has more than max_body_bytes held for it: for any requests, any  *)
(* number of them at once, any limit, and whatever the other calls, the     *)
(* store and crashes do.                                                    *)
THEOREM FlawedNeverSubmits == HttpSpec => []RefusedLeavesNoTrace
<1>1. DoorInv => RefusedLeavesNoTrace
  BY HttpAssumption DEF DoorInv, DoorKept, Before, Allowed, RefusedLeavesNoTrace
<1> QED
  BY <1>1, DoorInvKept, PTL

-----------------------------------------------------------------------------
(* The handler implements IdempotentSubmit: whatever it does before and     *)
(* after submit() is a step of one call there, or no step, so all that is   *)
(* proved of concurrent submissions holds of requests.                      *)
LEMMA HttpStepIsSubmits ==
  ASSUME [HttpNext]_httpVars
  PROVE  [Next]_vars
<1>1. ASSUME NEW c \in Remote, Handler(c)
      PROVE  UNCHANGED vars \/ Arrive(c)
  BY <1>1 DEF Handler, Receive, Chunk, Disconnect, BodyEnds, Resolved, Hand
<1>2. ASSUME NEW c \in Calls, Inner(c)
      PROVE  CallStep(c) \/ Raises(c)
  BY <1>2 DEF Inner
<1>3. ASSUME NEW c \in Calls \ Remote, InProcess(c)
      PROVE  Arrive(c) \/ Abort(c)
  BY <1>3 DEF InProcess
<1> QED
  BY <1>1, <1>2, <1>3, HttpAssumption DEF HttpNext, Next, Die, httpVars

(* The handler adds awaits and refusals in front of submit() and a counter  *)
(* beside it, and nothing to what submit() may do.                          *)
THEOREM HttpImplementsSubmit == HttpSpec => Spec
<1>1. HttpInit => Init
  BY DEF HttpInit
<1> QED
  BY <1>1, HttpStepIsSubmits, PTL DEF HttpSpec, Spec

-----------------------------------------------------------------------------
(* The status codes: a request in submit() has no answer yet, one with a    *)
(* 202 has its job's id, and one with another code made no row and never    *)
(* will.                                                                    *)
Honest(c) ==
  /\ call[c] \in Inside => door[c] = "inside"
  /\ door[c] # "answered" => status[c] = 0
  /\ status[c] = 202 => reply[c] \in Calls
  /\ status[c] \notin {0, 202} => c \notin rows /\ call[c] \notin Inside

HonestInv ==
  /\ status \in [Remote -> {0, 202, 401, 404, 413, 422, 500}]
  /\ \A c \in Remote : Honest(c)

(* A row is made by a call that was creating it, and for good.              *)
LEMMA RowsGrow ==
  ASSUME [Next]_vars
  PROVE  rows \subseteq rows' /\ \A c \in rows' \ rows : call[c] = "creating"
<1>1. \A c \in Calls : Arrive(c) \/ Abort(c) \/ Raises(c) \/ Enter(c) \/ Recalled(c) \/ Got(c)
                       \/ Compared(c) \/ Remembered(c) \/ Stamped(c) => rows' = rows
  BY DEF Arrive, Abort, Raises, Enter, Recalled, Got, Compared, Remembered, Stamped, storeVars
<1>2. \A c \in Calls : Created(c) => rows' = rows \cup {c} /\ call[c] = "creating"
  BY DEF Created
<1>3. Crash => rows' = rows \/ \E c \in Calls : call[c] = "creating" /\ rows' = rows \cup {c}
  BY DEF Crash
<1>4. UNCHANGED vars => rows' = rows
  BY DEF vars, storeVars
<1> QED
  BY <1>1, <1>2, <1>3, <1>4 DEF Next, CallStep

(* What a step of one call leaves of the others.                            *)
LEMMA OthersHonest ==
  ASSUME HonestInv, [Next]_vars, NEW d \in Remote,
         call'[d] = call[d], reply'[d] = reply[d], door'[d] = door[d], status'[d] = status[d]
  PROVE  Honest(d)'
BY RowsGrow DEF HonestInv, Honest, Inside, InStore

Codes == {401, 404, 413, 422, 500}

(* A request the handler answers itself never got into submit().            *)
LEMMA AnsweredAtTheDoor ==
  ASSUME SubmitInv, DoorInv, HonestInv, NEW c \in Remote, door[c] \in Before,
         NEW code \in Codes, Answer(c, code), UNCHANGED vars
  PROVE  HonestInv'
<1>1. /\ call' = call /\ reply' = reply /\ rows' = rows
      /\ door' = [door EXCEPT ![c] = "answered"] /\ status' = [status EXCEPT ![c] = code]
  BY DEF Answer, vars, storeVars
<1>2. c \in Calls /\ call[c] = "idle" /\ c \notin rows
  BY HttpAssumption DEF DoorInv, DoorKept, SubmitInv, AnswerInv, Answered
<1>3. Honest(c)'
  BY <1>1, <1>2 DEF Honest, HonestInv, DoorInv, Codes, Inside, InStore
<1>4. \A d \in Remote \ {c} : Honest(d)'
  BY <1>1, OthersHonest DEF DoorInv, HonestInv
<1> QED
  BY <1>1, <1>3, <1>4 DEF HonestInv, Codes

(* One that goes on, or away, has no answer yet.                            *)
LEMMA StillUnanswered ==
  ASSUME SubmitInv, DoorInv, HonestInv, NEW c \in Remote, door[c] \in Before, UNCHANGED status,
         door' = door \/ (\E next \in Door \ {"answered"} : door' = [door EXCEPT ![c] = next]),
         \/ UNCHANGED vars
         \/ Arrive(c) /\ door' = [door EXCEPT ![c] = "inside"]
  PROVE  HonestInv'
<1>1. c \in Calls /\ call[c] = "idle" /\ c \notin rows /\ status[c] = 0
  BY HttpAssumption DEF DoorInv, DoorKept, SubmitInv, AnswerInv, Answered, HonestInv, Honest, Before
<1>2. reply' = reply /\ rows' = rows /\ \A d \in Calls \ {c} : call'[d] = call[d]
  BY DEF Arrive, Go, vars, storeVars, DoorInv
<1>3. Honest(c)'
  BY <1>1 DEF Honest, DoorInv, HonestInv, vars, Inside, InStore
<1>4. ASSUME NEW d \in Remote \ {c}
      PROVE  Honest(d)'
  <2>1. door'[d] = door[d] /\ call'[d] = call[d]
    BY <1>2, HttpAssumption DEF DoorInv
  <2> QED
    BY <1>2, <2>1 DEF HonestInv, Honest
<1> QED
  BY <1>3, <1>4 DEF HonestInv

LEMMA HandlerHonest ==
  ASSUME SubmitInv, DoorInv, HonestInv, NEW c \in Remote, Handler(c)
  PROVE  HonestInv'
<1>1. door[c] \in Before
  BY DEF Handler, Receive, Chunk, Disconnect, BodyEnds, Resolved, Before
<1>2. Door \ {"answered"} = {"outside", "reading", "resolving", "inside", "gone"}
  BY DEF Door
<1>3. ASSUME NEW next \in Door \ {"answered"}, Proceed(c, next), UNCHANGED vars
      PROVE  HonestInv'
  BY <1>1, <1>3, StillUnanswered DEF Proceed
<1>4. ASSUME Hand(c)
      PROVE  HonestInv'
  <2>1. CASE Answer(c, 404) /\ UNCHANGED vars
    BY <1>1, <2>1, AnsweredAtTheDoor DEF Codes
  <2>2. CASE Arrive(c) /\ Proceed(c, "inside")
    BY <1>1, <1>2, <2>2, StillUnanswered DEF Proceed
  <2> QED
    BY <1>4, <2>1, <2>2 DEF Hand
<1>5. CASE Receive(c)
  <2>1. \A f \in Requests : HeadRefusal(f) \in {0, 401, 422}
    BY DEF HeadRefusal
  <2> QED
    BY <1>1, <1>2, <1>3, <1>5, <2>1, AnsweredAtTheDoor DEF Receive, Codes
<1>6. CASE Chunk(c)
  <2>1. CASE Answer(c, 413) /\ UNCHANGED vars
    BY <1>1, <2>1, AnsweredAtTheDoor DEF Codes
  <2>2. CASE UNCHANGED <<door, status, vars>>
    BY <1>1, <2>2, StillUnanswered
  <2> QED
    BY <1>6, <2>1, <2>2 DEF Chunk
<1>7. CASE Disconnect(c)
  BY <1>2, <1>3, <1>7 DEF Disconnect
<1>8. CASE BodyEnds(c)
  <2>1. CASE UNCHANGED vars /\ \E code \in {422, 500} : Answer(c, code)
    BY <1>1, <2>1, AnsweredAtTheDoor DEF Codes
  <2>2. CASE Proceed(c, "resolving") /\ UNCHANGED vars
    BY <1>2, <1>3, <2>2
  <2> QED
    BY <1>4, <1>8, <2>1, <2>2 DEF BodyEnds
<1>9. CASE Resolved(c)
  <2>1. CASE Answer(c, 422) /\ UNCHANGED vars
    BY <1>1, <2>1, AnsweredAtTheDoor DEF Codes
  <2> QED
    BY <1>4, <1>9, <2>1 DEF Resolved
<1> QED
  BY <1>5, <1>6, <1>7, <1>8, <1>9 DEF Handler

(* The answer the handler makes of submit()'s end.                          *)
LEMMA InnerHonest ==
  ASSUME SubmitInv, SubmitInv', DoorInv, HonestInv, [Next]_vars, NEW c \in Calls, Inner(c)
  PROVE  HonestInv'
<1>1. CallStep(c) \/ Raises(c)
  BY DEF Inner
<1>2. PICK s \in CallState \ {"idle"} : call' = [call EXCEPT ![c] = s]
  BY <1>1, CallStepMoves DEF Moves
<1>3. call[c] \in Inside
  BY <1>1 DEF CallStep, Enter, Recalled, Got, Compared, Remembered, Stamped, Created, Raises, Inside, InStore
<1>4. /\ \A d \in Calls \ {c} : call'[d] = call[d] /\ reply'[d] = reply[d]
      /\ call'[c] = s
  <2>1. \A d \in Calls \ {c} : reply'[d] = reply[d]
    BY <1>1 DEF CallStep, Enter, Recalled, Got, Compared, Remembered, Stamped, Created, Raises, SubmitInv, Types
  <2> QED
    BY <1>2, <2>1 DEF DoorInv
<1>5. CASE c \in Remote /\ call'[c] \in Over
  <2>1. door' = [door EXCEPT ![c] = "answered"] /\ status' = [status EXCEPT ![c] = StatusOf(c)]
    BY <1>5 DEF Inner, Answer
  <2>2. \/ call'[c] = "failed" /\ rows' = rows /\ reply'[c] = NoCall
        \/ call'[c] = "returned" /\ rows' = rows /\ reply'[c] = "refused"
        \/ call'[c] = "returned" /\ reply'[c] \in Calls
    <3>1. CASE Raises(c)
      BY <1>2, <1>4, <3>1 DEF Raises, Go, storeVars, SubmitInv, AnswerInv, Answered, Types
    <3>2. CASE Compared(c)
      <4>1. found[c] \in Calls
        BY <3>2 DEF Compared, SubmitInv, KeyInv, Progressing
      <4> QED
        BY <3>2, <4>1 DEF Compared, Go, storeVars, SubmitInv, Types
    <3>3. CASE Created(c)
      BY <3>3 DEF Created, Go, SubmitInv, Types
    <3>4. CASE Enter(c) \/ Recalled(c) \/ Got(c) \/ Remembered(c) \/ Stamped(c)
      BY <1>5, <3>4 DEF Enter, Recalled, Got, Remembered, Stamped, Go, Over, SubmitInv, Types
    <3> QED
      BY <1>1, <3>1, <3>2, <3>3, <3>4 DEF CallStep
  <2>3. /\ StatusOf(c) \in {202, 422, 500}
        /\ StatusOf(c) = 202 <=> reply'[c] \in Calls
    BY <2>2, ConstantsAssumption DEF StatusOf
  <2>4. c \notin rows
    BY <1>3 DEF SubmitInv, AnswerInv, Answered, Inside, InStore
  <2>5. Honest(c)'
    <3>1. status'[c] = StatusOf(c) /\ door'[c] = "answered"
      BY <1>5, <2>1 DEF HonestInv, DoorInv
    <3>2. call'[c] \notin Inside
      BY <1>5 DEF Inside, InStore, Over
    <3>3. status'[c] # 202 => c \notin rows'
      BY <2>2, <2>3, <2>4, <3>1
    <3> QED
      BY <2>3, <3>1, <3>2, <3>3 DEF Honest
  <2>6. \A d \in Remote \ {c} : Honest(d)'
    BY <1>4, <2>1, OthersHonest, HttpAssumption DEF HonestInv, DoorInv
  <2> QED
    BY <1>5, <2>1, <2>3, <2>5, <2>6 DEF HonestInv
<1>6. CASE ~(c \in Remote /\ call'[c] \in Over)
  <2>1. UNCHANGED doorVars
    BY <1>6 DEF Inner
  <2>2. \A d \in Remote \ {c} : Honest(d)'
    BY <1>4, <2>1, OthersHonest, HttpAssumption DEF doorVars
  <2>3. c \in Remote => Honest(c)'
    BY <1>3, <2>1 DEF HonestInv, Honest, doorVars
  <2> QED
    BY <2>1, <2>2, <2>3 DEF HonestInv, doorVars
<1> QED
  BY <1>5, <1>6

LEMMA DieHonest ==
  ASSUME SubmitInv, DoorInv, HonestInv, [Next]_vars, Die
  PROVE  HonestInv'
<1>1. /\ Crash /\ UNCHANGED status /\ UNCHANGED reply
      /\ door' = [c \in Remote |-> IF door[c] \in {"reading", "resolving", "inside"} THEN "gone" ELSE door[c]]
  BY DEF Die, Crash
<1>2. \A c \in Calls : call'[c] \notin Inside
  BY <1>1 DEF Crash, Inside, InStore
<1>3. ASSUME NEW c \in Remote
      PROVE  Honest(c)'
  BY <1>1, <1>2, RowsGrow, HttpAssumption DEF HonestInv, Honest, Inside, InStore
<1> QED
  BY <1>1, <1>3 DEF HonestInv

LEMMA HonestStep ==
  ASSUME SubmitInv, SubmitInv', DoorInv, HonestInv, [HttpNext]_httpVars
  PROVE  HonestInv'
<1>1. [Next]_vars
  BY HttpStepIsSubmits
<1>2. ASSUME NEW c \in Calls \ Remote, InProcess(c)
      PROVE  HonestInv'
  <2>1. UNCHANGED <<doorVars, reply>> /\ \A d \in Calls \ {c} : call'[d] = call[d]
    BY <1>2, ArriveMoves, AbortMoves DEF InProcess, Arrive, Abort, Moves, DoorInv
  <2> QED
    BY <1>1, <1>2, <2>1, OthersHonest, HttpAssumption DEF HonestInv, doorVars
<1>3. CASE UNCHANGED httpVars
  BY <1>3 DEF httpVars, vars, storeVars, doorVars, HonestInv, Honest
<1> QED
  BY <1>1, <1>2, <1>3, HandlerHonest, InnerHonest, DieHonest DEF HttpNext

LEMMA HonestInvKept == HttpSpec => []HonestInv
<1>1. HttpInit => HonestInv
  BY ConstantsAssumption, HttpAssumption
  DEF HttpInit, Init, HonestInv, Honest, Inside, InStore
<1> QED
  BY <1>1, HonestStep, HttpImplementsSubmit, SubmitInvKept, DoorInvKept, PTL DEF HttpSpec

(* A 202 is a job made from this very request, on record; any other code    *)
(* means that the request made none: whatever other requests with its key,  *)
(* the store and crashes do.                                                *)
THEOREM AnswersHonest == HttpSpec => []AnswersAreHonest
<1>1. SubmitInv /\ HonestInv => AnswersAreHonest
  BY HttpAssumption DEF SubmitInv, AnswerInv, Answered, HonestInv, Honest, AnswersAreHonest
<1> QED
  BY <1>1, HonestInvKept, HttpImplementsSubmit, SubmitInvKept, PTL

-----------------------------------------------------------------------------
(* The counter of jobs.                                                     *)

(* The jobs this process counted and has not lost to a failing store.       *)
Jobs == {c \in Calls : \/ c \in rows /\ lockOf[c] # NoCall
                       \/ call[c] \in {"remembering", "stamping", "creating"}}

CountInv == crashes = 0 => created \in Nat /\ created - Cardinality(Jobs) \in 0 .. faults

LEMMA JobsFinite == IsFiniteSet(Jobs) /\ Cardinality(Jobs) \in Nat
<1>1. Jobs \in SUBSET Calls
  BY DEF Jobs
<1> QED
  BY <1>1, FS_Subset, FS_CardinalityType, ConstantsAssumption

(* A step that counts nothing and loses nothing.                            *)
LEMMA CountSame ==
  ASSUME CountInv, UNCHANGED <<created, faults, crashes>>, Jobs' = Jobs
  PROVE  CountInv'
BY DEF CountInv

LEMMA InnerCounts ==
  ASSUME SubmitInv, CountInv, NEW c \in Calls, Inner(c)
  PROVE  CountInv'
<1> DEFINE Coming == {"remembering", "stamping", "creating"}
<1>1. CallStep(c) \/ Raises(c)
  BY DEF Inner
<1>2. created' = IF Counted(c) THEN created + 1 ELSE created
  BY DEF Inner
<1>3. UNCHANGED <<lockOf, crashes>> /\ \A d \in Calls \ {c} : call'[d] = call[d]
  BY <1>1 DEF CallStep, Enter, Recalled, Got, Compared, Remembered, Stamped, Created, Raises, Leave, Go,
     lockVars, SubmitInv, Types
<1>4. faults \in Nat
  BY ConstantsAssumption DEF SubmitInv, Types
<1>5. ASSUME UNCHANGED rows, call'[c] \in Coming <=> call[c] \in Coming
      PROVE  Jobs' = Jobs
  BY <1>3, <1>5 DEF Jobs
<1>6. CASE Enter(c) \/ Compared(c) \/ Remembered(c) \/ Stamped(c)
  <2>1. ~Counted(c) /\ UNCHANGED <<rows, faults>> /\ (call'[c] \in Coming <=> call[c] \in Coming)
    BY <1>6 DEF Enter, Compared, Remembered, Stamped, Go, Counted, storeVars, SubmitInv, Types
  <2> QED
    BY <1>2, <1>3, <1>5, <2>1, CountSame
<1>7. CASE Recalled(c) \/ Got(c)
  <2>1. /\ UNCHANGED <<rows, faults>> /\ call[c] \in {"recalling", "getting"}
        /\ call'[c] \in {"remembering", "getting", "comparing"}
    BY <1>7 DEF Recalled, Got, Go, storeVars, SubmitInv, Types
  <2>2. CASE call'[c] = "remembering"
    <3>1. c \notin rows
      BY <2>1 DEF SubmitInv, AnswerInv, Answered
    <3>2. Jobs' = Jobs \cup {c} /\ c \notin Jobs
      BY <1>3, <2>1, <2>2, <3>1 DEF Jobs
    <3>3. Cardinality(Jobs') = Cardinality(Jobs) + 1
      BY <3>2, JobsFinite, FS_AddElement
    <3>4. created' = created + 1
      BY <1>2, <2>1, <2>2 DEF Counted
    <3> QED
      BY <1>3, <1>4, <2>1, <3>3, <3>4, JobsFinite DEF CountInv
  <2>3. CASE call'[c] # "remembering"
    BY <1>2, <1>3, <1>5, <2>1, <2>3, CountSame DEF Counted
  <2> QED
    BY <2>2, <2>3
<1>8. CASE Created(c)
  <2>1. /\ call[c] = "creating" /\ call'[c] = "returned" /\ rows' = rows \cup {c} /\ UNCHANGED faults
    BY <1>8 DEF Created, Go, SubmitInv, Types
  <2>2. lockOf[c] # NoCall
    BY <2>1, OneLockOneKey DEF SubmitInv, Inside, InStore
  <2>3. Jobs' = Jobs
    BY <1>3, <2>1, <2>2 DEF Jobs
  <2> QED
    BY <1>2, <1>3, <2>1, <2>3, CountSame DEF Counted
<1>9. CASE Raises(c)
  <2>1. /\ call[c] \in InStore /\ call'[c] = "failed" /\ UNCHANGED rows /\ faults' = faults + 1
    BY <1>9 DEF Raises, Go, storeVars, SubmitInv, Types
  <2>2. c \notin rows
    BY <2>1 DEF SubmitInv, AnswerInv, Answered, InStore
  <2>3. Jobs' = Jobs \ {c}
    BY <1>3, <2>1, <2>2 DEF Jobs
  <2>4. Cardinality(Jobs') \in {Cardinality(Jobs), Cardinality(Jobs) - 1}
    BY <2>3, JobsFinite, FS_RemoveElement
  <2>5. created' = created
    BY <1>2, <2>1 DEF Counted
  <2> QED
    BY <1>3, <1>4, <2>1, <2>4, <2>5, JobsFinite DEF CountInv
<1> QED
  BY <1>1, <1>6, <1>7, <1>8, <1>9 DEF CallStep

LEMMA CountStep ==
  ASSUME SubmitInv, CountInv, [HttpNext]_httpVars
  PROVE  CountInv'
<1>1. ASSUME NEW c \in Calls, Arrive(c), UNCHANGED created
      PROVE  CountInv'
  <2>1. /\ call[c] = "idle" /\ UNCHANGED <<rows, faults, crashes>>
        /\ \A d \in Calls \ {c} : call'[d] = call[d] /\ lockOf'[d] = lockOf[d]
        /\ call'[c] \in {"recalling", "waiting"}
    BY <1>1 DEF Arrive, Go, storeVars, SubmitInv, Types
  <2>2. c \notin rows
    BY <2>1 DEF SubmitInv, AnswerInv, Answered
  <2>3. Jobs' = Jobs
    BY <2>1, <2>2 DEF Jobs
  <2> QED
    BY <1>1, <2>1, <2>3, CountSame
<1>2. ASSUME NEW c \in Calls, Abort(c), UNCHANGED created
      PROVE  CountInv'
  <2>1. /\ call[c] = "waiting" /\ call'[c] = "aborted" /\ UNCHANGED <<rows, faults, crashes, lockOf>>
        /\ \A d \in Calls \ {c} : call'[d] = call[d]
    BY <1>2 DEF Abort, Go, storeVars, SubmitInv, Types
  <2>2. Jobs' = Jobs
    BY <2>1 DEF Jobs
  <2> QED
    BY <1>2, <2>1, <2>2, CountSame
<1>3. ASSUME UNCHANGED <<vars, created>>
      PROVE  CountInv'
  BY <1>3, CountSame DEF vars, storeVars, lockVars, Jobs
<1>4. ASSUME NEW c \in Remote, Handler(c)
      PROVE  CountInv'
  BY <1>1, <1>3, <1>4, HttpAssumption
  DEF Handler, Receive, Chunk, Disconnect, BodyEnds, Resolved, Hand
<1>5. CASE Die
  <2>1. crashes' # 0
    BY <1>5, ConstantsAssumption DEF Die, Crash, SubmitInv, Types
  <2> QED
    BY <2>1 DEF CountInv
<1>6. CASE UNCHANGED httpVars
  BY <1>3, <1>6 DEF httpVars
<1> QED
  BY <1>1, <1>2, <1>4, <1>5, <1>6, InnerCounts DEF HttpNext, InProcess

(* Within one process, ajg_jobs_created_total is the number of jobs that    *)
(* were made or are being made, and off only by store calls that raised:    *)
(* for any number of requests and of calls in process.                      *)
THEOREM JobsCounted == HttpSpec => []CountsEachJob
<1>1. HttpInit => CountInv
  <2> SUFFICES ASSUME HttpInit
               PROVE  CountInv
    OBVIOUS
  <2>1. Jobs = {}
    BY DEF HttpInit, Init, Jobs
  <2> QED
    BY <2>1, FS_EmptySet DEF HttpInit, Init, CountInv
<1>2. HttpSpec => []CountInv
  BY <1>1, CountStep, HttpImplementsSubmit, SubmitInvKept, PTL DEF HttpSpec
<1>3. SubmitInv /\ CountInv => CountsEachJob
  <2> SUFFICES ASSUME SubmitInv, CountInv
               PROVE  CountsEachJob
    OBVIOUS
  <2>1. Jobs = {c \in rows : lockOf[c] # NoCall}
               \cup {c \in Calls : call[c] \in {"remembering", "stamping", "creating"}}
    BY DEF Jobs, SubmitInv, Types
  <2> QED
    BY <2>1 DEF CountInv, CountsEachJob
<1> QED
  BY <1>2, <1>3, HttpImplementsSubmit, SubmitInvKept, PTL

(* Every variable of the handler has its type, whatever it is asked.        *)
THEOREM HttpTyped == HttpSpec => []HttpTypeOK
<1> DEFINE Counts == created \in Nat
<1>1. HttpInit => Counts
  BY DEF HttpInit
<1>2. Counts /\ [HttpNext]_httpVars => Counts'
  <2> SUFFICES ASSUME created \in Nat, [HttpNext]_httpVars
               PROVE  created' \in Nat
    OBVIOUS
  <2>1. ASSUME NEW c \in Remote, Handler(c) PROVE created' = created
    BY <2>1 DEF Handler, Receive, Chunk, Disconnect, BodyEnds, Resolved
  <2>2. ASSUME NEW c \in Calls, InProcess(c) \/ Inner(c) PROVE created' \in {created, created + 1}
    BY <2>2 DEF InProcess, Inner
  <2>3. CASE Die \/ UNCHANGED httpVars
    BY <2>3 DEF Die, httpVars
  <2> QED
    BY <2>1, <2>2, <2>3 DEF HttpNext
<1>3. DoorInv /\ HonestInv /\ Counts => HttpTypeOK
  BY DEF DoorInv, HonestInv, HttpTypeOK
<1> HIDE DEF Counts
<1> QED
  BY <1>1, <1>2, <1>3, HonestInvKept, DoorInvKept, PTL DEF HttpSpec
===============================================================================
