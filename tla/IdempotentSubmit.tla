-------------------------- MODULE IdempotentSubmit --------------------------
(***************************************************************************)
(* JobManager.submit() with Idempotency-Keys: concurrent retries of one    *)
(* request, other requests under the same key, store calls that raise, and *)
(* crashes between any two of them.                                        *)
(*                                                                         *)
(* A store call is one action, taken when it returns: until then every     *)
(* other call may step (SQLiteJobStore), in any order.  The behaviours of  *)
(* InMemoryJobStore, whose calls return at once, are among these.          *)
(*                                                                         *)
(* A job is named by the call that creates it, and so is a lock.  A call   *)
(* without a key shares nothing with another: JobLifecycle!Submit.  A name *)
(* X_Variant is X with a plausible fault in it; no action uses one.        *)
(***************************************************************************)
EXTENDS Naturals, Sequences, FiniteSets, SequencesExt

CONSTANTS
  Calls,        \* calls of submit() for a registered capability
  Keys,         \* idempotency keys
  KeyOf,        \* the key a call carries
  RequestOf,    \* its capability, params and webhook_url: the fingerprint
  NoCall,       \* no job, no lock
  NoPrint,      \* no fingerprint stored
  Legacy,       \* calls that may have been made before fingerprints were kept
  MaxKeys,      \* MAX_IDEMPOTENCY_KEYS
  StoreFaults,  \* bound: store calls that raise
  MaxCrashes    \* bound: crashes of the process

ASSUME ConstantsAssumption ==
  /\ KeyOf \in [Calls -> Keys]
  /\ IsFiniteSet(Calls) /\ {NoCall, "refused"} \cap Calls = {} /\ NoCall # "refused"
  /\ \A c \in Calls : RequestOf[c] # NoPrint
  /\ Legacy \subseteq Calls
  /\ \A c, d \in Legacy : KeyOf[c] = KeyOf[d] => c = d
  /\ MaxKeys \in Nat \ {0}
  /\ StoreFaults \in Nat
  /\ MaxCrashes \in Nat

VARIABLES
  rows,       \* the jobs table
  jobOf,      \* [Keys -> Calls or NoCall] idempotency_keys.job_id
  prints,     \* [Keys -> request or NoPrint] idempotency_keys.fingerprint
  byAge,      \* Seq(Keys) the remembered keys, oldest first
  locks,      \* [Keys -> Calls or NoCall] _submit_key_locks
  waiters,    \* [Keys -> Nat] _submit_key_waiters
  held,       \* the locks that are locked
  line,       \* [Calls -> Seq(Calls)] who waits for a lock
  lockOf,     \* [Calls -> Calls or NoCall] the lock a call took from the table
  found,      \* [Calls -> Calls or NoCall] the job id its key recalled
  call,       \* [Calls -> CallState] where the call is suspended
  reply,      \* [Calls -> Calls or NoCall or "refused"] what it returned
  faults, crashes,
  forgotten   \* history: keys evicted at the cap

storeVars == <<rows, jobOf, prints, byAge, forgotten>>
lockVars == <<locks, waiters, held, line, lockOf>>
vars == <<storeVars, lockVars, found, call, reply, faults, crashes>>

(* The await a call is suspended in:                                        *)
(*   waiting      lock.acquire()             recalling  recall key          *)
(*   getting      store.get(existing_id)     comparing  recall fingerprint  *)
(*   remembering  remember key               stamping   remember fingerprint *)
(*   creating     store.create                                              *)
InStore == {"recalling", "getting", "comparing", "remembering", "stamping", "creating"}
Inside == InStore \cup {"waiting"}
Over == {"returned", "failed", "aborted", "lost"}
CallState == {"idle"} \cup Inside \cup Over

(* A database of an earlier version may hold jobs and keys without a        *)
(* fingerprint.                                                             *)
Init ==
  /\ rows \in {old \in SUBSET Legacy : Cardinality(old) <= MaxKeys}
  /\ jobOf = [k \in Keys |-> IF \E c \in rows : KeyOf[c] = k
                               THEN CHOOSE c \in rows : KeyOf[c] = k ELSE NoCall]
  /\ prints = [k \in Keys |-> NoPrint]
  /\ byAge \in [1 .. Cardinality(rows) -> {KeyOf[c] : c \in rows}]
  /\ \A i, j \in DOMAIN byAge : byAge[i] = byAge[j] => i = j
  /\ locks = [k \in Keys |-> NoCall]
  /\ waiters = [k \in Keys |-> 0]
  /\ held = {}
  /\ line = [c \in Calls |-> << >>]
  /\ lockOf = [c \in Calls |-> NoCall]
  /\ found = [c \in Calls |-> NoCall]
  /\ call = [c \in Calls |-> IF c \in rows THEN "returned" ELSE "idle"]
  /\ reply = [c \in Calls |-> IF c \in rows THEN c ELSE NoCall]
  /\ faults = 0
  /\ crashes = 0
  /\ forgotten = {}

-----------------------------------------------------------------------------
(* The finally of submit(): the table forgets a lock nobody uses any more.  *)
LastOut_AnyHolder(c) == TRUE

LastOut_OffByOne(c) == waiters[KeyOf[c]] = 0

LastOut(c) == waiters[KeyOf[c]] = 1

DropLock(c) ==
  /\ locks' = IF LastOut(c) THEN [locks EXCEPT ![KeyOf[c]] = NoCall] ELSE locks
  /\ waiters' = [waiters EXCEPT ![KeyOf[c]] = IF LastOut(c) THEN 0 ELSE @ - 1]

(* A call leaves by a return or an exception: `async with lock` releases,   *)
(* then the finally runs, in one step.                                      *)
Leave_HoldsOnFailure(c) ==
  /\ held' = IF call'[c] = "failed" THEN held ELSE held \ {lockOf[c]}
  /\ DropLock(c)
  /\ UNCHANGED <<line, lockOf>>

Leave(c) ==
  /\ held' = held \ {lockOf[c]}
  /\ DropLock(c)
  /\ UNCHANGED <<line, lockOf>>

Go(c, next) == call' = [call EXCEPT ![c] = next]

(* submit() up to its first await.  asyncio.Lock: a free lock nobody waits  *)
(* for is taken at once, otherwise the call joins the line.                 *)
Arrive(c) ==
  LET k == KeyOf[c]
      l == IF locks[k] = NoCall THEN c ELSE locks[k]
  IN /\ call[c] = "idle"
     /\ locks' = [locks EXCEPT ![k] = l]
     /\ waiters' = [waiters EXCEPT ![k] = @ + 1]
     /\ lockOf' = [lockOf EXCEPT ![c] = l]
     /\ IF l \notin held /\ line[l] = << >>
          THEN /\ held' = held \cup {l}
               /\ Go(c, "recalling")
               /\ UNCHANGED line
          ELSE /\ line' = [line EXCEPT ![l] = Append(@, c)]
               /\ Go(c, "waiting")
               /\ UNCHANGED held
     /\ UNCHANGED <<storeVars, found, reply, faults, crashes>>

(* The lock is released and its first waiter resumes.                       *)
Enter(c) ==
  LET l == lockOf[c] IN
  /\ call[c] = "waiting"
  /\ l \notin held /\ Head(line[l]) = c
  /\ held' = held \cup {l}
  /\ line' = [line EXCEPT ![l] = Tail(@)]
  /\ Go(c, "recalling")
  /\ UNCHANGED <<storeVars, locks, waiters, lockOf, found, reply,
                 faults, crashes>>

(* The caller gives up while the call waits for the lock: CancelledError.   *)
Abort(c) ==
  /\ call[c] = "waiting"
  /\ Go(c, "aborted")
  /\ line' = [line EXCEPT ![lockOf[c]] = RemoveFirst(@, c)]
  /\ DropLock(c)
  /\ UNCHANGED <<storeVars, held, lockOf, found, reply, faults, crashes>>

(* recall_idempotency_key returns.                                          *)
Recalled(c) ==
  /\ call[c] = "recalling"
  /\ IF jobOf[KeyOf[c]] = NoCall
       THEN Go(c, "remembering") /\ UNCHANGED found
       ELSE /\ found' = [found EXCEPT ![c] = jobOf[KeyOf[c]]]
            /\ Go(c, "getting")
  /\ UNCHANGED <<storeVars, lockVars, reply, faults, crashes>>

(* store.get returns; a key without its record is a fresh submission.       *)
Exists(c) == found[c] \in rows

Got(c) ==
  /\ call[c] = "getting"
  /\ Go(c, IF Exists(c) THEN "comparing" ELSE "remembering")
  /\ UNCHANGED <<storeVars, lockVars, found, reply, faults, crashes>>

(* recall_idempotency_fingerprint returns, or None: then the original       *)
(* record is fingerprinted instead.                                         *)
StoredPrint_Lenient(c) ==
  IF prints[KeyOf[c]] = NoPrint THEN RequestOf[c] ELSE prints[KeyOf[c]]

StoredPrint(c) ==
  IF prints[KeyOf[c]] = NoPrint THEN RequestOf[found[c]] ELSE prints[KeyOf[c]]

Compared(c) ==
  /\ call[c] = "comparing"
  /\ reply' = [reply EXCEPT ![c] = IF StoredPrint(c) = RequestOf[c] THEN found[c] ELSE "refused"]
  /\ Go(c, "returned")
  /\ Leave(c)
  /\ UNCHANGED <<storeVars, found, faults, crashes>>

(* remember_idempotency_key: the key moves to newest and starts without a   *)
(* fingerprint; beyond the cap the oldest key goes.                         *)
Aged(k) == Append(RemoveFirst(byAge, k), k)

Evicted(k) == IF Len(Aged(k)) > MaxKeys THEN {Aged(k)[1]} ELSE {}

Remembered(c) ==
  LET k == KeyOf[c] IN
  /\ call[c] = "remembering"
  /\ byAge' = IF Evicted(k) = {} THEN Aged(k) ELSE Tail(Aged(k))
  /\ jobOf' = [o \in Keys |-> IF o \in Evicted(k) THEN NoCall ELSE IF o = k THEN c ELSE jobOf[o]]
  /\ prints' = [o \in Keys |-> IF o \in Evicted(k) \cup {k} THEN NoPrint ELSE prints[o]]
  /\ forgotten' = forgotten \cup Evicted(k)
  /\ Go(c, "stamping")
  /\ UNCHANGED <<rows, lockVars, found, reply, faults, crashes>>

(* remember_idempotency_fingerprint: nothing if the key is gone already.    *)
Stamped(c) ==
  LET k == KeyOf[c] IN
  /\ call[c] = "stamping"
  /\ prints' = IF jobOf[k] = NoCall THEN prints ELSE [prints EXCEPT ![k] = RequestOf[c]]
  /\ Go(c, "creating")
  /\ UNCHANGED <<rows, jobOf, byAge, forgotten, lockVars, found, reply,
                 faults, crashes>>

(* store.create returns: _schedule and the return are the same step.        *)
Created(c) ==
  /\ call[c] = "creating"
  /\ rows' = rows \cup {c}
  /\ reply' = [reply EXCEPT ![c] = c]
  /\ Go(c, "returned")
  /\ Leave(c)
  /\ UNCHANGED <<jobOf, prints, byAge, forgotten, found, faults, crashes>>

(* A store call raises; a write is one transaction and is rolled back.      *)
Raises(c) ==
  /\ call[c] \in InStore
  /\ faults < StoreFaults
  /\ faults' = faults + 1
  /\ Go(c, "failed")
  /\ Leave(c)
  /\ UNCHANGED <<storeVars, found, reply, crashes>>

(* The process dies and is restarted: the store is what is left.  An INSERT *)
(* may have been committed without create() having returned.                *)
Crash ==
  /\ crashes < MaxCrashes
  /\ crashes' = crashes + 1
  /\ rows' = rows \/ \E c \in Calls : call[c] = "creating" /\ rows' = rows \cup {c}
  /\ call' = [c \in Calls |-> IF call[c] \in Inside THEN "lost" ELSE call[c]]
  /\ locks' = [k \in Keys |-> NoCall]
  /\ waiters' = [k \in Keys |-> 0]
  /\ held' = {}
  /\ line' = [c \in Calls |-> << >>]
  /\ lockOf' = [c \in Calls |-> NoCall]
  /\ UNCHANGED <<jobOf, prints, byAge, forgotten, found, reply, faults>>

-----------------------------------------------------------------------------
CallStep(c) ==
  \/ Enter(c) \/ Recalled(c) \/ Got(c) \/ Compared(c)
  \/ Remembered(c) \/ Stamped(c) \/ Created(c)

Next ==
  \/ \E c \in Calls : Arrive(c) \/ CallStep(c) \/ Abort(c) \/ Raises(c)
  \/ Crash

Spec == Init /\ [][Next]_vars

(* The loop resumes whoever is ready and the store answers.                 *)
FairSpec == Spec /\ \A c \in Calls : WF_vars(CallStep(c))

-----------------------------------------------------------------------------
(* Every variable has its type, and the key table stays within its cap.     *)
TypeOK ==
  /\ rows \subseteq Calls
  /\ jobOf \in [Keys -> Calls \cup {NoCall}]
  /\ prints \in [Keys -> {RequestOf[c] : c \in Calls} \cup {NoPrint}]
  /\ byAge \in Seq(Keys) /\ Len(byAge) <= MaxKeys
  /\ locks \in [Keys -> Calls \cup {NoCall}]
  /\ waiters \in [Keys -> Nat]
  /\ held \subseteq Calls
  /\ line \in [Calls -> Seq(Calls)]
  /\ lockOf \in [Calls -> Calls \cup {NoCall}]
  /\ found \in [Calls -> Calls \cup {NoCall}]
  /\ call \in [Calls -> CallState]
  /\ reply \in [Calls -> Calls \cup {NoCall, "refused"}]
  /\ faults \in 0 .. StoreFaults
  /\ crashes \in 0 .. MaxCrashes
  /\ forgotten \subseteq Keys

(* A key leads to one job and one provider run, whatever retries race and   *)
(* wherever the process dies, until the key itself is evicted at the cap.   *)
OneJobPerKey ==
  \A c, d \in rows :
    c # d /\ KeyOf[c] = KeyOf[d] => KeyOf[c] \in forgotten

(* A caller is only answered with a job made from the request it sent,      *)
(* whose record exists, and refused only because a job of another request   *)
(* has the key.                                                             *)
AnswersMatch == \A c \in Calls :
  /\ reply[c] \in Calls =>
       reply[c] \in rows /\ RequestOf[reply[c]] = RequestOf[c] /\ KeyOf[reply[c]] = KeyOf[c]
  /\ reply[c] = "refused" =>
       \E d \in rows : KeyOf[d] = KeyOf[c] /\ RequestOf[d] # RequestOf[c]

(* The lock table holds exactly the keys that calls are at work on, so a    *)
(* stream of unique keys cannot grow it.                                    *)
LocksCollected ==
  \A k \in Keys :
    /\ waiters[k] = Cardinality({c \in Calls : KeyOf[c] = k /\ call[c] \in Inside})
    /\ (locks[k] # NoCall) = (waiters[k] > 0)

(* Every submit() returns, or raises, or dies with the process.             *)
SubmitReturns == \A c \in Calls : call[c] # "idle" ~> call[c] \in Over

=============================================================================
