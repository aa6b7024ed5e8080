--------------------------- MODULE JobStoreProofs ---------------------------
(***************************************************************************)
(* What the readers of the jobs table are told, for any jobs, capabilities *)
(* and filters, any page limit, result_ttl and resolution of the clock:    *)
(* the queries over text timestamps answer as the scans they replace, and  *)
(* every answer belongs to a moment of its call.                           *)
(***************************************************************************)
EXTENDS JobStore, FiniteSetTheorems, FunctionTheorems, TLAPS

-----------------------------------------------------------------------------
(* Timestamps.  The order of the texts is the order of the instants.        *)

LEMMA Division ==
  ASSUME NEW t \in Nat
  PROVE  /\ t \div TicksPerSecond \in Nat
         /\ (t % TicksPerSecond) \in 0 .. TicksPerSecond - 1
         /\ t = TicksPerSecond * (t \div TicksPerSecond) + (t % TicksPerSecond)
BY ConstantsAssumption

(* An earlier second is a whole second earlier.                             *)
LEMMA SecondsApart ==
  ASSUME NEW d \in Nat, NEW e \in Nat, d < e
  PROVE  TicksPerSecond * d + TicksPerSecond <= TicksPerSecond * e
<1>1. TicksPerSecond \in Nat /\ e - d - 1 \in Nat
  BY ConstantsAssumption
<1>2. TicksPerSecond * (e - d - 1) >= 0
  BY <1>1
<1>3. TicksPerSecond * (e - d - 1) = TicksPerSecond * e - TicksPerSecond * d - TicksPerSecond
  BY <1>1
<1> QED
  BY <1>1, <1>2, <1>3

(* A text is before another where its second is smaller, or the second is   *)
(* the same and either only the first has no fraction or its fraction is    *)
(* smaller.                                                                 *)
LEMMA TextOrder ==
  ASSUME NEW t \in Nat, NEW u \in Nat
  PROVE  TextBefore(IsoFormat(t), IsoFormat(u)) <=>
           \/ t \div TicksPerSecond < u \div TicksPerSecond
           \/ /\ t \div TicksPerSecond = u \div TicksPerSecond
              /\ (t % TicksPerSecond) < (u % TicksPerSecond)
<1> DEFINE d == t \div TicksPerSecond
           e == u \div TicksPerSecond
           f == t % TicksPerSecond
           g == u % TicksPerSecond
           a == IsoFormat(t)
           b == IsoFormat(u)
<1>0. d \in Nat /\ e \in Nat /\ f \in 0 .. TicksPerSecond - 1 /\ g \in 0 .. TicksPerSecond - 1
  BY Division
<1>2. /\ DOMAIN a = 1 .. 3 /\ a[1] = d /\ a[2] = (IF f = 0 THEN Plus ELSE Dot) /\ a[3] = f
      /\ b[1] = e /\ b[2] = (IF g = 0 THEN Plus ELSE Dot) /\ b[3] = g
  BY DEF IsoFormat
<1> HIDE DEF a, b, d, e, f, g
<1>1. d \in Nat /\ e \in Nat /\ f \in Nat /\ g \in Nat
  BY <1>0, ConstantsAssumption
<1>3. TextBefore(a, b) <=> \/ a[1] < b[1]
                           \/ a[1] = b[1] /\ a[2] < b[2]
                           \/ a[1] = b[1] /\ a[2] = b[2] /\ a[3] < b[3]
  <2>1. ASSUME NEW i \in 1 .. 3
        PROVE  (\A k \in 1 .. i - 1 : a[k] = b[k]) <=> /\ i > 1 => a[1] = b[1]
                                                       /\ i > 2 => a[2] = b[2]
    OBVIOUS
  <2>2. TextBefore(a, b) <=> \E i \in 1 .. 3 : /\ a[i] < b[i]
                                               /\ i > 1 => a[1] = b[1]
                                               /\ i > 2 => a[2] = b[2]
    BY <1>2, <2>1 DEF TextBefore
  <2> QED
    BY <2>2
<1> QED
  BY <1>1, <1>2, <1>3 DEF Plus, Dot, a, b, d, e, f, g

LEMMA TextIsTime ==
  ASSUME NEW t \in Nat, NEW u \in Nat
  PROVE  TextBefore(IsoFormat(t), IsoFormat(u)) <=> t < u
<1> DEFINE d == t \div TicksPerSecond
           e == u \div TicksPerSecond
           f == t % TicksPerSecond
           g == u % TicksPerSecond
<1>1. /\ d \in Nat /\ f \in 0 .. TicksPerSecond - 1 /\ t = TicksPerSecond * d + f
      /\ e \in Nat /\ g \in 0 .. TicksPerSecond - 1 /\ u = TicksPerSecond * e + g
  BY Division
<1>2. TextBefore(IsoFormat(t), IsoFormat(u)) <=> d < e \/ (d = e /\ f < g)
  BY TextOrder
<1> HIDE DEF d, e, f, g
<1>3. TicksPerSecond \in Nat /\ TicksPerSecond * d \in Nat /\ TicksPerSecond * e \in Nat
  BY <1>1, ConstantsAssumption
<1>4. d < e => TicksPerSecond * d + TicksPerSecond <= TicksPerSecond * e
  BY <1>1, SecondsApart
<1>5. e < d => TicksPerSecond * e + TicksPerSecond <= TicksPerSecond * d
  BY <1>1, SecondsApart
<1>6. d < e => t < u
  BY <1>1, <1>3, <1>4
<1>7. e < d => u < t
  BY <1>1, <1>3, <1>5
<1>8. d = e => (t < u <=> f < g)
  BY <1>1, <1>3
<1> QED
  BY <1>1, <1>2, <1>6, <1>7, <1>8

(* _DISPLAY_STATUS_SQL is _apply_expiry, and so the queries over it select  *)
(* what the scans do.                                                       *)
LEMMA DisplaysAgree ==
  ASSUME expires \in [Jobs -> Expiry \cup {NoTime}], NEW j \in Jobs, NEW t \in Nat
  PROVE  DisplayStatusSql(j, t) = ApplyExpiry(status[j], expires[j], t)
<1>1. CASE expires[j] = NoTime
  BY <1>1 DEF DisplayStatusSql, ApplyExpiry
<1>2. CASE expires[j] # NoTime
  <2>1. expires[j] \in Nat
    BY <1>2, ConstantsAssumption DEF Expiry
  <2>2. TextBefore(IsoFormat(t), IsoFormat(expires[j])) <=> t < expires[j]
    BY <2>1, TextIsTime
  <2>3. ~(t < expires[j]) <=> t >= expires[j]
    BY <2>1
  <2> QED
    BY <2>2, <2>3 DEF DisplayStatusSql, ApplyExpiry
<1> QED
  BY <1>1, <1>2

-----------------------------------------------------------------------------
(* Pages, as far as the dates on them go.                                   *)
ByDate(M) == {p \in M \X M : made[p[1]] >= made[p[2]]}
DatePages(M) == Pages(M, ByDate(M))

(* A page of either sort is one by date.                                    *)
LEMMA PagesByDate ==
  ASSUME made \in [Jobs -> Time \cup {NoTime}], \A j \in Rows : j \in Jobs /\ made[j] # NoTime,
         NEW want, NEW c, NEW t
  PROVE  /\ SelectPages(want, c, t) \subseteq DatePages(MatchingSql(want, c, t))
         /\ ListPages(want, c) \subseteq DatePages(Matching(want, c))
<1>1. ASSUME NEW j \in Rows PROVE made[j] \in Nat
  BY <1>1 DEF Time
<1>2. ASSUME NEW i \in Rows, NEW j \in Rows
      PROVE  (Newest(i, j) \/ NewestSql(i, j)) => made[i] >= made[j]
  <2>1. TextBefore(IsoFormat(made[j]), IsoFormat(made[i])) <=> made[j] < made[i]
    BY <1>1, TextIsTime
  <2> QED
    BY <1>1, <2>1 DEF Newest, NewestSql
<1>3. MatchingSql(want, c, t) \subseteq Rows /\ Matching(want, c) \subseteq Rows
  BY DEF MatchingSql, Matching
<1>4. SelectPages(want, c, t) \subseteq DatePages(MatchingSql(want, c, t))
  <2> DEFINE M == MatchingSql(want, c, t)
  <2>1. ASSUME NEW i \in M, NEW j \in M PROVE NewestSql(i, j) => made[i] >= made[j]
    BY <1>2, <1>3
  <2> HIDE DEF M
  <2>2. Pages(M, {p \in M \X M : NewestSql(p[1], p[2])}) \subseteq DatePages(M)
    BY <2>1 DEF Pages, DatePages, ByDate
  <2> QED
    BY <2>2 DEF M, SelectPages
<1>5. ListPages(want, c) \subseteq DatePages(Matching(want, c))
  <2> DEFINE M == Matching(want, c)
  <2>1. ASSUME NEW i \in M, NEW j \in M PROVE Newest(i, j) => made[i] >= made[j]
    BY <1>2, <1>3
  <2> HIDE DEF M
  <2>2. Pages(M, {p \in M \X M : Newest(p[1], p[2])}) \subseteq DatePages(M)
    BY <2>1 DEF Pages, DatePages, ByDate
  <2> QED
    BY <2>2 DEF M, ListPages
<1> QED
  BY <1>4, <1>5

On(j, s) == \E i \in DOMAIN s : s[i] = j

LEMMA PageFacts ==
  ASSUME NEW M, \A j \in M : made[j] \in Nat, NEW s \in DatePages(M)
  PROVE  /\ s \in Seq(M) /\ DOMAIN s = 1 .. Len(s) /\ Len(s) \in 0 .. PageLimit
         /\ \A i, k \in DOMAIN s : i < k => s[i] # s[k] /\ made[s[i]] >= made[s[k]]
         /\ \A j \in M : ~On(j, s) => Len(s) = PageLimit /\ \A i \in DOMAIN s : made[s[i]] >= made[j]
<1>1. PICK n \in 0 .. PageLimit : s \in [1 .. n -> M]
  BY DEF DatePages, Pages, SeqOf
<1>2. n \in Nat /\ s \in Seq(M) /\ Len(s) = n /\ DOMAIN s = 1 .. n
  BY <1>1, ConstantsAssumption
<1> DEFINE Rest(i) == M \ {s[k] : k \in 1 .. i - 1}
<1>3. /\ \A i \in DOMAIN s : s[i] \in Rest(i) /\ \A j \in Rest(i) \ {s[i]} : made[s[i]] >= made[j]
      /\ Len(s) < PageLimit => Rest(Len(s) + 1) = {}
  BY DEF DatePages, Pages, ByDate
<1>4. ASSUME NEW i \in DOMAIN s, NEW k \in DOMAIN s, i < k
      PROVE  s[i] # s[k] /\ made[s[i]] >= made[s[k]]
  <2>1. i \in 1 .. k - 1 /\ \A m \in 1 .. i - 1 : m \in 1 .. k - 1
    BY <1>2, <1>4
  <2>2. s[k] \in Rest(i) \ {s[i]}
    BY <1>3, <2>1
  <2> QED
    BY <1>3, <2>2
<1>5. ASSUME NEW j \in M, ~On(j, s)
      PROVE  Len(s) = PageLimit /\ \A i \in DOMAIN s : made[s[i]] >= made[j]
  <2>1. ASSUME NEW i \in 1 .. n + 1 PROVE j \in Rest(i)
    <3>1. \A k \in 1 .. i - 1 : k \in DOMAIN s
      BY <1>2
    <3> QED
      BY <1>5, <3>1 DEF On
  <2>2. j \in Rest(Len(s) + 1)
    <3>1. Len(s) + 1 \in 1 .. n + 1
      BY <1>2
    <3> QED
      BY <2>1, <3>1
  <2>3. ~(Len(s) < PageLimit)
    BY <1>3, <2>2
  <2>4. Len(s) = PageLimit
    BY <1>1, <1>2, <2>3, ConstantsAssumption
  <2>5. \A i \in DOMAIN s : j \in Rest(i) \ {s[i]}
    BY <1>2, <1>5, <2>1 DEF On
  <2> QED
    BY <1>3, <2>4, <2>5
<1> QED
  BY <1>1, <1>2, <1>4, <1>5

(* More places than values: two places have the same.                       *)
LEMMA Pigeons ==
  ASSUME NEW n \in Nat, NEW m \in Nat, m < n, NEW f \in [1 .. n -> 1 .. m]
  PROVE  \E a, b \in 1 .. n : a # b /\ f[a] = f[b]
<1>1. \A k \in Nat : IsFiniteSet(1 .. k) /\ Cardinality(1 .. k) = IF 1 > k THEN 0 ELSE k - 1 + 1
  BY FS_Interval
<1>2. \A k \in Nat : (IF 1 > k THEN 0 ELSE k - 1 + 1) = k
  OBVIOUS
<1>3. IsFiniteSet(1 .. n) /\ IsFiniteSet(1 .. m) /\ Cardinality(1 .. m) < Cardinality(1 .. n)
  BY <1>1, <1>2
<1> QED
  BY <1>3, FS_PigeonHole, Zenon

(* Two pages by date of the same jobs have the same dates: a newer date at  *)
(* some place of the one would need as many newer jobs before that place of *)
(* the other, where there is one place less.                                *)
LEMMA NoNewer ==
  ASSUME NEW M, \A j \in M : made[j] \in Nat,
         NEW s \in DatePages(M), NEW r \in DatePages(M),
         NEW i \in DOMAIN s, i \in DOMAIN r
  PROVE  made[r[i]] >= made[s[i]]
<1> SUFFICES ASSUME made[s[i]] > made[r[i]]
             PROVE  FALSE
  <2>1. s[i] \in M /\ r[i] \in M
    BY PageFacts
  <2>2. made[s[i]] \in Nat /\ made[r[i]] \in Nat
    BY <2>1
  <2> QED
    BY <2>2
<1>1. /\ s \in Seq(M) /\ DOMAIN s = 1 .. Len(s) /\ Len(s) \in Nat
      /\ \A a, b \in DOMAIN s : a < b => s[a] # s[b] /\ made[s[a]] >= made[s[b]]
  BY PageFacts, ConstantsAssumption
<1>2. /\ r \in Seq(M) /\ DOMAIN r = 1 .. Len(r) /\ Len(r) \in Nat
      /\ \A a, b \in DOMAIN r : a < b => made[r[a]] >= made[r[b]]
      /\ \A j \in M : ~On(j, r) => \A k \in DOMAIN r : made[r[k]] >= made[j]
  BY PageFacts, ConstantsAssumption
<1>3. \A k \in DOMAIN s : s[k] \in M /\ made[s[k]] \in Nat
  BY <1>1
<1>4. \A k \in DOMAIN r : r[k] \in M /\ made[r[k]] \in Nat
  BY <1>2
<1>5. ASSUME NEW a \in 1 .. i
      PROVE  \E k \in 1 .. i - 1 : r[k] = s[a]
  <2>1. a \in DOMAIN s /\ s[a] \in M /\ made[s[a]] >= made[s[i]]
    <3>1. a \in DOMAIN s /\ (a = i \/ a < i)
      BY <1>1, <1>5
    <3> QED
      BY <1>1, <1>3, <3>1
  <2>2. made[s[a]] > made[r[i]]
    BY <1>3, <1>4, <2>1
  <2>3. PICK k \in DOMAIN r : r[k] = s[a]
    BY <1>2, <1>3, <1>4, <2>1, <2>2 DEF On
  <2>4. k < i
    <3>1. i < k => made[r[i]] >= made[r[k]]
      BY <1>2
    <3>2. k # i /\ ~(i < k)
      BY <1>4, <2>2, <2>3, <3>1
    <3> QED
      BY <1>2, <3>2
  <2> QED
    BY <1>2, <2>3, <2>4
<1>6. PICK f \in [1 .. i -> 1 .. i - 1] : \A a \in 1 .. i : r[f[a]] = s[a]
  <2> DEFINE f == [a \in 1 .. i |-> CHOOSE k \in 1 .. i - 1 : r[k] = s[a]]
  <2>1. \A a \in 1 .. i : f[a] \in 1 .. i - 1 /\ r[f[a]] = s[a]
    BY <1>5
  <2> QED
    BY <2>1
<1>7. i \in Nat /\ i - 1 \in Nat /\ i - 1 < i
  BY <1>1
<1>8. PICK a \in 1 .. i, b \in 1 .. i : a # b /\ f[a] = f[b]
  BY <1>6, <1>7, Pigeons
<1>9. s[a] = s[b] /\ a \in DOMAIN s /\ b \in DOMAIN s /\ (a < b \/ b < a)
  BY <1>1, <1>6, <1>8
<1> QED
  BY <1>1, <1>9

(* And a page is no shorter than another.                                   *)
LEMMA NoShorter ==
  ASSUME NEW M, \A j \in M : made[j] \in Nat,
         NEW s \in DatePages(M), NEW r \in DatePages(M)
  PROVE  Len(s) <= Len(r)
<1> SUFFICES ASSUME Len(r) < Len(s)
             PROVE  FALSE
  <2>1. Len(s) \in Nat /\ Len(r) \in Nat
    BY PageFacts, ConstantsAssumption
  <2> QED
    BY <2>1
<1>1. /\ s \in Seq(M) /\ DOMAIN s = 1 .. Len(s) /\ Len(s) \in 0 .. PageLimit /\ Len(s) \in Nat
      /\ \A a, b \in DOMAIN s : a < b => s[a] # s[b]
  BY PageFacts, ConstantsAssumption
<1>2. DOMAIN r = 1 .. Len(r) /\ Len(r) \in Nat /\ \A j \in M : ~On(j, r) => Len(r) = PageLimit
  BY PageFacts, ConstantsAssumption
<1>3. \A j \in M : On(j, r)
  BY <1>1, <1>2, ConstantsAssumption
<1>4. PICK f \in [1 .. Len(s) -> 1 .. Len(r)] : \A a \in DOMAIN s : r[f[a]] = s[a]
  <2> DEFINE f == [a \in DOMAIN s |-> CHOOSE k \in DOMAIN r : r[k] = s[a]]
  <2>1. \A a \in DOMAIN s : s[a] \in M
    BY <1>1
  <2>2. \A a \in DOMAIN s : f[a] \in DOMAIN r /\ r[f[a]] = s[a]
    BY <1>3, <2>1 DEF On
  <2> QED
    BY <1>1, <1>2, <2>2
<1>5. PICK a \in 1 .. Len(s), b \in 1 .. Len(s) : a # b /\ f[a] = f[b]
  <2>1. Len(s) \in Nat /\ Len(r) \in Nat /\ Len(r) < Len(s)
    BY <1>1, <1>2
  <2> QED
    BY <1>4, <2>1, Pigeons, Zenon
<1>6. s[a] = s[b] /\ (a < b \/ b < a)
  BY <1>1, <1>4, <1>5
<1> QED
  BY <1>1, <1>6

LEMMA SameDates ==
  ASSUME NEW M, \A j \in M : made[j] \in Nat,
         NEW s \in DatePages(M), NEW r \in DatePages(M)
  PROVE  Dates(s) = Dates(r)
<1>1. Len(s) = Len(r) /\ DOMAIN s = DOMAIN r
  <2>1. Len(s) <= Len(r) /\ Len(r) <= Len(s)
    BY NoShorter
  <2>2. Len(s) \in Nat /\ Len(r) \in Nat
    BY PageFacts, ConstantsAssumption
  <2>3. DOMAIN s = 1 .. Len(s) /\ DOMAIN r = 1 .. Len(r)
    BY PageFacts
  <2>4. \A m, n \in Nat : m <= n /\ n <= m => m = n
    OBVIOUS
  <2>5. Len(s) = Len(r)
    BY <2>1, <2>2, <2>4, Zenon
  <2> QED
    BY <2>3, <2>5
<1>2. ASSUME NEW i \in DOMAIN s
      PROVE  made[s[i]] = made[r[i]]
  <2>1. made[r[i]] >= made[s[i]] /\ made[s[i]] >= made[r[i]]
    BY <1>1, NoNewer
  <2>2. s[i] \in M /\ r[i] \in M
    BY <1>1, PageFacts
  <2>3. made[s[i]] \in Nat /\ made[r[i]] \in Nat
    BY <2>2
  <2> QED
    BY <2>1, <2>3
<1> QED
  BY <1>1, <1>2 DEF Dates

-----------------------------------------------------------------------------
(* The table.                                                               *)

(* An update_status that is called lands before the result it records       *)
(* expires.                                                                 *)
Lands(w, t) == IF w.status \in Terminal THEN w.expires \in Nat /\ t < w.expires
                                        ELSE w.expires = NoTime

(* While nobody cancels a job, only its run writes, one call at a time, and *)
(* nothing once it has recorded an outcome.                                 *)
Alone(j) ==
  /\ status[j] \in Terminal => run[j] = "over"
  /\ run[j] \notin {"marking", "recording"} => writes[j] = << >>
  /\ run[j] \in {"marking", "recording"} => Len(writes[j]) = 1 /\ writes[j][1].by = "run"
  /\ run[j] = "marking" => writes[j][1].status = "processing"

(* The rows are the jobs that were created, each once.                      *)
Row(j) ==
  /\ j \in Rows <=> status[j] # "absent"
  /\ j \in Rows => made[j] # NoTime
  /\ j \notin Rows => run[j] = "none" /\ stop[j] = "none" /\ writes[j] = << >>
  /\ \A i \in DOMAIN writes[j] : Lands(writes[j][i], now)
  /\ stop[j] = "none" => Alone(j)

TableInv == TypeOK /\ \A j \in Jobs : Row(j)

(* What one step can do to a row, as its readers see it.  Only the row of a *)
(* cancelled job is written again once it has an outcome.                   *)
Untouched(j) == /\ status'[j] = status[j] /\ expires'[j] = expires[j]
                /\ made'[j] = made[j] \/ j \notin Rows
                /\ j \in Rows' <=> j \in Rows
                /\ stop[j] # "none" => stop'[j] # "none"

Inserted(j) == /\ j \notin Rows /\ j \in Rows' /\ made'[j] = made[j]
               /\ status[j] = "absent" /\ status'[j] = "pending" /\ expires'[j] = NoTime

Written(j) == /\ j \in Rows /\ j \in Rows' /\ made'[j] = made[j]
              /\ status[j] # "absent" /\ status'[j] \in {"processing"} \cup Terminal
              /\ IF status'[j] \in Terminal THEN expires'[j] \in Nat /\ now < expires'[j]
                                            ELSE expires'[j] = NoTime
              /\ stop[j] # "none" => stop'[j] # "none"
              /\ stop[j] = "none" => status[j] \notin Terminal

(* A step of the clock or of a writer, and a step of the reader.            *)
WriterMoves ==
  /\ UNCHANGED callVars
  /\ \/ now' = now + 1 /\ \A j \in Jobs : Untouched(j)
     \/ now' = now /\ \A j \in Jobs : Untouched(j) \/ Inserted(j) \/ Written(j)

ReaderMoves == UNCHANGED <<now, rowVars>> /\ (Ask \/ Select \/ Answer)

-----------------------------------------------------------------------------
(* A call.                                                                  *)

(* The job passes the filters at the instant the reader's clock was read.   *)
MatchAt(j) ==
  /\ j \in Rows
  /\ Passes(j, ApplyExpiry(status[j], expires[j], query.asked), query.want, NoFilter)

(* What is displayed is seen, and of a job that was seen there is a row.    *)
Watched == /\ query.asked <= now
           /\ \A j \in Jobs : /\ Displayed(j) \in seen[j]
                              /\ seen[j] \subseteq {"absent"} \/ j \in Rows

(* Before its statements run: a job that will be selected has matched, and  *)
(* one that has matched all along will be.                                  *)
AskedInv ==
  \A j \in Jobs : /\ MatchAt(j) => j \in Ever
                  /\ j \in Always => MatchAt(j)

(* After: an outcome is still as it was when the statements ran, or the job *)
(* is cancelled; and what the row will be shown as has been displayed, or   *)
(* would have been, had the row not been written over.                      *)
Snapshot(i) ==
  LET j == query.rows[i]  s == query.status[i]  e == query.expires[i] IN
  /\ j \in Rows /\ s \in Terminal \cup Unfinished /\ (e # NoTime <=> s \in Terminal)
  /\ s \in Terminal => (status[j] = s /\ expires[j] = e) \/ stop[j] # "none"
  /\ \/ ApplyExpiry(s, e, now) \in seen[j]
     \/ ApplyExpiry(s, e, now) = "expired" /\ stop[j] # "none" /\ e # expires[j]
  /\ query.job = NoFilter => Passes(j, ApplyExpiry(s, e, query.asked), query.want, NoFilter)

FullPage == \A j \in Always :
  \/ On(j, query.rows)
  \/ Len(query.rows) = PageLimit /\ \A i \in DOMAIN query.rows : made[query.rows[i]] >= made[j]

SelectedInv ==
  /\ \E S : Always \subseteq S /\ S \subseteq Ever /\ IsFiniteSet(S) /\ query.total = Cardinality(S)
  /\ DOMAIN query.status = DOMAIN query.rows /\ DOMAIN query.expires = DOMAIN query.rows
  /\ \A i \in DOMAIN query.rows : Snapshot(i)
  /\ query.job = NoFilter => FullPage

CallInv ==
  /\ phase = "idle" => query = NoQuery /\ \A j \in Jobs : seen[j] = {}
  /\ phase # "idle" => Watched
  /\ phase = "asked" => AskedInv
  /\ phase = "selected" => SelectedInv

-----------------------------------------------------------------------------
(* The table keeps its invariant, and each step is a summary's.             *)
RowTypes ==
  /\ now \in Time
  /\ order \in Seq(Jobs) /\ IsInjective(order)
  /\ status \in [Jobs -> Status]
  /\ made \in [Jobs -> Time \cup {NoTime}]
  /\ expires \in [Jobs -> Expiry \cup {NoTime}]
  /\ \A j \in Jobs : (expires[j] # NoTime) = (status[j] \in Terminal)
  /\ told \subseteq Hooked
  /\ run \in [Jobs -> Run] /\ stop \in [Jobs -> Stop]
  /\ writes \in [Jobs -> Seq(Write)]

Calls == [job : Polled \cup {NoFilter}, want : Wants \cup {NoFilter}, asked : Time, rows : Seq(Jobs), status : Seq(Status),
          expires : Seq(Expiry \cup {NoTime}), total : Nat]

LEMMA TypeParts ==
  TypeOK <=> /\ RowTypes /\ query \in Calls /\ phase \in {"idle", "asked", "selected"}
             /\ seen \in [Jobs -> SUBSET Display]
BY DEF TypeOK, RowTypes, Calls

LEMMA RowsFinite ==
  ASSUME order \in Seq(Jobs)
  PROVE  Rows \subseteq Jobs /\ IsFiniteSet(Rows)
<1>1. order \in [1 .. Len(order) -> Jobs] /\ Len(order) \in Nat
  OBVIOUS
<1>2. Rows \subseteq Jobs /\ order \in Surjection(1 .. Len(order), Rows)
  BY <1>1 DEF Rows, Surjection
<1> QED
  BY <1>1, <1>2, FS_NatSurjection DEF ExistsSurjection

LEMMA RowsAppend ==
  ASSUME order \in Seq(Jobs), IsInjective(order), NEW j \in Jobs, j \notin Rows,
         order' = Append(order, j)
  PROVE  order' \in Seq(Jobs) /\ IsInjective(order') /\ Rows' = Rows \cup {j}
<1>1. /\ order' \in Seq(Jobs) /\ Len(order) \in Nat
      /\ DOMAIN order = 1 .. Len(order) /\ DOMAIN order' = 1 .. Len(order) + 1
      /\ order'[Len(order) + 1] = j /\ \A i \in DOMAIN order : order'[i] = order[i]
  OBVIOUS
<1>2. /\ \A i \in DOMAIN order' : i \in DOMAIN order \/ i = Len(order) + 1
      /\ DOMAIN order \subseteq DOMAIN order' /\ Len(order) + 1 \in DOMAIN order'
  BY <1>1
<1>3. \A i \in DOMAIN order : order[i] # j
  BY DEF Rows
<1>4. IsInjective(order')
  BY <1>1, <1>2, <1>3 DEF IsInjective
<1>5. Rows' = Rows \cup {j}
  BY <1>1, <1>2 DEF Rows
<1> QED
  BY <1>1, <1>4, <1>5

LEMMA NewRecordStep ==
  ASSUME TableInv, NEW j \in Jobs, NewRecord(j)
  PROVE  RowTypes' /\ (\A k \in Jobs : Row(k)') /\ WriterMoves
<1>1. RowTypes /\ \A k \in Jobs : Row(k)
  BY TypeParts DEF TableInv
<1>2. Rows' = Rows
  BY DEF NewRecord, Rows
<1>3. j \notin Rows /\ now # NoTime
  BY <1>1, ConstantsAssumption DEF Row, NewRecord, RowTypes, Time
<1>4. RowTypes'
  BY <1>1, <1>2 DEF RowTypes, NewRecord
<1>5. ASSUME NEW k \in Jobs PROVE Row(k)' /\ Untouched(k)
  BY <1>1, <1>2, <1>3, <1>5 DEF Row, Alone, Lands, NewRecord, Untouched, RowTypes, callVars
<1> QED
  BY <1>4, <1>5 DEF NewRecord, WriterMoves, callVars

LEMMA CreateStep ==
  ASSUME TableInv, NEW j \in Jobs, Create(j)
  PROVE  RowTypes' /\ (\A k \in Jobs : Row(k)') /\ WriterMoves
<1>1. RowTypes /\ \A k \in Jobs : Row(k)
  BY TypeParts DEF TableInv
<1>2. /\ j \notin Rows /\ expires[j] = NoTime
      /\ run[j] = "none" /\ stop[j] = "none" /\ writes[j] = << >>
  BY <1>1 DEF Row, Create, RowTypes, Terminal
<1>3. order' \in Seq(Jobs) /\ IsInjective(order') /\ Rows' = Rows \cup {j}
  BY <1>1, <1>2, RowsAppend DEF Create, RowTypes
<1>4. RowTypes'
  BY <1>1, <1>2, <1>3 DEF RowTypes, Create, Status, Unfinished, Terminal, Run
<1>5. ASSUME NEW k \in Jobs
      PROVE  Row(k)' /\ (Untouched(k) \/ Inserted(k))
  <2>1. CASE k = j
    BY <1>1, <1>2, <1>3, <2>1 DEF Row, Alone, Create, Inserted, RowTypes, Terminal
  <2>2. CASE k # j
    BY <1>1, <1>2, <1>3, <2>2 DEF Row, Alone, Lands, Create, Untouched, RowTypes
  <2> QED
    BY <2>1, <2>2
<1> QED
  BY <1>4, <1>5 DEF Create, WriterMoves

(* A line of calls, one more, and one less.                                 *)
LEMMA LineAppend ==
  ASSUME NEW q \in Seq(Write), NEW w \in Write
  PROVE  /\ Append(q, w) \in Seq(Write)
         /\ \A i \in DOMAIN Append(q, w) : (i \in DOMAIN q /\ Append(q, w)[i] = q[i]) \/ Append(q, w)[i] = w
         /\ q = << >> => Len(Append(q, w)) = 1 /\ Append(q, w)[1] = w
OBVIOUS

LEMMA LineTail ==
  ASSUME NEW q \in Seq(Write), q # << >>
  PROVE  /\ Tail(q) \in Seq(Write) /\ 1 \in DOMAIN q /\ Head(q) = q[1] /\ Head(q) \in Write
         /\ \A i \in DOMAIN Tail(q) : i + 1 \in DOMAIN q /\ Tail(q)[i] = q[i + 1]
         /\ Len(q) = 1 => Tail(q) = << >>
<1>1. /\ Tail(q) \in Seq(Write) /\ 1 \in DOMAIN q /\ Head(q) = q[1] /\ Head(q) \in Write
      /\ \A i \in DOMAIN Tail(q) : i + 1 \in DOMAIN q /\ Tail(q)[i] = q[i + 1]
      /\ Len(Tail(q)) = Len(q) - 1
  OBVIOUS
<1>2. Len(q) = 1 => Len(Tail(q)) = 0
  BY <1>1
<1>3. \A s \in Seq(Write) : Len(s) = 0 => s = << >>
  OBVIOUS
<1> QED
  BY <1>1, <1>2, <1>3

(* A call of update_status, by whoever makes it.                            *)
LEMMA CallUpdateStep ==
  ASSUME TableInv, NEW j \in Jobs, NEW by \in {"run", "cancel"}, NEW s \in {"processing"} \cup Terminal,
         CallUpdate(j, by, s), run' \in [Jobs -> Run], stop' \in [Jobs -> Stop],
         \A k \in Jobs \ {j} : run'[k] = run[k] /\ stop'[k] = stop[k],
         j \in Rows, stop[j] # "none" => stop'[j] # "none",
         stop'[j] = "none" => /\ by = "run" /\ status[j] \notin Terminal /\ writes[j] = << >>
                              /\ run'[j] \in {"marking", "recording"}
                              /\ run'[j] = "marking" => s = "processing"
  PROVE  RowTypes' /\ (\A k \in Jobs : Row(k)') /\ WriterMoves
<1>1. RowTypes /\ \A k \in Jobs : Row(k)
  BY TypeParts DEF TableInv
<1>2. Rows' = Rows /\ UNCHANGED <<now, order, status, made, expires, told, callVars>>
  BY DEF CallUpdate, Rows
<1> DEFINE w == [by |-> by, status |-> s, expires |-> IF s \in Terminal THEN now + Ttl ELSE NoTime]
<1>3. now + Ttl \in Nat /\ now < now + Ttl /\ now + Ttl \in Expiry
  BY <1>1, ConstantsAssumption DEF RowTypes, Time, Expiry
<1>4. w \in Write /\ Lands(w, now) /\ w.by = by /\ w.status = s
  <2>1. w \in Write
    BY <1>3 DEF Write
  <2>2. Lands(w, now)
    BY <1>3 DEF Lands
  <2> QED
    BY <2>1, <2>2
<1>5. writes' = [writes EXCEPT ![j] = Append(writes[j], w)] /\ writes[j] \in Seq(Write)
  BY <1>1 DEF CallUpdate, RowTypes
<1> HIDE DEF w
<1>6. writes'[j] = Append(writes[j], w) /\ \A k \in Jobs \ {j} : writes'[k] = writes[k]
  BY <1>1, <1>5 DEF RowTypes
<1>7. /\ writes'[j] \in Seq(Write)
      /\ \A i \in DOMAIN writes'[j] : (i \in DOMAIN writes[j] /\ writes'[j][i] = writes[j][i]) \/ writes'[j][i] = w
      /\ writes[j] = << >> => Len(writes'[j]) = 1 /\ writes'[j][1] = w
  BY <1>4, <1>5, <1>6, LineAppend
<1>8. RowTypes'
  BY <1>1, <1>2, <1>5, <1>6, <1>7 DEF RowTypes
<1>9. ASSUME NEW k \in Jobs
      PROVE  Row(k)' /\ Untouched(k)
  <2>1. CASE k = j
    <3>1. \A i \in DOMAIN writes[j] : Lands(writes[j][i], now)
      BY <1>1 DEF Row
    <3>2. \A i \in DOMAIN writes'[j] : Lands(writes'[j][i], now')
      BY <1>2, <1>4, <1>7, <3>1
    <3>3. stop'[j] = "none" => Alone(j)'
      BY <1>2, <1>4, <1>7 DEF Alone
    <3>4. Row(j)'
      BY <1>1, <1>2, <3>2, <3>3 DEF Row
    <3> QED
      BY <1>2, <2>1, <3>4 DEF Untouched
  <2>2. CASE k # j
    <3>1. run'[k] = run[k] /\ stop'[k] = stop[k] /\ writes'[k] = writes[k]
      BY <1>6, <2>2
    <3> QED
      BY <1>1, <1>2, <3>1 DEF Row, Alone, Lands, Untouched
  <2> QED
    BY <2>1, <2>2
<1> QED
  BY <1>2, <1>8, <1>9 DEF WriterMoves

LEMMA CallMarkStep ==
  ASSUME TableInv, NEW j \in Jobs, CallMark(j)
  PROVE  RowTypes' /\ (\A k \in Jobs : Row(k)') /\ WriterMoves
<1>1. RowTypes /\ \A k \in Jobs : Row(k)
  BY TypeParts DEF TableInv
<1>2. /\ CallUpdate(j, "run", "processing") /\ stop' = stop
      /\ run' \in [Jobs -> Run] /\ run'[j] = "marking" /\ \A k \in Jobs \ {j} : run'[k] = run[k]
  BY <1>1 DEF CallMark, RowTypes, Run
<1>3. j \in Rows /\ (stop[j] = "none" => status[j] \notin Terminal /\ writes[j] = << >>)
  BY <1>1 DEF CallMark, Row, Alone
<1> QED
  BY <1>1, <1>2, <1>3, CallUpdateStep DEF RowTypes

LEMMA CallRecordStep ==
  ASSUME TableInv, NEW j \in Jobs, CallRecord(j)
  PROVE  RowTypes' /\ (\A k \in Jobs : Row(k)') /\ WriterMoves
<1>1. RowTypes /\ \A k \in Jobs : Row(k)
  BY TypeParts DEF TableInv
<1>2. PICK s \in Terminal : CallUpdate(j, "run", s)
  BY DEF CallRecord
<1>3. /\ stop' = stop
      /\ run' \in [Jobs -> Run] /\ run'[j] = "recording" /\ \A k \in Jobs \ {j} : run'[k] = run[k]
  BY <1>1 DEF CallRecord, RowTypes, Run
<1>4. j \in Rows /\ (stop[j] = "none" => status[j] \notin Terminal /\ writes[j] = << >>)
  BY <1>1 DEF CallRecord, Row, Alone
<1> QED
  BY <1>1, <1>2, <1>3, <1>4, CallUpdateStep DEF RowTypes

LEMMA CallCancelStep ==
  ASSUME TableInv, NEW j \in Jobs, CallCancel(j)
  PROVE  RowTypes' /\ (\A k \in Jobs : Row(k)') /\ WriterMoves
<1>1. RowTypes /\ \A k \in Jobs : Row(k)
  BY TypeParts DEF TableInv
<1>2. /\ CallUpdate(j, "cancel", "error") /\ run' = run /\ "error" \in Terminal
      /\ stop' \in [Jobs -> Stop] /\ stop'[j] = "writing" /\ \A k \in Jobs \ {j} : stop'[k] = stop[k]
  BY <1>1 DEF CallCancel, RowTypes, Stop, Terminal
<1>3. j \in Rows
  BY <1>1 DEF CallCancel, Row
<1> QED
  BY <1>1, <1>2, <1>3, CallUpdateStep DEF RowTypes

(* The run or a cancellation moves on and calls nothing.                    *)
LEMMA NoCallStep ==
  ASSUME TableInv, NEW j \in Jobs, RunStops(j) \/ Claim(j)
  PROVE  RowTypes' /\ (\A k \in Jobs : Row(k)') /\ WriterMoves
<1>1. RowTypes /\ \A k \in Jobs : Row(k)
  BY TypeParts DEF TableInv
<1>2. /\ UNCHANGED <<now, order, status, made, expires, told, writes, callVars>>
      /\ Rows' = Rows
  BY DEF RunStops, Claim, Rows
<1>3. /\ run' \in [Jobs -> Run] /\ stop' \in [Jobs -> Stop]
      /\ \A k \in Jobs \ {j} : run'[k] = run[k] /\ stop'[k] = stop[k]
      /\ stop[j] # "none" => stop'[j] # "none"
  BY <1>1 DEF RunStops, Claim, RowTypes, Run, Stop
<1>4. RowTypes'
  BY <1>1, <1>2, <1>3 DEF RowTypes
<1>5. j \in Rows
  BY <1>1 DEF RunStops, Claim, Row
<1>6. stop'[j] = "none" => Alone(j)'
  BY <1>1, <1>2 DEF RunStops, Claim, Row, Alone, RowTypes
<1>7. ASSUME NEW k \in Jobs
      PROVE  Row(k)' /\ Untouched(k)
  <2>1. CASE k = j
    BY <1>1, <1>2, <1>3, <1>5, <1>6, <2>1 DEF Row, Lands, Untouched
  <2>2. CASE k # j
    <3>1. run'[k] = run[k] /\ stop'[k] = stop[k]
      BY <1>3, <2>2
    <3> QED
      BY <1>1, <1>2, <3>1 DEF Row, Alone, Lands, Untouched
  <2> QED
    BY <2>1, <2>2
<1> QED
  BY <1>2, <1>4, <1>7 DEF WriterMoves

LEMMA UpdateStatusStep ==
  ASSUME TableInv, NEW j \in Jobs, UpdateStatus(j)
  PROVE  RowTypes' /\ (\A k \in Jobs : Row(k)') /\ WriterMoves
<1>1. RowTypes /\ \A k \in Jobs : Row(k)
  BY TypeParts DEF TableInv
<1>2. Rows' = Rows /\ UNCHANGED <<now, order, made, told, callVars>>
  BY DEF UpdateStatus, Rows
<1> DEFINE q == writes[j]
           w == Head(q)
<1>3. q \in Seq(Write) /\ q # << >>
  BY <1>1 DEF UpdateStatus, RowTypes
<1>4. /\ Tail(q) \in Seq(Write) /\ 1 \in DOMAIN q /\ w = q[1] /\ w \in Write
      /\ \A i \in DOMAIN Tail(q) : i + 1 \in DOMAIN q /\ Tail(q)[i] = q[i + 1]
      /\ Len(q) = 1 => Tail(q) = << >>
  BY <1>3, LineTail
<1>5. Lands(w, now)
  BY <1>1, <1>4 DEF Row
<1>6. /\ status' = [status EXCEPT ![j] = w.status]
      /\ expires' = [expires EXCEPT ![j] = w.expires]
      /\ writes' = [writes EXCEPT ![j] = Tail(q)]
  BY DEF UpdateStatus, Update
<1>7. /\ w.by = "run" => /\ stop' = stop
                         /\ run' = [run EXCEPT ![j] =
                              IF run[j] = "marking" /\ stop[j] = "none" THEN "providing" ELSE "over"]
      /\ w.by # "run" => run' = run /\ stop' = [stop EXCEPT ![j] = "stopped"]
  BY DEF UpdateStatus
<1> HIDE DEF w
<1>8. /\ w.status \in {"processing"} \cup Terminal /\ w.expires \in Expiry \cup {NoTime}
      /\ w.by \in {"run", "cancel"}
  BY <1>4 DEF Write
<1>9. (w.expires # NoTime) = (w.status \in Terminal) /\ w.status # "absent" /\ w.status \in Status
  BY <1>5, <1>8, ConstantsAssumption DEF Lands, Terminal, Status, Unfinished
<1>10. /\ run' \in [Jobs -> Run] /\ stop' \in [Jobs -> Stop]
       /\ \A k \in Jobs \ {j} : run'[k] = run[k] /\ stop'[k] = stop[k]
       /\ stop[j] # "none" => stop'[j] # "none"
  BY <1>1, <1>7, <1>8 DEF RowTypes, Run, Stop
<1>11. writes' \in [Jobs -> Seq(Write)] /\ writes'[j] = Tail(q) /\ \A k \in Jobs \ {j} : writes'[k] = writes[k]
  BY <1>1, <1>4, <1>6 DEF RowTypes
<1>12. RowTypes'
  BY <1>1, <1>2, <1>6, <1>8, <1>9, <1>10, <1>11 DEF RowTypes
<1>13. j \in Rows /\ status[j] # "absent" /\ status'[j] = w.status /\ expires'[j] = w.expires
  BY <1>1, <1>3, <1>6 DEF Row, RowTypes
<1>14. stop[j] = "none" => /\ run[j] \in {"marking", "recording"} /\ status[j] \notin Terminal
                           /\ Len(q) = 1 /\ w.by = "run"
                           /\ run[j] = "marking" => w.status = "processing"
  BY <1>1, <1>3, <1>4 DEF Row, Alone
<1>15. stop'[j] = "none" => Alone(j)'
  <2> SUFFICES ASSUME stop'[j] = "none" PROVE Alone(j)'
    OBVIOUS
  <2>1. stop[j] = "none" /\ w.by = "run"
    BY <1>10, <1>14
  <2>2. writes'[j] = << >> /\ run'[j] = IF run[j] = "marking" THEN "providing" ELSE "over"
    BY <1>1, <1>4, <1>7, <1>11, <1>14, <2>1 DEF RowTypes
  <2>3. status'[j] \in Terminal => run'[j] = "over"
    BY <1>13, <1>14, <2>1, <2>2 DEF Terminal
  <2> QED
    BY <2>2, <2>3 DEF Alone
<1>16. ASSUME NEW k \in Jobs
       PROVE  Row(k)' /\ (Untouched(k) \/ Written(k))
  <2>1. CASE k = j
    <3>1. \A i \in DOMAIN writes'[j] : Lands(writes'[j][i], now')
      BY <1>1, <1>2, <1>4, <1>11 DEF Row
    <3>2. Row(j)'
      BY <1>1, <1>2, <1>9, <1>13, <1>15, <3>1 DEF Row
    <3>3. Written(j)
      BY <1>2, <1>5, <1>8, <1>10, <1>13, <1>14 DEF Written, Lands
    <3> QED
      BY <2>1, <3>2, <3>3
  <2>2. CASE k # j
    <3>1. /\ run'[k] = run[k] /\ stop'[k] = stop[k] /\ writes'[k] = writes[k]
          /\ status'[k] = status[k] /\ expires'[k] = expires[k]
      BY <1>1, <1>6, <1>10, <1>11, <2>2 DEF RowTypes
    <3> QED
      BY <1>1, <1>2, <3>1 DEF Row, Alone, Lands, Untouched
  <2> QED
    BY <2>1, <2>2
<1> QED
  BY <1>2, <1>12, <1>16 DEF WriterMoves

LEMMA WebhookStatusStep ==
  ASSUME TableInv, NEW j \in Jobs, SetWebhookStatus(j)
  PROVE  RowTypes' /\ (\A k \in Jobs : Row(k)') /\ WriterMoves
<1>1. RowTypes /\ \A k \in Jobs : Row(k)
  BY TypeParts DEF TableInv
<1>2. Rows' = Rows
  BY DEF SetWebhookStatus, Rows
<1>3. RowTypes'
  BY <1>1 DEF RowTypes, SetWebhookStatus
<1>4. ASSUME NEW k \in Jobs PROVE Row(k)' /\ Untouched(k)
  BY <1>1, <1>2, <1>4 DEF Row, Alone, Lands, SetWebhookStatus, Untouched
<1> QED
  BY <1>3, <1>4 DEF SetWebhookStatus, WriterMoves

LEMMA TickStep ==
  ASSUME TableInv, Tick
  PROVE  RowTypes' /\ (\A k \in Jobs : Row(k)') /\ WriterMoves
<1>1. RowTypes /\ \A k \in Jobs : Row(k)
  BY TypeParts DEF TableInv
<1>2. Rows' = Rows
  BY DEF Tick, Rows, rowVars
<1>3. RowTypes'
  BY <1>1, ConstantsAssumption DEF RowTypes, Tick, rowVars, Time
<1>4. ASSUME NEW k \in Jobs PROVE Row(k)' /\ Untouched(k)
  <2>1. UNCHANGED <<status, made, expires, run, stop, writes>> /\ now \in Nat /\ now' = now + 1
    BY <1>1 DEF Tick, rowVars, RowTypes, Time
  <2>2. ASSUME NEW i \in DOMAIN writes[k] PROVE Lands(writes[k][i], now')
    <3>1. Lands(writes[k][i], now)
      BY <1>1, <2>2 DEF Row
    <3>2. writes[k][i].expires # NoTime => now + 1 < writes[k][i].expires
      BY <2>2 DEF Tick
    <3> QED
      BY <2>1, <3>1, <3>2, ConstantsAssumption DEF Lands
  <2> QED
    BY <1>1, <1>2, <2>1, <2>2 DEF Row, Alone, Untouched
<1> QED
  BY <1>3, <1>4 DEF Tick, WriterMoves

(* What a caller may be shown, and of which jobs.                           *)
LEMMA DisplayTypes ==
  ASSUME RowTypes, NEW j \in Jobs, Row(j)
  PROVE  Displayed(j) \in Display /\ (j \in Rows <=> Displayed(j) # "absent")
<1>1. status[j] \in Status /\ (j \in Rows <=> status[j] # "absent")
  BY DEF RowTypes, Row
<1> QED
  BY <1>1 DEF Displayed, ApplyExpiry, Status, Shown, Display, Terminal

(* The listing of a call, and the page it may be given.                     *)
LEMMA Selection ==
  ASSUME RowTypes, \A j \in Jobs : Row(j), NEW want, NEW c, NEW t \in Nat
  PROVE  /\ MatchingSql(want, c, t) =
              {j \in Rows : Passes(j, ApplyExpiry(status[j], expires[j], t), want, c)}
         /\ IsFiniteSet(MatchingSql(want, c, t)) /\ Cardinality(MatchingSql(want, c, t)) \in Nat
         /\ \A j \in MatchingSql(want, c, t) : j \in Jobs /\ made[j] \in Nat
         /\ SelectPages(want, c, t) \subseteq DatePages(MatchingSql(want, c, t))
<1>1. Rows \subseteq Jobs /\ IsFiniteSet(Rows)
  BY RowsFinite DEF RowTypes
<1>2. MatchingSql(want, c, t) =
        {j \in Rows : Passes(j, ApplyExpiry(status[j], expires[j], t), want, c)}
  BY <1>1, DisplaysAgree DEF RowTypes, MatchingSql
<1>3. MatchingSql(want, c, t) \in SUBSET Rows
  BY DEF MatchingSql
<1>4. IsFiniteSet(MatchingSql(want, c, t)) /\ Cardinality(MatchingSql(want, c, t)) \in Nat
  BY <1>1, <1>3, FS_Subset, FS_CardinalityType
<1>5. \A j \in Rows : j \in Jobs /\ made[j] # NoTime /\ made[j] \in Nat
  BY <1>1 DEF Row, RowTypes, Time
<1>6. SelectPages(want, c, t) \subseteq DatePages(MatchingSql(want, c, t))
  BY <1>5, PagesByDate DEF RowTypes
<1> QED
  BY <1>2, <1>3, <1>4, <1>5, <1>6

(* What the statements return: the rows of a page, or the one row asked for *)
(* or none.                                                                 *)
SelectedRows ==
  IF query.job \in Jobs THEN {IF query.job \in Rows THEN <<query.job>> ELSE << >>}
                        ELSE SelectPages(query.want, NoFilter, query.asked)

LEMMA SelectFacts ==
  ASSUME TableInv, Select
  PROVE  /\ UNCHANGED <<now, rowVars>> /\ phase = "asked" /\ phase' = "selected" /\ Watch
         /\ query' \in Calls /\ UNCHANGED <<query.job, query.want, query.asked>>
         /\ query'.total = Cardinality(MatchingSql(query.want, NoFilter, query.asked))
         /\ query'.rows \in SelectedRows
         /\ \A i \in DOMAIN query'.rows : query'.rows[i] \in Rows
         /\ DOMAIN query'.status = DOMAIN query'.rows /\ DOMAIN query'.expires = DOMAIN query'.rows
         /\ \A i \in DOMAIN query'.rows : /\ query'.status[i] = status[query'.rows[i]]
                                          /\ query'.expires[i] = expires[query'.rows[i]]
<1>1. RowTypes /\ (\A k \in Jobs : Row(k)) /\ query \in Calls
  BY TypeParts DEF TableInv
<1>2. PICK rows \in SelectedRows :
        query' = [query EXCEPT
          !.rows = rows,
          !.status = [i \in DOMAIN rows |-> status[rows[i]]],
          !.expires = [i \in DOMAIN rows |-> expires[rows[i]]],
          !.total = Cardinality(MatchingSql(query.want, NoFilter, query.asked))]
  BY DEF Select, SelectedRows
<1>3. query.asked \in Nat
  BY <1>1, ConstantsAssumption DEF Calls, Time
<1>4. Cardinality(MatchingSql(query.want, NoFilter, query.asked)) \in Nat
  BY <1>1, <1>3, Selection
<1>5. rows \in Seq(Rows) /\ DOMAIN rows = 1 .. Len(rows) /\ Len(rows) \in Nat
  <2>1. CASE query.job \in Jobs
    <3>1. \/ rows = <<query.job>> /\ query.job \in Rows
          \/ rows = << >>
      BY <1>2, <2>1 DEF SelectedRows
    <3>2. ASSUME NEW S, NEW j \in S
          PROVE  /\ <<j>> \in Seq(S) /\ DOMAIN <<j>> = 1 .. Len(<<j>>) /\ Len(<<j>>) \in Nat
                 /\ << >> \in Seq(S)
      BY <3>2
    <3>3. << >> \in Seq(Rows) /\ DOMAIN << >> = 1 .. Len(<< >>) /\ Len(<< >>) \in Nat
      OBVIOUS
    <3> QED
      BY <3>1, <3>2, <3>3
  <2>2. CASE query.job \notin Jobs
    <3> DEFINE M == MatchingSql(query.want, NoFilter, query.asked)
    <3>1. rows \in DatePages(M) /\ \A j \in M : made[j] \in Nat
      BY <1>1, <1>2, <1>3, <2>2, Selection DEF SelectedRows
    <3>2. M \subseteq Rows
      BY DEF MatchingSql
    <3> HIDE DEF M
    <3>3. rows \in Seq(M)
      BY <3>1, PageFacts
    <3> QED
      BY <3>2, <3>3
  <2> QED
    BY <2>1, <2>2
<1>6. /\ \A i \in DOMAIN rows : rows[i] \in Rows /\ rows[i] \in Jobs
      /\ rows \in Seq(Jobs)
  BY <1>1, <1>5, RowsFinite DEF RowTypes
<1> DEFINE st == [i \in DOMAIN rows |-> status[rows[i]]]
           ex == [i \in DOMAIN rows |-> expires[rows[i]]]
<1>7. st \in Seq(Status) /\ ex \in Seq(Expiry \cup {NoTime})
  BY <1>1, <1>5, <1>6 DEF RowTypes
<1>8. /\ DOMAIN st = DOMAIN rows /\ DOMAIN ex = DOMAIN rows
      /\ \A i \in DOMAIN rows : st[i] = status[rows[i]] /\ ex[i] = expires[rows[i]]
  OBVIOUS
<1> HIDE DEF st, ex
<1>9. /\ query' \in Calls /\ UNCHANGED <<query.job, query.want, query.asked>>
      /\ query'.rows = rows /\ query'.status = st /\ query'.expires = ex
      /\ query'.total = Cardinality(MatchingSql(query.want, NoFilter, query.asked))
  <2>1. query' = [query EXCEPT !.rows = rows, !.status = st, !.expires = ex,
                    !.total = Cardinality(MatchingSql(query.want, NoFilter, query.asked))]
    BY <1>2 DEF st, ex
  <2> QED
    BY <1>1, <1>4, <1>6, <1>7, <2>1 DEF Calls
<1>10. UNCHANGED <<now, rowVars>> /\ phase = "asked" /\ phase' = "selected" /\ Watch
  BY DEF Select
<1> QED
  BY <1>2, <1>6, <1>8, <1>9, <1>10

LEMMA AskFacts ==
  ASSUME TableInv, Ask
  PROVE  /\ UNCHANGED <<now, rowVars>> /\ phase = "idle" /\ phase' = "asked" /\ Watch
         /\ query' \in Calls /\ query'.asked = now
<1>1. RowTypes
  BY TypeParts DEF TableInv
<1> DEFINE call == [NoQuery EXCEPT !.asked = now]
<1>2. << >> \in Seq(Jobs) /\ << >> \in Seq(Status) /\ << >> \in Seq(Expiry \cup {NoTime})
  OBVIOUS
<1>3. call \in Calls /\ call.asked = now
  BY <1>1, <1>2 DEF NoQuery, Calls, RowTypes
<1> HIDE DEF call
<1>4. query' \in {[call EXCEPT !.job = j] : j \in Polled} \cup {[call EXCEPT !.want = s] : s \in Wants}
  BY DEF Ask, call
<1>5. query' \in Calls /\ query'.asked = now
  BY <1>3, <1>4 DEF Calls
<1>6. UNCHANGED <<now, rowVars>> /\ phase = "idle" /\ phase' = "asked" /\ Watch
  BY DEF Ask
<1> QED
  BY <1>5, <1>6

(* The watcher.                                                             *)
LEMMA WatchFacts ==
  ASSUME Watch, NEW j \in Jobs
  PROVE  seen'[j] = IF phase' = "idle" THEN {} ELSE seen[j] \cup {Displayed(j)'}
BY DEF Watch

LEMMA NextWatches ==
  ASSUME Next
  PROVE  Watch
BY DEF Next, Tick, NewRecord, Create, CallUpdate, CallMark, CallRecord, CallCancel, RunStops, Claim,
       UpdateStatus, SetWebhookStatus, Ask, Select, Answer

(* One step keeps the table's invariant, and is a writer's or a reader's.   *)
LEMMA TableStep ==
  ASSUME TableInv, Next
  PROVE  TableInv' /\ (WriterMoves \/ ReaderMoves)
<1>1. RowTypes /\ (\A k \in Jobs : Row(k)) /\ query \in Calls
      /\ phase \in {"idle", "asked", "selected"} /\ seen \in [Jobs -> SUBSET Display]
  BY TypeParts DEF TableInv
<1>2. /\ RowTypes' /\ (\A k \in Jobs : Row(k)') /\ (WriterMoves \/ ReaderMoves)
      /\ query' \in Calls /\ phase' \in {"idle", "asked", "selected"}
  <2>1. CASE Ask \/ Select \/ Answer
    <3>1. UNCHANGED <<now, rowVars>> /\ query' \in Calls /\ phase' \in {"idle", "asked", "selected"}
      <4>1. CASE Ask
        BY <4>1, AskFacts
      <4>2. CASE Select
        BY <4>2, SelectFacts
      <4>3. CASE Answer
        <5>1. << >> \in Seq(Jobs) /\ << >> \in Seq(Status) /\ << >> \in Seq(Expiry \cup {NoTime})
          OBVIOUS
        <5>2. NoQuery \in Calls
          BY <5>1, ConstantsAssumption DEF NoQuery, Calls, Time
        <5> QED
          BY <4>3, <5>2 DEF Answer
      <4> QED
        BY <2>1, <4>1, <4>2, <4>3
    <3>2. RowTypes' /\ \A k \in Jobs : Row(k)'
      BY <1>1, <3>1 DEF RowTypes, Row, Alone, Lands, Rows, rowVars
    <3> QED
      BY <2>1, <3>1, <3>2 DEF ReaderMoves
  <2>2. CASE ~(Ask \/ Select \/ Answer)
    <3>1. RowTypes' /\ (\A k \in Jobs : Row(k)') /\ WriterMoves
      BY <2>2, TickStep, NewRecordStep, CreateStep, CallMarkStep, CallRecordStep, CallCancelStep,
         NoCallStep, UpdateStatusStep, WebhookStatusStep DEF Next
    <3> QED
      BY <1>1, <3>1 DEF WriterMoves, callVars
  <2> QED
    BY <2>1, <2>2
<1>3. seen' \in [Jobs -> SUBSET Display]
  <2>1. \A j \in Jobs : Displayed(j)' \in Display
    BY <1>2 DEF RowTypes, Displayed, ApplyExpiry, Status, Shown, Display
  <2>2. \A j \in Jobs : (IF phase' = "idle" THEN {} ELSE seen[j] \cup {Displayed(j)'}) \in SUBSET Display
    BY <1>1, <2>1
  <2>3. seen' = [j \in Jobs |-> IF phase' = "idle" THEN {} ELSE seen[j] \cup {Displayed(j)'}]
    BY NextWatches DEF Watch
  <2> HIDE DEF Displayed
  <2> QED
    BY <2>2, <2>3
<1> QED
  BY <1>2, <1>3, TypeParts DEF TableInv, TypeOK, RowTypes, Calls

(* Every variable has its type, and the rows are what was written.          *)
THEOREM TableKept == Spec => []TableInv
<1>1. Init => TableInv
  <2> SUFFICES ASSUME Init PROVE TableInv
    OBVIOUS
  <2>1. /\ << >> \in Seq(Jobs) /\ << >> \in Seq(Status) /\ << >> \in Seq(Expiry \cup {NoTime})
        /\ Rows = {} /\ IsInjective(order)
    BY DEF Init, Rows, IsInjective
  <2>2. RowTypes
    <3>1. \A j \in Jobs : << >> \in Seq(Write)
      OBVIOUS
    <3>2. writes \in [Jobs -> Seq(Write)] /\ run \in [Jobs -> Run] /\ stop \in [Jobs -> Stop]
      BY <3>1 DEF Init, Run, Stop
    <3> QED
      BY <2>1, <3>2, ConstantsAssumption DEF Init, RowTypes, Time, Status, Terminal
  <2>3. query \in Calls
    BY <2>1, ConstantsAssumption DEF Init, NoQuery, Calls, Time
  <2>4. \A j \in Jobs : Row(j)
    BY <2>1 DEF Init, Row, Alone, Terminal
  <2> QED
    BY <2>2, <2>3, <2>4, TypeParts DEF Init, TableInv
<1>2. TableInv /\ [Next]_vars => TableInv'
  <2>1. ASSUME TableInv, UNCHANGED vars PROVE TableInv'
    BY <2>1 DEF TableInv, TypeOK, Row, Alone, Lands, Rows, vars, rowVars, callVars
  <2> QED
    BY <2>1, TableStep
<1> QED
  BY <1>1, <1>2, PTL DEF Spec

(* stats().  The rows of a group, and as many pairs of the group and a      *)
(* number: over any groups, the pairs are as many as the rows.              *)
Grouped(g) == {j \in Rows : Displayed(j) = g[1] /\ CapabilityOf[j] = g[2]}
Numbers(groups) == UNION {{g} \X (1 .. Cardinality(Grouped(g))) : g \in groups}
InGroups(groups) == {j \in Rows : <<Displayed(j), CapabilityOf[j]>> \in groups}

(* A bijection, point by point.                                             *)
LEMMA Numbering ==
  ASSUME NEW S, NEW T, NEW f \in Bijection(S, T)
  PROVE  /\ \A s \in S : f[s] \in T
         /\ \A s, r \in S : f[s] = f[r] => s = r
         /\ \A t \in T : \E s \in S : f[s] = t
<1>1. f \in [S -> T] /\ IsInjective(f) /\ \A t \in T : \E s \in S : f[s] = t
  BY DEF Bijection, Injection, Surjection
<1>2. DOMAIN f = S
  BY <1>1
<1> QED
  BY <1>1, <1>2 DEF IsInjective

LEMMA GroupsAddUp ==
  ASSUME order \in Seq(Jobs), NEW groups \in SUBSET (Shown \X Capabilities)
  PROVE  Cardinality(Numbers(groups)) = Cardinality(InGroups(groups))
<1>1. IsFiniteSet(Rows)
  BY RowsFinite
<1>2. IsFiniteSet(InGroups(groups)) /\ \A g : IsFiniteSet(Grouped(g))
  <2>1. InGroups(groups) \in SUBSET Rows /\ \A g : Grouped(g) \in SUBSET Rows
    BY DEF InGroups, Grouped
  <2> QED
    BY <1>1, <2>1, FS_Subset
<1> DEFINE n(g) == Cardinality(Grouped(g))
           nth(g) == CHOOSE f : f \in Bijection(1 .. n(g), Grouped(g))
<1>3. ASSUME NEW g
      PROVE  nth(g) \in Bijection(1 .. n(g), Grouped(g))
  <2>1. ExistsBijection(1 .. n(g), Grouped(g))
    BY <1>2, FS_CardinalityType
  <2> QED
    BY <2>1, Zenon DEF ExistsBijection
<1> HIDE DEF nth
<1>4. ASSUME NEW g
      PROVE  /\ \A i \in 1 .. n(g) : nth(g)[i] \in Grouped(g)
             /\ \A i, k \in 1 .. n(g) : nth(g)[i] = nth(g)[k] => i = k
             /\ \A j \in Grouped(g) : \E i \in 1 .. n(g) : nth(g)[i] = j
  <2> DEFINE Ns == 1 .. n(g)
             Gs == Grouped(g)
             f == nth(g)
  <2>1. f \in Bijection(Ns, Gs)
    BY <1>3
  <2> HIDE DEF Ns, Gs, f
  <2>2. /\ \A i \in Ns : f[i] \in Gs
        /\ \A i, k \in Ns : f[i] = f[k] => i = k
        /\ \A j \in Gs : \E i \in Ns : f[i] = j
    BY <2>1, Numbering
  <2> QED
    BY <2>2 DEF Ns, Gs, f
<1> HIDE DEF n
<1>5. \A g, i : <<g, i>> \in Numbers(groups) <=> g \in groups /\ i \in 1 .. n(g)
  BY DEF Numbers, n
<1>6. \A p \in Numbers(groups) : p = <<p[1], p[2]>> /\ p[1] \in groups /\ p[2] \in 1 .. n(p[1])
  BY DEF Numbers, n
<1>7. \A g \in groups : g = <<g[1], g[2]>>
  OBVIOUS
<1> DEFINE F == [p \in Numbers(groups) |-> nth(p[1])[p[2]]]
<1>8. ASSUME NEW p \in Numbers(groups)
      PROVE  F[p] \in InGroups(groups) /\ <<Displayed(F[p]), CapabilityOf[F[p]]>> = p[1]
  <2>1. F[p] \in Grouped(p[1])
    BY <1>4, <1>6
  <2> HIDE DEF F
  <2> QED
    BY <1>6, <1>7, <2>1 DEF Grouped, InGroups
<1>9. ASSUME NEW p \in Numbers(groups), NEW q \in Numbers(groups), F[p] = F[q]
      PROVE  p = q
  <2>1. p[1] = q[1]
    BY <1>8, <1>9
  <2>2. nth(p[1])[p[2]] = nth(p[1])[q[2]]
    BY <1>9, <2>1
  <2>3. p[2] = q[2]
    BY <1>4, <1>6, <2>1, <2>2
  <2> QED
    BY <1>6, <2>1, <2>3
<1>10. ASSUME NEW j \in InGroups(groups)
       PROVE  \E p \in Numbers(groups) : F[p] = j
  <2> DEFINE g == <<Displayed(j), CapabilityOf[j]>>
  <2>1. g \in groups /\ j \in Grouped(g)
    BY DEF InGroups, Grouped
  <2> HIDE DEF g
  <2>2. PICK i \in 1 .. n(g) : nth(g)[i] = j
    BY <1>4, <2>1
  <2>3. <<g, i>> \in Numbers(groups) /\ F[<<g, i>>] = j
    BY <1>5, <2>1, <2>2
  <2> QED
    BY <2>3
<1>11. F \in Bijection(Numbers(groups), InGroups(groups))
  <2>1. F \in [Numbers(groups) -> InGroups(groups)]
    BY <1>8
  <2> HIDE DEF F
  <2> QED
    BY <1>9, <1>10, <2>1 DEF Bijection, Injection, Surjection, IsInjective
<1>12. ExistsBijection(InGroups(groups), Numbers(groups))
  <2> HIDE DEF F
  <2> QED
    BY <1>11, Fun_ExistsBijSymmetric DEF ExistsBijection
<1> QED
  BY <1>2, <1>12, FS_Bijection

LEMMA StatsSame ==
  ASSUME RowTypes, \A j \in Jobs : Row(j)
  PROVE  StatsSql = Stats
<1>1. Rows \subseteq Jobs /\ IsFiniteSet(Rows) /\ now \in Nat /\ order \in Seq(Jobs)
  BY RowsFinite DEF RowTypes, Time
<1>2. \A j \in Rows : Displayed(j) \in Shown /\ CapabilityOf[j] \in Capabilities
  BY <1>1, ConstantsAssumption
     DEF RowTypes, Row, Displayed, ApplyExpiry, Shown, Status, Unfinished, Terminal
<1>3. ASSUME NEW g \in Shown \X Capabilities
      PROVE  MatchingSql(g[1], g[2], now) = Grouped(g)
  <2>1. g[1] \in Shown /\ g[2] \in Capabilities /\ g[1] # NoFilter /\ g[2] # NoFilter
    BY ConstantsAssumption
  <2>2. \A j \in Rows : Passes(j, Displayed(j), g[1], g[2]) <=>
                          Displayed(j) = g[1] /\ CapabilityOf[j] = g[2]
    BY <2>1 DEF Passes
  <2> HIDE DEF Displayed
  <2>3. MatchingSql(g[1], g[2], now) = {j \in Rows : Passes(j, Displayed(j), g[1], g[2])}
    BY <1>1, Selection DEF Displayed
  <2> QED
    BY <2>2, <2>3 DEF Grouped
<1> DEFINE n == [g \in Shown \X Capabilities |-> Cardinality(MatchingSql(g[1], g[2], now))]
           Sum(groups) == Cardinality(UNION {{g} \X (1 .. n[g]) : g \in groups})
<1>4. ASSUME NEW groups \in SUBSET (Shown \X Capabilities)
      PROVE  Sum(groups) = Cardinality(InGroups(groups))
  <2>1. \A g \in groups : n[g] = Cardinality(Grouped(g))
    BY <1>3
  <2> HIDE DEF n
  <2>2. UNION {{g} \X (1 .. n[g]) : g \in groups} = Numbers(groups)
    BY <2>1 DEF Numbers
  <2> QED
    BY <1>1, <2>2, GroupsAddUp
<1>5. Cardinality(Rows) = Len(order)
  <2>1. order \in [1 .. Len(order) -> Rows] /\ Len(order) \in Nat
    BY <1>1 DEF Rows
  <2>2. order \in Bijection(1 .. Len(order), Rows)
    BY <1>1, <2>1 DEF RowTypes, Bijection, Injection, Surjection, Rows
  <2> QED
    BY <2>1, <2>2, FS_CountingElements DEF ExistsBijection
<1>6. InGroups(Shown \X Capabilities) = Rows
  BY <1>2 DEF InGroups
<1>7. ASSUME NEW s \in Shown
      PROVE  InGroups({s} \X Capabilities) = {j \in Rows : Displayed(j) = s}
  BY <1>2 DEF InGroups
<1>8. ASSUME NEW c \in Capabilities
      PROVE  InGroups(Shown \X {c}) = {j \in Rows : CapabilityOf[j] = c}
  BY <1>2 DEF InGroups
<1>9. /\ Sum(Shown \X Capabilities) = Len(order)
      /\ \A s \in Shown : Sum({s} \X Capabilities) = Cardinality({j \in Rows : Displayed(j) = s})
      /\ \A c \in Capabilities :
           Sum(Shown \X {c}) = Cardinality({j \in Rows : CapabilityOf[j] = c})
  <2> HIDE DEF Sum
  <2>1. /\ Shown \X Capabilities \in SUBSET (Shown \X Capabilities)
        /\ \A s \in Shown : {s} \X Capabilities \in SUBSET (Shown \X Capabilities)
        /\ \A c \in Capabilities : Shown \X {c} \in SUBSET (Shown \X Capabilities)
    OBVIOUS
  <2> QED
    BY <1>4, <1>5, <1>6, <1>7, <1>8, <2>1
<1>10. StatsSql = [total |-> Sum(Shown \X Capabilities),
                   by_status |-> [s \in Shown |-> Sum({s} \X Capabilities)],
                   by_capability |-> [c \in Capabilities |-> Sum(Shown \X {c})]]
  BY DEF StatsSql
<1> HIDE DEF Sum
<1> QED
  BY <1>9, <1>10 DEF Stats

(* Whatever filter is asked for, SQLite selects the jobs the scan would, on *)
(* a page with the same dates, counts them alike, and gives the sweep the   *)
(* same candidates, and finished jobs with an empty webhook_url besides.    *)
THEOREM StoresAgreeAlways == Spec => []StoresAgree
<1>1. TableInv => StoresAgree
  <2> SUFFICES ASSUME TableInv PROVE StoresAgree
    OBVIOUS
  <2>1. RowTypes /\ \A j \in Jobs : Row(j)
    BY TypeParts DEF TableInv
  <2>2. Rows \subseteq Jobs /\ now \in Nat
    BY <2>1, RowsFinite DEF RowTypes, Time
  <2>3. /\ Candidates \subseteq CandidatesSql
        /\ CandidatesSql \ Candidates \subseteq {j \in Blank : status[j] \in Terminal}
    <3>1. \A j \in Rows : status[j] \in Terminal \cup Unfinished
      BY <2>1, <2>2 DEF RowTypes, Row, Status
    <3> QED
      BY <3>1 DEF CandidatesSql, Candidates, Displayed, ApplyExpiry, Unfinished, Terminal
  <2>4. ASSUME NEW want, NEW c
        PROVE  /\ MatchingSql(want, c, now) = Matching(want, c)
               /\ \A s \in SelectPages(want, c, now), r \in ListPages(want, c) : Dates(s) = Dates(r)
    <3>1. MatchingSql(want, c, now) = Matching(want, c)
      BY <2>1, <2>2, Selection DEF Matching, Displayed
    <3>2. \A j \in Matching(want, c) : made[j] \in Nat
      BY <2>1, <2>2, <3>1, Selection
    <3>3. \A j \in Rows : j \in Jobs /\ made[j] # NoTime
      BY <2>1, <2>2 DEF Row
    <3>4. /\ SelectPages(want, c, now) \subseteq DatePages(Matching(want, c))
          /\ ListPages(want, c) \subseteq DatePages(Matching(want, c))
      BY <2>1, <3>1, <3>3, PagesByDate DEF RowTypes
    <3> QED
      BY <3>1, <3>2, <3>4, SameDates
  <2>5. StatsSql = Stats
    BY <2>1, StatsSame
  <2> QED
    BY <2>3, <2>4, <2>5 DEF StoresAgree
<1> QED
  BY <1>1, TableKept, PTL

-----------------------------------------------------------------------------
(* A call keeps its invariant.                                              *)

(* What is shown of a row at two instants.                                  *)
LEMMA TimePasses ==
  ASSUME NEW s \in Status, NEW e \in Expiry \cup {NoTime}, NEW t \in Nat, NEW u \in Nat, t <= u
  PROVE  /\ ApplyExpiry(s, e, u) # ApplyExpiry(s, e, t) => ApplyExpiry(s, e, u) = "expired"
         /\ ApplyExpiry(s, e, t) = "expired" <=> s \in Terminal /\ e # NoTime /\ e <= t
         /\ e = NoTime \/ u < e => ApplyExpiry(s, e, t) = s /\ ApplyExpiry(s, e, u) = s
<1>1. e # NoTime => e \in Nat
  BY ConstantsAssumption DEF Expiry
<1>2. s # "expired"
  BY DEF Status, Terminal, Unfinished
<1> QED
  BY <1>1, <1>2 DEF ApplyExpiry

LEMMA NowRaises ==
  ASSUME TableInv, TableInv', WriterMoves
  PROVE  /\ now \in Nat /\ now' \in Nat /\ now <= now' /\ Rows \subseteq Rows' /\ Rows' \subseteq Jobs
         /\ \A j \in Jobs : Untouched(j) \/ (now' = now /\ (Inserted(j) \/ Written(j)))
<1>1. now \in Nat /\ now' \in Nat
  BY DEF TableInv, TypeOK, Time
<1>2. Rows \subseteq Jobs /\ Rows' \subseteq Jobs
  BY DEF TableInv, TypeOK, Rows
<1>3. \A j \in Jobs : Untouched(j) \/ (now' = now /\ (Inserted(j) \/ Written(j)))
  BY DEF WriterMoves
<1>4. Rows \subseteq Rows'
  BY <1>2, <1>3 DEF Untouched, Inserted, Written
<1>5. now <= now'
  BY <1>1 DEF WriterMoves
<1> QED
  BY <1>1, <1>2, <1>3, <1>4, <1>5

(* A job that is displayed has a row.                                       *)
LEMMA HasRow ==
  ASSUME TableInv, Watched
  PROVE  Always \subseteq Rows /\ Ever \subseteq Rows
<1>1. RowTypes /\ \A j \in Jobs : Row(j)
  BY TypeParts DEF TableInv
<1>2. \A j \in Jobs : Displayed(j) \in seen[j] /\ (Displayed(j) # "absent" => j \in Rows)
  BY <1>1, DisplayTypes DEF Watched
<1> HIDE DEF Displayed
<1> QED
  BY <1>2 DEF Watched, Always, Ever

(* A writer's step for the watcher.                                         *)
LEMMA WatchedKept ==
  ASSUME TableInv, TableInv', WriterMoves, Watch, phase # "idle", Watched
  PROVE  /\ Watched' /\ Always' \subseteq Always /\ Ever \subseteq Ever'
         /\ \A j \in Jobs :
              /\ seen[j] \subseteq seen'[j] /\ Displayed(j)' \in seen'[j]
              /\ j \in Always' => j \in Rows' /\ Passes(j, Displayed(j)', query.want, NoFilter)
              /\ j \in Rows' /\ Passes(j, Displayed(j)', query.want, NoFilter) => j \in Ever'
<1>1. phase' = phase /\ query' = query
  BY DEF WriterMoves, callVars
<1>2. ASSUME NEW j \in Jobs
      PROVE  seen'[j] = seen[j] \cup {Displayed(j)'}
  BY <1>1, WatchFacts
<1>3. ASSUME NEW j \in Jobs
      PROVE  j \in Rows' <=> Displayed(j)' # "absent"
  <2>1. status'[j] \in Status /\ (j \in Rows' <=> status'[j] # "absent")
    BY DEF TableInv, TypeOK, Row
  <2> QED
    BY <2>1 DEF Displayed, ApplyExpiry, Status, Shown, Terminal
<1>4. query.asked \in Nat
  BY DEF TableInv, TypeOK, Time
<1>5. query'.asked <= now'
  BY <1>1, <1>4, NowRaises DEF Watched
<1> HIDE DEF Displayed
<1>6. Watched'
  BY <1>2, <1>3, <1>5, NowRaises DEF Watched
<1>7. Always' \subseteq Always /\ Ever \subseteq Ever'
  BY <1>1, <1>2 DEF Always, Ever, Passes
<1>8. ASSUME NEW j \in Jobs
      PROVE  /\ j \in Always' => j \in Rows' /\ Passes(j, Displayed(j)', query.want, NoFilter)
             /\ j \in Rows' /\ Passes(j, Displayed(j)', query.want, NoFilter) => j \in Ever'
  BY <1>1, <1>2, <1>3 DEF Always, Ever, Passes
<1> QED
  BY <1>2, <1>6, <1>7, <1>8

LEMMA AskedKept ==
  ASSUME TableInv, TableInv', WriterMoves, Watch, phase = "asked", Watched, AskedInv
  PROVE  AskedInv'
<1>1. query' = query /\ query.asked \in Nat /\ query.asked <= now
  BY ConstantsAssumption DEF WriterMoves, callVars, TableInv, TypeOK, Time, Watched
<1>2. Always' \subseteq Always /\ Ever \subseteq Ever'
  BY WatchedKept
<1> SUFFICES ASSUME NEW j \in Jobs
             PROVE  /\ MatchAt(j)' => j \in Ever'
                    /\ j \in Always' => MatchAt(j)'
  BY DEF AskedInv
<1>3. /\ MatchAt(j) => j \in Ever
      /\ j \in Always => MatchAt(j)
  BY DEF AskedInv
<1>4. /\ j \in Always' => j \in Rows' /\ Passes(j, Displayed(j)', query.want, NoFilter)
      /\ j \in Rows' /\ Passes(j, Displayed(j)', query.want, NoFilter) => j \in Ever'
  BY WatchedKept
<1>5. status'[j] \in Status /\ expires'[j] \in Expiry \cup {NoTime}
  BY DEF TableInv, TypeOK
<1>6. now \in Nat /\ (Untouched(j) \/ (now' = now /\ (Inserted(j) \/ Written(j))))
  BY NowRaises
<1>7. CASE Untouched(j)
  <2>1. MatchAt(j)' <=> MatchAt(j)
    BY <1>1, <1>7 DEF Untouched, MatchAt, Passes
  <2> QED
    BY <1>2, <1>3, <2>1
<1>8. CASE now' = now /\ (Inserted(j) \/ Written(j))
  <2>1. expires'[j] = NoTime \/ now < expires'[j]
    BY <1>8 DEF Inserted, Written
  <2>2. /\ ApplyExpiry(status'[j], expires'[j], query.asked) = status'[j]
        /\ ApplyExpiry(status'[j], expires'[j], now) = status'[j]
    BY <1>1, <1>5, <1>6, <2>1, TimePasses
  <2>3. Displayed(j)' = ApplyExpiry(status'[j], expires'[j], query'.asked)
    BY <1>1, <1>8, <2>2 DEF Displayed
  <2>4. MatchAt(j)' <=> j \in Rows' /\ Passes(j, Displayed(j)', query.want, NoFilter)
    BY <1>1, <2>3 DEF MatchAt, Passes
  <2> QED
    BY <1>4, <2>4
<1> QED
  BY <1>6, <1>7, <1>8

LEMMA SelectedKept ==
  ASSUME TableInv, TableInv', WriterMoves, Watch, phase = "selected", Watched, SelectedInv
  PROVE  SelectedInv'
<1>1. /\ query' = query /\ query.rows \in Seq(Jobs) /\ query.status \in Seq(Status)
      /\ query.expires \in Seq(Expiry \cup {NoTime})
  BY DEF WriterMoves, callVars, TableInv, TypeOK
<1>2. Always' \subseteq Always /\ Ever \subseteq Ever' /\ Always \subseteq Rows
  BY WatchedKept, HasRow
<1>3. \E S : Always' \subseteq S /\ S \subseteq Ever' /\ IsFiniteSet(S) /\ query'.total = Cardinality(S)
  BY <1>1, <1>2 DEF SelectedInv
<1>4. ASSUME NEW i \in DOMAIN query.rows
      PROVE  Snapshot(i)' /\ made'[query.rows[i]] = made[query.rows[i]]
  <2> DEFINE j == query.rows[i]
             s == query.status[i]
             e == query.expires[i]
  <2>1. j \in Jobs /\ s \in Status /\ e \in Expiry \cup {NoTime}
    BY <1>1, <1>4 DEF SelectedInv
  <2>2. /\ j \in Rows /\ s \in Terminal \cup Unfinished /\ (e # NoTime <=> s \in Terminal)
        /\ s \in Terminal => (status[j] = s /\ expires[j] = e) \/ stop[j] # "none"
        /\ \/ ApplyExpiry(s, e, now) \in seen[j]
           \/ ApplyExpiry(s, e, now) = "expired" /\ stop[j] # "none" /\ e # expires[j]
        /\ query.job = NoFilter => Passes(j, ApplyExpiry(s, e, query.asked), query.want, NoFilter)
    BY <1>4, <2>1 DEF SelectedInv, Snapshot
  <2> HIDE DEF j, s, e
  <2>3. /\ now \in Nat /\ now' \in Nat /\ now <= now' /\ Rows \subseteq Rows'
        /\ Untouched(j) \/ (now' = now /\ Written(j))
        /\ e # NoTime => e \in Nat
    BY <2>1, <2>2, NowRaises, ConstantsAssumption DEF Inserted, Expiry
  <2>4. /\ s \in Terminal => (status'[j] = s /\ expires'[j] = e) \/ stop'[j] # "none"
        /\ stop[j] # "none" => stop'[j] # "none"
        /\ made'[j] = made[j]
    BY <2>2, <2>3 DEF Untouched, Written
  <2>5. /\ seen[j] \subseteq seen'[j]
        /\ ApplyExpiry(status'[j], expires'[j], now') \in seen'[j]
    BY <2>1, WatchedKept DEF Displayed, j
  <2>6. \/ ApplyExpiry(s, e, now') \in seen'[j]
        \/ ApplyExpiry(s, e, now') = "expired" /\ stop'[j] # "none" /\ e # expires'[j]
    <3>1. CASE ApplyExpiry(s, e, now') = ApplyExpiry(s, e, now) /\ Untouched(j)
      BY <2>2, <2>4, <2>5, <3>1 DEF Untouched
    <3>2. CASE now' = now /\ Written(j)
      <4>1. ApplyExpiry(s, e, now) = "expired" => e # NoTime /\ e <= now
        BY <2>1, <2>3, TimePasses
      <4>2. expires'[j] = NoTime \/ (expires'[j] \in Nat /\ now < expires'[j])
        BY <3>2 DEF Written
      <4>3. ApplyExpiry(s, e, now) = "expired" => e # expires'[j]
        BY <2>3, <4>1, <4>2
      <4> QED
        BY <2>2, <2>4, <2>5, <3>2, <4>3
    <3>3. CASE ApplyExpiry(s, e, now') # ApplyExpiry(s, e, now) /\ Untouched(j)
      <4>1. ApplyExpiry(s, e, now') = "expired"
        BY <2>1, <2>3, <3>3, TimePasses
      <4>2. s \in Terminal /\ e # NoTime
        BY <2>1, <2>3, <4>1, TimePasses
      <4>3. CASE status'[j] = s /\ expires'[j] = e
        BY <2>5, <4>3
      <4>4. CASE ~(status'[j] = s /\ expires'[j] = e)
        <5>1. stop'[j] # "none"
          BY <2>4, <4>2, <4>4
        <5>2. CASE expires'[j] # e
          BY <4>1, <5>1, <5>2
        <5>3. CASE expires'[j] = e
          <6>1. status'[j] \in Terminal
            BY <2>1, <4>2, <5>3 DEF TableInv, TypeOK
          <6>2. ApplyExpiry(status'[j], expires'[j], now') = "expired"
            BY <4>1, <4>2, <5>3, <6>1 DEF ApplyExpiry, Terminal
          <6> QED
            BY <2>5, <4>1, <6>2
        <5> QED
          BY <5>2, <5>3
      <4> QED
        BY <4>3, <4>4
    <3> QED
      BY <2>3, <3>1, <3>2, <3>3
  <2> QED
    BY <1>1, <2>2, <2>3, <2>4, <2>6 DEF Snapshot, j, s, e
<1>5. FullPage => FullPage'
  <2>1. ASSUME NEW j \in Always PROVE made'[j] = made[j]
    BY <1>2, <2>1, NowRaises DEF Untouched, Inserted, Written
  <2> QED
    BY <1>1, <1>2, <1>4, <2>1 DEF FullPage
<1> QED
  BY <1>1, <1>3, <1>4, <1>5 DEF SelectedInv

(* The call begins.                                                         *)
LEMMA AskBegins ==
  ASSUME TableInv, TableInv', CallInv, Ask
  PROVE  CallInv'
<1>1. /\ UNCHANGED <<now, rowVars>> /\ phase = "idle" /\ phase' = "asked" /\ Watch
      /\ query'.asked = now /\ now \in Nat
  BY AskFacts DEF TableInv, TypeOK, Time
<1>2. \A j \in Jobs : seen'[j] = {Displayed(j)'} /\ Displayed(j)' = ApplyExpiry(status'[j], expires'[j], query'.asked)
  BY <1>1, WatchFacts DEF CallInv, Displayed
<1>3. \A j \in Jobs : j \in Rows' <=> Displayed(j)' # "absent"
  <2>1. \A j \in Jobs : status'[j] \in Status /\ (j \in Rows' <=> status'[j] # "absent")
    BY DEF TableInv, TypeOK, Row
  <2> QED
    BY <2>1 DEF Displayed, ApplyExpiry, Status, Shown, Terminal
<1> HIDE DEF Displayed
<1>4. Watched'
  BY <1>1, <1>2, <1>3 DEF Watched
<1>5. AskedInv'
  BY <1>2, <1>3 DEF AskedInv, MatchAt, Ever, Always, Passes
<1> QED
  BY <1>1, <1>4, <1>5 DEF CallInv

(* Its statements run.                                                      *)
LEMMA SelectBegins ==
  ASSUME TableInv, TableInv', CallInv, Select
  PROVE  CallInv'
<1>1. /\ UNCHANGED <<now, rowVars>> /\ phase = "asked" /\ phase' = "selected" /\ Watch
      /\ UNCHANGED <<query.job, query.want, query.asked>>
      /\ query'.total = Cardinality(MatchingSql(query.want, NoFilter, query.asked))
      /\ query'.rows \in SelectedRows
      /\ \A i \in DOMAIN query'.rows : query'.rows[i] \in Rows
      /\ DOMAIN query'.status = DOMAIN query'.rows /\ DOMAIN query'.expires = DOMAIN query'.rows
      /\ \A i \in DOMAIN query'.rows : /\ query'.status[i] = status[query'.rows[i]]
                                       /\ query'.expires[i] = expires[query'.rows[i]]
  BY SelectFacts
<1>2. Watched /\ AskedInv
  BY <1>1 DEF CallInv
<1>3. /\ RowTypes /\ \A j \in Jobs : Row(j)
      /\ query.asked \in Nat /\ now \in Nat /\ Rows \subseteq Jobs /\ Always \subseteq Jobs
  BY TypeParts, RowsFinite DEF TableInv, TypeOK, RowTypes, Time, Always
<1>4. Rows' = Rows /\ \A j \in Jobs : Displayed(j)' = Displayed(j)
  BY <1>1 DEF Rows, Displayed, rowVars
<1>5. ASSUME NEW j \in Jobs
      PROVE  seen'[j] = seen[j]
  <2>1. seen'[j] = seen[j] \cup {Displayed(j)'} /\ Displayed(j)' = Displayed(j) /\ Displayed(j) \in seen[j]
    BY <1>1, <1>2, <1>4, WatchFacts DEF Watched
  <2> HIDE DEF Displayed
  <2> QED
    BY <2>1
<1>6. Ever' = Ever /\ Always' = Always
  BY <1>1, <1>5 DEF Ever, Always, Passes
<1>7. Watched'
  <2> HIDE DEF Displayed
  <2> QED
    BY <1>1, <1>2, <1>4, <1>5 DEF Watched
<1> DEFINE M == MatchingSql(query.want, NoFilter, query.asked)
<1>8. /\ M = {j \in Rows : MatchAt(j)} /\ IsFiniteSet(M)
      /\ \A j \in M : j \in Jobs /\ made[j] \in Nat
      /\ SelectPages(query.want, NoFilter, query.asked) \subseteq DatePages(M)
  BY <1>3, Selection DEF MatchAt
<1> HIDE DEF M
<1>9. Always \subseteq M /\ M \subseteq Ever
  BY <1>2, <1>3, <1>8 DEF AskedInv, MatchAt
<1>10. query.job = NoFilter => query'.rows \in DatePages(M)
  BY <1>1, <1>8, ConstantsAssumption DEF SelectedRows
<1>11. \E S : Always' \subseteq S /\ S \subseteq Ever' /\ IsFiniteSet(S) /\ query'.total = Cardinality(S)
  BY <1>1, <1>6, <1>8, <1>9 DEF M
<1>12. ASSUME NEW i \in DOMAIN query'.rows
       PROVE  Snapshot(i)'
  <2> DEFINE j == query'.rows[i]
             s == query'.status[i]
             e == query'.expires[i]
  <2>1. j \in Rows /\ j \in Rows' /\ j \in Jobs /\ s = status[j] /\ e = expires[j]
    BY <1>1, <1>3, <1>4, <1>12
  <2>2. query.job = NoFilter => j \in M
    <3>1. ASSUME query.job = NoFilter PROVE query'.rows \in Seq(M)
      BY <1>8, <1>10, <3>1, PageFacts
    <3> QED
      BY <1>12, <3>1
  <2>3. query'.job = NoFilter => Passes(j, ApplyExpiry(s, e, query'.asked), query'.want, NoFilter)
    BY <1>1, <1>8, <2>1, <2>2 DEF MatchAt
  <2> HIDE DEF j, s, e
  <2>4. s \in Terminal \cup Unfinished /\ (e # NoTime <=> s \in Terminal)
    BY <1>3, <2>1 DEF RowTypes, Row, Status
  <2>5. status'[j] = s /\ expires'[j] = e /\ now' = now
    BY <1>1, <2>1 DEF rowVars
  <2>6. ApplyExpiry(s, e, now') \in seen'[j]
    BY <1>2, <1>5, <2>1, <2>5 DEF Watched, Displayed
  <2> QED
    BY <2>1, <2>3, <2>4, <2>5, <2>6 DEF Snapshot, j, s, e
<1>13. query'.job = NoFilter => FullPage'
  <2> SUFFICES ASSUME query.job = NoFilter, NEW j \in Always', ~On(j, query'.rows)
               PROVE  /\ Len(query'.rows) = PageLimit
                      /\ \A i \in DOMAIN query'.rows : made'[query'.rows[i]] >= made'[j]
    BY <1>1 DEF FullPage, On
  <2>1. j \in M /\ query'.rows \in DatePages(M) /\ made' = made
    BY <1>1, <1>6, <1>9, <1>10 DEF rowVars
  <2> QED
    BY <1>8, <2>1, PageFacts
<1> QED
  BY <1>1, <1>7, <1>11, <1>12, <1>13 DEF CallInv, SelectedInv

THEOREM CallsKept == Spec => [](TableInv /\ CallInv)
<1>1. Init => CallInv
  BY DEF Init, CallInv
<1>2. TableInv /\ TableInv' /\ CallInv /\ [Next]_vars => CallInv'
  <2> SUFFICES ASSUME TableInv, TableInv', CallInv, [Next]_vars
               PROVE  CallInv'
    OBVIOUS
  <2>1. CASE UNCHANGED vars
    <3>1. UNCHANGED <<now, order, status, made, expires, stop, query, phase, seen>>
      BY <2>1 DEF vars, rowVars, callVars
    <3>2. Rows' = Rows /\ Ever' = Ever /\ Always' = Always /\ (\A j \in Jobs : Displayed(j)' = Displayed(j))
      BY <3>1 DEF Rows, Ever, Always, Displayed
    <3>3. Watched => Watched'
      <4> HIDE DEF Displayed
      <4> QED
        BY <3>1, <3>2 DEF Watched
    <3>4. AskedInv => AskedInv'
      BY <3>1, <3>2 DEF AskedInv, MatchAt
    <3>5. SelectedInv => SelectedInv'
      <4>1. FullPage => FullPage'
        BY <3>1, <3>2 DEF FullPage
      <4>2. \A i \in DOMAIN query.rows : Snapshot(i) => Snapshot(i)'
        BY <3>1, <3>2 DEF Snapshot
      <4> QED
        BY <3>1, <3>2, <4>1, <4>2 DEF SelectedInv
    <3> QED
      BY <3>1, <3>3, <3>4, <3>5 DEF CallInv
  <2>2. CASE Next /\ WriterMoves
    <3>1. phase' = phase /\ query' = query /\ Watch
      BY <2>2, NextWatches DEF WriterMoves, callVars
    <3>2. phase # "idle" => Watched'
      BY <2>2, <3>1, WatchedKept DEF CallInv
    <3>3. phase = "asked" => AskedInv'
      BY <2>2, <3>1, AskedKept DEF CallInv
    <3>4. phase = "selected" => SelectedInv'
      BY <2>2, <3>1, SelectedKept DEF CallInv
    <3>5. phase' = "idle" => query' = NoQuery /\ \A j \in Jobs : seen'[j] = {}
      <4>1. Watch /\ phase' = "idle" => \A j \in Jobs : seen'[j] = {}
        BY WatchFacts
      <4> QED
        BY <3>1, <4>1 DEF CallInv
    <3> QED
      BY <3>1, <3>2, <3>3, <3>4, <3>5 DEF CallInv
  <2>3. CASE ReaderMoves
    <3>1. CASE Answer
      <4>1. phase' = "idle" /\ query' = NoQuery /\ Watch
        BY <3>1 DEF Answer
      <4>2. \A j \in Jobs : seen'[j] = {}
        BY <4>1, WatchFacts
      <4> QED
        BY <4>1, <4>2 DEF CallInv
    <3> QED
      BY <2>3, <3>1, AskBegins, SelectBegins DEF ReaderMoves
  <2> QED
    BY <2>1, <2>2, <2>3, TableStep
<1> QED
  BY <1>1, <1>2, TableKept, PTL DEF Spec

-----------------------------------------------------------------------------
(* What the reader is told.                                                 *)

(* A listing counts every job that matched throughout its call, and none    *)
(* that matched at no time of it.                                           *)
THEOREM TotalsTrue == Spec => []TotalIsFromTheCall
<1>1. TableInv /\ CallInv => TotalIsFromTheCall
  <2> SUFFICES ASSUME TableInv, CallInv, Listed
               PROVE  Cardinality(Always) <= query.total /\ query.total <= Cardinality(Ever)
    BY DEF TotalIsFromTheCall
  <2>1. PICK S : Always \subseteq S /\ S \subseteq Ever /\ IsFiniteSet(S) /\ query.total = Cardinality(S)
    BY DEF Listed, CallInv, SelectedInv
  <2>2. IsFiniteSet(Ever)
    <3>1. Ever \subseteq Rows /\ IsFiniteSet(Rows)
      BY RowsFinite, HasRow DEF TableInv, TypeOK, Listed, CallInv
    <3> QED
      BY <3>1, FS_Subset
  <2>3. Cardinality(Always) <= Cardinality(S)
    BY <2>1, FS_Subset
  <2>4. Cardinality(S) <= Cardinality(Ever)
    BY <2>1, <2>2, FS_Subset
  <2> QED
    BY <2>1, <2>3, <2>4
<1> QED
  BY <1>1, CallsKept, PTL

(* A job that matched throughout the call is on the page, or the page is    *)
(* full of jobs that are no older.                                          *)
THEOREM PagesTrue == Spec => []PageIsNewest
<1>1. TableInv /\ CallInv => PageIsNewest
  <2> SUFFICES ASSUME TableInv, CallInv, Listed, NEW j \in Always
               PROVE  \/ \E i \in DOMAIN Response : Response[i].job = j
                      \/ /\ Len(Response) = PageLimit
                         /\ \A i \in DOMAIN Response : made[Response[i].job] >= made[j]
    BY DEF PageIsNewest
  <2>1. /\ DOMAIN Response = DOMAIN query.rows
        /\ \A i \in DOMAIN query.rows : Response[i].job = query.rows[i]
    BY DEF Response
  <2>2. Len(Response) = Len(query.rows)
    BY <2>1 DEF TableInv, TypeOK
  <2>3. FullPage
    BY DEF Listed, CallInv, SelectedInv
  <2> QED
    BY <2>1, <2>2, <2>3 DEF FullPage, On
<1> QED
  BY <1>1, CallsKept, PTL

(* A page of one status shows another only where a result expired while the *)
(* call was under way.                                                      *)
THEOREM SlipsTrue == Spec => []SlipsOnlyDuringTheCall
<1>1. TableInv /\ CallInv => SlipsOnlyDuringTheCall
  <2> SUFFICES ASSUME TableInv, CallInv, Listed, query.want # NoFilter, NEW i \in DOMAIN Response
               PROVE  \/ Response[i].shown = query.want
                      \/ Response[i].shown = "expired" /\ query.expires[i] > query.asked
    BY DEF SlipsOnlyDuringTheCall
  <2> DEFINE s == query.status[i]
             e == query.expires[i]
  <2>1. /\ i \in DOMAIN query.rows /\ i \in DOMAIN query.expires /\ Snapshot(i)
        /\ Response[i].shown = ApplyExpiry(s, e, now)
    BY DEF Response, ShownAs, Listed, CallInv, SelectedInv
  <2>2. ApplyExpiry(s, e, query.asked) = query.want
    BY <2>1 DEF Snapshot, Passes, Listed
  <2>3. e \in Expiry \cup {NoTime} /\ query.asked \in Nat /\ now \in Nat /\ query.asked <= now
    BY <2>1 DEF TableInv, TypeOK, Time, Listed, CallInv, Watched
  <2> HIDE DEF s, e
  <2>4. e # NoTime => e \in Nat
    BY <2>3 DEF Expiry
  <2>5. CASE s \in Terminal /\ e # NoTime
    <3>1. now >= e \/ now < e
      BY <2>3, <2>4, <2>5
    <3>2. query.asked >= e => now >= e
      BY <2>3, <2>4, <2>5
    <3>3. ~(query.asked >= e) => e > query.asked
      BY <2>3, <2>4, <2>5
    <3> QED
      BY <2>1, <2>2, <2>5, <3>2, <3>3 DEF ApplyExpiry, e
  <2>6. CASE ~(s \in Terminal /\ e # NoTime)
    BY <2>1, <2>2, <2>6 DEF ApplyExpiry
  <2> QED
    BY <2>5, <2>6
<1> QED
  BY <1>1, CallsKept, PTL

(* Every job of an answer is shown with a status it displayed during the    *)
(* call; only a row of a cancelled job that has been written over since it  *)
(* was read may be shown as expired instead.                                *)
THEOREM AnswersTrue == Spec => []AnswersAreOfTheCall
<1>1. CallInv => AnswersAreOfTheCall
  <2> SUFFICES ASSUME CallInv, phase = "selected", NEW i \in DOMAIN Response
               PROVE  LET j == Response[i].job IN
                      \/ Response[i].shown \in seen[j]
                      \/ Response[i].shown = "expired" /\ stop[j] # "none" /\ query.expires[i] # expires[j]
    BY DEF AnswersAreOfTheCall
  <2>1. /\ i \in DOMAIN query.rows /\ Response[i].job = query.rows[i]
        /\ Response[i].shown = ApplyExpiry(query.status[i], query.expires[i], now)
    BY DEF Response, ShownAs
  <2>2. Snapshot(i)
    BY <2>1 DEF CallInv, SelectedInv
  <2> HIDE DEF Response
  <2> QED
    BY <2>1, <2>2 DEF Snapshot
<1> QED
  BY <1>1, CallsKept, PTL

-----------------------------------------------------------------------------
(* There always is a page: what the theorems say of every page is said of   *)
(* something.                                                               *)
LEMMA Smallest ==
  ASSUME NEW S \in SUBSET Nat, S # {}
  PROVE  \E n \in S : \A m \in S : n <= m
<1>1. PICK n \in S : \A m \in S : ~(<<m, n>> \in OpToRel(<, Nat))
  BY NatLessThanWellFounded, WFMin, Zenon
<1>2. \A m \in S : ~(m < n)
  BY <1>1 DEF OpToRel
<1> QED
  BY <1>2

(* If every set of jobs has a first one, there is a page of any length n    *)
(* that takes the first of what is left again and again.                    *)
Taken(M, R, n, s) ==
  /\ s \in Seq(M) /\ Len(s) <= n
  /\ \A i \in 1 .. Len(s) :
       LET rest == M \ {s[k] : k \in 1 .. i - 1}
       IN s[i] \in rest /\ \A j \in rest \ {s[i]} : <<s[i], j>> \in R
  /\ Len(s) < n => M \subseteq {s[k] : k \in 1 .. Len(s)}

LEMMA TakeOneMore ==
  ASSUME NEW M, NEW R, \A X \in SUBSET M : X # {} => \E x \in X : \A y \in X \ {x} : <<x, y>> \in R,
         NEW n \in Nat, NEW s, Taken(M, R, n, s)
  PROVE  \E t : Taken(M, R, n + 1, t)
<1> DEFINE left == M \ {s[k] : k \in 1 .. Len(s)}
<1>1. s \in Seq(M) /\ Len(s) \in Nat /\ Len(s) <= n
  BY DEF Taken
<1>2. CASE left = {}
  <2>1. Taken(M, R, n + 1, s)
    BY <1>1, <1>2 DEF Taken
  <2> QED
    BY <2>1
<1>3. CASE left # {}
  <2>1. Len(s) = n
    BY <1>1, <1>3 DEF Taken
  <2>2. PICK x \in left : \A y \in left \ {x} : <<x, y>> \in R
    <3>1. left \in SUBSET M
      OBVIOUS
    <3> HIDE DEF left
    <3> QED
      BY <1>3, <3>1
  <2> DEFINE t == Append(s, x)
  <2>3. /\ t \in Seq(M) /\ Len(t) = n + 1 /\ t[n + 1] = x
        /\ \A k \in 1 .. n : t[k] = s[k]
    BY <1>1, <2>1, <2>2
  <2> HIDE DEF t
  <2>4. ASSUME NEW i \in 1 .. n + 1
        PROVE  {t[k] : k \in 1 .. i - 1} = {s[k] : k \in 1 .. i - 1}
    <3>1. \A k \in 1 .. i - 1 : k \in 1 .. n
      OBVIOUS
    <3> QED
      BY <2>3, <3>1
  <2>5. ASSUME NEW i \in 1 .. n + 1
        PROVE  LET rest == M \ {t[k] : k \in 1 .. i - 1}
               IN t[i] \in rest /\ \A j \in rest \ {t[i]} : <<t[i], j>> \in R
    <3>1. CASE i = n + 1
      <4>1. M \ {t[k] : k \in 1 .. i - 1} = left /\ t[i] = x
        <5>1. i - 1 = Len(s)
          BY <2>1, <3>1
        <5> QED
          BY <2>3, <2>4, <3>1, <5>1
      <4> QED
        BY <2>2, <4>1
    <3>2. CASE i # n + 1
      <4>1. i \in 1 .. Len(s) /\ t[i] = s[i]
        BY <2>1, <2>3, <3>2
      <4> QED
        BY <2>4, <4>1 DEF Taken
    <3> QED
      BY <3>1, <3>2
  <2>6. Taken(M, R, n + 1, t)
    BY <2>3, <2>5 DEF Taken
  <2> QED
    BY <2>6
<1> QED
  BY <1>2, <1>3

LEMMA OrderedExist ==
  ASSUME NEW M, NEW R, \A X \in SUBSET M : X # {} => \E x \in X : \A y \in X \ {x} : <<x, y>> \in R
  PROVE  Pages(M, R) # {}
<1> DEFINE None == {n \in Nat : \A s : ~Taken(M, R, n, s)}
<1>1. Taken(M, R, 0, << >>)
  BY DEF Taken
<1>2. None = {}
  <2> SUFFICES ASSUME None # {} PROVE FALSE
    OBVIOUS
  <2>1. PICK n \in None : \A m \in None : n <= m
    BY Smallest
  <2>2. n # 0
    BY <1>1, <2>1
  <2>3. n - 1 \in Nat /\ n - 1 \notin None
    BY <2>1, <2>2
  <2>4. PICK s : Taken(M, R, n - 1, s)
    BY <2>3
  <2>5. \E t : Taken(M, R, n - 1 + 1, t)
    BY <2>3, <2>4, TakeOneMore
  <2>6. n - 1 + 1 = n
    BY <2>1
  <2> QED
    BY <2>1, <2>5, <2>6
<1>3. PICK s : Taken(M, R, PageLimit, s)
  BY <1>2, ConstantsAssumption
<1>4. s \in Seq(M) /\ Len(s) \in 0 .. PageLimit /\ s \in [1 .. Len(s) -> M] /\ DOMAIN s = 1 .. Len(s)
  BY <1>3, ConstantsAssumption DEF Taken
<1>5. s \in SeqOf(M, PageLimit)
  BY <1>4 DEF SeqOf
<1>6. Len(s) + 1 - 1 = Len(s)
  BY <1>4
<1>7. s \in Pages(M, R)
  BY <1>3, <1>4, <1>5, <1>6 DEF Pages, Taken
<1> QED
  BY <1>7

(* Both sorts have a first job of any: one of the newest, and of those the  *)
(* one whose row came first or last.                                        *)
LEMMA FirstOf ==
  ASSUME RowTypes, \A j \in Jobs : Row(j), NEW X \in SUBSET Rows, X # {}
  PROVE  /\ \E x \in X : \A y \in X \ {x} : Newest(x, y)
         /\ \E x \in X : \A y \in X \ {x} : NewestSql(x, y)
<1>1. Rows \subseteq Jobs
  BY RowsFinite DEF RowTypes
<1>2. \A j \in Rows : made[j] \in 0 .. MaxTime /\ made[j] \in Nat
  BY <1>1, ConstantsAssumption DEF RowTypes, Row, Time
<1>3. ASSUME NEW j \in Rows PROVE RowId(j) \in 1 .. Len(order) /\ order[RowId(j)] = j
  <2>1. \E i \in DOMAIN order : order[i] = j
    BY DEF Rows
  <2>2. RowId(j) \in DOMAIN order /\ order[RowId(j)] = j
    BY <2>1 DEF RowId
  <2> QED
    BY <2>2 DEF RowTypes
<1>4. PICK a \in X : \A y \in X : made[a] >= made[y]
  <2> DEFINE Ages == {MaxTime - made[y] : y \in X}
  <2>1. Ages \in SUBSET Nat /\ Ages # {}
    BY <1>2, ConstantsAssumption
  <2>2. PICK n \in Ages : \A m \in Ages : n <= m
    BY <2>1, Smallest
  <2>3. PICK x \in X : n = MaxTime - made[x]
    BY <2>2
  <2>4. \A y \in X : MaxTime - made[x] <= MaxTime - made[y]
    BY <2>2, <2>3
  <2>5. \A y \in X : made[x] >= made[y]
    BY <1>2, <2>4, ConstantsAssumption
  <2> QED
    BY <2>5
<1> DEFINE Top == {y \in X : made[y] = made[a]}
<1>5. a \in Top /\ Top \subseteq Rows /\ \A y \in X \ Top : made[a] > made[y]
  <2>1. \A y \in X : y \in Rows /\ made[y] \in Nat
    BY <1>2
  <2> QED
    BY <1>4, <2>1
<1>6. \E x \in Top : \A y \in Top \ {x} : RowId(x) < RowId(y)
  <2> DEFINE Ids == {RowId(y) : y \in Top}
  <2>1. Ids \in SUBSET Nat /\ Ids # {}
    BY <1>3, <1>5
  <2>2. PICK n \in Ids : \A m \in Ids : n <= m
    BY <2>1, Smallest
  <2>3. PICK x \in Top : n = RowId(x)
    BY <2>2
  <2>4. \A y \in Top : RowId(x) <= RowId(y) /\ (RowId(x) = RowId(y) => x = y)
    BY <1>3, <1>5, <2>2, <2>3
  <2>5. \A y \in Top : RowId(y) \in Nat
    BY <2>1
  <2>6. \A y \in Top \ {x} : RowId(x) < RowId(y)
    BY <2>4, <2>5
  <2> QED
    BY <2>6
<1>7. \E x \in Top : \A y \in Top \ {x} : RowId(x) > RowId(y)
  <2> DEFINE Ids == {Len(order) - RowId(y) : y \in Top}
  <2>1. Len(order) \in Nat /\ \A y \in Top : RowId(y) \in 1 .. Len(order)
    BY <1>3, <1>5 DEF RowTypes
  <2>2. Ids \in SUBSET Nat /\ Ids # {}
    BY <1>5, <2>1
  <2>3. PICK n \in Ids : \A m \in Ids : n <= m
    BY <2>2, Smallest
  <2>4. PICK x \in Top : n = Len(order) - RowId(x)
    BY <2>3
  <2>5. \A y \in Top : Len(order) - RowId(x) <= Len(order) - RowId(y)
    BY <2>3, <2>4
  <2>6. \A y \in Top : RowId(x) = RowId(y) => x = y
    BY <1>3, <1>5
  <2>7. \A y \in Top \ {x} : RowId(x) > RowId(y)
    BY <2>1, <2>5, <2>6
  <2> QED
    BY <2>7
<1>8. ASSUME NEW x \in Top, NEW y \in X \ Top
      PROVE  Newest(x, y) /\ NewestSql(x, y)
  <2>1. made[x] > made[y] /\ made[x] \in Nat /\ made[y] \in Nat
    BY <1>2, <1>5
  <2>2. TextBefore(IsoFormat(made[y]), IsoFormat(made[x]))
    BY <2>1, TextIsTime
  <2> QED
    BY <2>1, <2>2 DEF Newest, NewestSql
<1>9. \A x, y \in Top : made[x] = made[y] /\ x \in X
  OBVIOUS
<1> HIDE DEF Top
<1>10. \E x \in X : \A y \in X \ {x} : Newest(x, y)
  BY <1>6, <1>8, <1>9 DEF Newest
<1>11. \E x \in X : \A y \in X \ {x} : NewestSql(x, y)
  BY <1>7, <1>8, <1>9 DEF NewestSql
<1> QED
  BY <1>10, <1>11

(* Every listing has a page in either store.                                *)
THEOREM PagesExist ==
  Spec => [](\A want, c : \A t \in Nat : SelectPages(want, c, t) # {} /\ ListPages(want, c) # {})
<1> DEFINE Exist == \A want, c : \A t \in Nat : SelectPages(want, c, t) # {} /\ ListPages(want, c) # {}
<1>1. TableInv => Exist
  <2> SUFFICES ASSUME TableInv, NEW want, NEW c, NEW t \in Nat
               PROVE  SelectPages(want, c, t) # {} /\ ListPages(want, c) # {}
    OBVIOUS
  <2>1. RowTypes /\ \A j \in Jobs : Row(j)
    BY TypeParts DEF TableInv
  <2>2. SelectPages(want, c, t) # {}
    <3> DEFINE M == MatchingSql(want, c, t)
               R == {p \in M \X M : NewestSql(p[1], p[2])}
    <3>1. M \subseteq Rows
      BY DEF MatchingSql
    <3> HIDE DEF M
    <3>2. \A X \in SUBSET M : X # {} => \E x \in X : \A y \in X \ {x} : <<x, y>> \in R
      BY <2>1, <3>1, FirstOf
    <3> HIDE DEF R
    <3>3. Pages(M, R) # {}
      BY <3>2, OrderedExist
    <3> QED
      BY <3>3 DEF SelectPages, M, R
  <2>3. ListPages(want, c) # {}
    <3> DEFINE M == Matching(want, c)
               R == {p \in M \X M : Newest(p[1], p[2])}
    <3>1. M \subseteq Rows
      BY DEF Matching
    <3> HIDE DEF M
    <3>2. \A X \in SUBSET M : X # {} => \E x \in X : \A y \in X \ {x} : <<x, y>> \in R
      BY <2>1, <3>1, FirstOf
    <3> HIDE DEF R
    <3>3. Pages(M, R) # {}
      BY <3>2, OrderedExist
    <3> QED
      BY <3>3 DEF ListPages, M, R
  <2> QED
    BY <2>2, <2>3
<1>2. Spec => []TableInv
  BY TableKept
<1> HIDE DEF Exist
<1> QED
  BY <1>1, <1>2, PTL DEF Exist

=============================================================================
