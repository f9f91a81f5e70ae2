---------------------------- MODULE AlarmsProofs ----------------------------
(***************************************************************************)
(* Theorems about Alarms: a condition has one active alarm, and the active *)
(* alarms are those that the last report gave, for any types, reports,     *)
(* connections and failures.                                               *)
(***************************************************************************)
EXTENDS Alarms, SequenceTheorems, TLAPS

-----------------------------------------------------------------------------
(***************************************************************************)
(* Sequences                                                               *)
(***************************************************************************)

LEMMA TailAt ==
  ASSUME NEW S, NEW q \in Seq(S), q # << >>
  PROVE  /\ Tail(q) \in Seq(S) /\ Head(q) \in S /\ Head(q) = q[1]
         /\ Len(q) \in Nat /\ 1 \in 1..Len(q) /\ Len(Tail(q)) = Len(q) - 1
         /\ \A i \in 1..Len(Tail(q)) : i + 1 \in 1..Len(q) /\ Tail(q)[i] = q[i + 1]
<1>1. /\ Tail(q) \in Seq(S) /\ Head(q) \in S /\ Head(q) = q[1]
      /\ Len(q) \in Nat /\ Len(q) # 0 /\ Len(Tail(q)) = Len(q) - 1
      /\ \A i \in 1..Len(Tail(q)) : Tail(q)[i] = q[i + 1]
  BY HeadTailProperties, LenProperties, EmptySeq
<1>2. QED
  BY <1>1

LEMMA ConcatAt ==
  ASSUME NEW S, NEW p \in Seq(S), NEW q \in Seq(S)
  PROVE  /\ p \o q \in Seq(S) /\ Len(p) \in Nat /\ Len(q) \in Nat
         /\ Len(p \o q) = Len(p) + Len(q)
         /\ \A i \in 1..Len(p) : i \in 1..Len(p \o q) /\ (p \o q)[i] = p[i]
         /\ \A i \in 1..Len(q) : Len(p) + i \in 1..Len(p \o q) /\ (p \o q)[Len(p) + i] = q[i]
         /\ \A i \in 1..Len(p \o q) :
              i \in 1..Len(p) \/ (i - Len(p) \in 1..Len(q) /\ i = Len(p) + (i - Len(p)))
<1>1. /\ p \o q \in Seq(S) /\ Len(p) \in Nat /\ Len(q) \in Nat
      /\ Len(p \o q) = Len(p) + Len(q)
      /\ \A i \in 1..(Len(p) + Len(q)) :
           (p \o q)[i] = IF i <= Len(p) THEN p[i] ELSE q[i - Len(p)]
  BY ConcatProperties, LenProperties
<1>2. QED
  BY <1>1

-----------------------------------------------------------------------------
(***************************************************************************)
(* The jobs of a report                                                    *)
(***************************************************************************)

\* A job changes the active alarms of a source, or makes them those of v.
Touches(j, X) ==
  (j.kind = "reconcile" /\ j.source = X) \/ (j.kind = "clear" /\ X = "lock_status")
Settles(j, X, v) ==
  (j.kind = "reconcile" /\ j.source = X /\ j.current = v)
  \/ (j.kind = "clear" /\ X = "lock_status" /\ v = {})

Untouched(q, X) == \A i \in 1..Len(q) : ~Touches(q[i], X)
LastSettles(q, X, v) ==
  \E i \in 1..Len(q) : /\ Settles(q[i], X, v)
                       /\ \A j \in 1..Len(q) : j > i => ~Touches(q[j], X)

\* The row gets a lock status just before the alarms of the lock do.
IsLock(j) == j.kind = "reconcile" /\ j.source = "lock_status"
Paired(q) ==
  \A i \in 1..Len(q) :
    /\ q[i].kind = "status" => /\ i + 1 \in 1..Len(q) /\ IsLock(q[i + 1])
                               /\ q[i + 1].current = q[i].current
    /\ IsLock(q[i]) /\ i > 1 => q[i - 1].kind = "status"

StartsFree(q) == q # << >> => ~IsLock(q[1])

LEMMA JobTypes ==
  ASSUME NEW j \in Job
  PROVE  /\ j.kind \in {"save", "status", "reconcile", "event", "clear"}
         /\ j.kind = "status" => j.current \in SUBSET Types
         /\ j.kind = "reconcile" => j.current \in SUBSET Types /\ j.source \in Reconciled
         /\ j.kind = "event" => j.type \in Types
BY DEF Job

LEMMA UntouchedConcat ==
  ASSUME NEW p \in Seq(Job), NEW q \in Seq(Job), NEW X, Untouched(p, X), Untouched(q, X)
  PROVE  Untouched(p \o q, X)
BY ConcatAt DEF Untouched

LEMMA LastLeft ==
  ASSUME NEW p \in Seq(Job), NEW q \in Seq(Job), NEW X, NEW v,
         LastSettles(p, X, v), Untouched(q, X)
  PROVE  LastSettles(p \o q, X, v)
<1>1. PICK i \in 1..Len(p) : /\ Settles(p[i], X, v)
                             /\ \A j \in 1..Len(p) : j > i => ~Touches(p[j], X)
  BY DEF LastSettles
<1>2. i \in 1..Len(p \o q) /\ Settles((p \o q)[i], X, v)
  BY <1>1, ConcatAt
<1>3. \A j \in 1..Len(p \o q) : j > i => ~Touches((p \o q)[j], X)
  BY <1>1, ConcatAt DEF Untouched
<1>4. QED
  BY <1>2, <1>3 DEF LastSettles

LEMMA LastRight ==
  ASSUME NEW p \in Seq(Job), NEW q \in Seq(Job), NEW X, NEW v, LastSettles(q, X, v)
  PROVE  LastSettles(p \o q, X, v)
<1>1. PICK i \in 1..Len(q) : /\ Settles(q[i], X, v)
                             /\ \A j \in 1..Len(q) : j > i => ~Touches(q[j], X)
  BY DEF LastSettles
<1>2. Len(p) + i \in 1..Len(p \o q) /\ Settles((p \o q)[Len(p) + i], X, v)
  BY <1>1, ConcatAt
<1>3. ASSUME NEW j \in 1..Len(p \o q), j > Len(p) + i PROVE ~Touches((p \o q)[j], X)
  <2>1. j - Len(p) \in 1..Len(q) /\ j = Len(p) + (j - Len(p)) /\ j - Len(p) > i
    BY <1>1, <1>3, ConcatAt
  <2>2. (p \o q)[j] = q[j - Len(p)]
    BY <2>1, ConcatAt
  <2>3. QED
    BY <1>1, <2>1, <2>2
<1>4. QED
  BY <1>2, <1>3 DEF LastSettles

LEMMA PairedConcat ==
  ASSUME NEW p \in Seq(Job), NEW q \in Seq(Job), Paired(p), Paired(q),
         StartsFree(p), StartsFree(q)
  PROVE  Paired(p \o q) /\ StartsFree(p \o q)
<1> DEFINE r == p \o q
           n == Len(p)
<1>1. /\ n \in Nat /\ Len(q) \in Nat /\ Len(r) = n + Len(q)
      /\ \A i \in 1..n : i \in 1..Len(r) /\ r[i] = p[i]
      /\ \A i \in 1..Len(q) : n + i \in 1..Len(r) /\ r[n + i] = q[i]
      /\ \A i \in 1..Len(r) : i \in 1..n \/ (i - n \in 1..Len(q) /\ i = n + (i - n))
  BY ConcatAt
<1>2. Len(q) # 0 => ~IsLock(q[1])
  BY EmptySeq, LenProperties DEF StartsFree
<1> HIDE DEF r, n
<1>3. ASSUME NEW i \in 1..Len(r), r[i].kind = "status"
      PROVE  /\ i + 1 \in 1..Len(r) /\ IsLock(r[i + 1]) /\ r[i + 1].current = r[i].current
  <2>1. CASE i \in 1..n
    <3>1. i + 1 \in 1..n /\ IsLock(p[i + 1]) /\ p[i + 1].current = p[i].current
      BY <1>1, <1>3, <2>1 DEF Paired, n
    <3>2. QED
      BY <1>1, <2>1, <3>1
  <2>2. CASE i - n \in 1..Len(q)
    <3>1. r[i] = q[i - n]
      BY <1>1, <2>2
    <3>2. /\ (i - n) + 1 \in 1..Len(q) /\ IsLock(q[(i - n) + 1])
          /\ q[(i - n) + 1].current = q[i - n].current
      BY <1>3, <2>2, <3>1 DEF Paired
    <3>3. i + 1 = n + ((i - n) + 1)
      BY <1>1
    <3>4. QED
      BY <1>1, <3>1, <3>2, <3>3
  <2>3. QED
    BY <1>1, <2>1, <2>2
<1>4. ASSUME NEW i \in 1..Len(r), IsLock(r[i]), i > 1
      PROVE  r[i - 1].kind = "status"
  <2>1. CASE i \in 1..n
    BY <1>1, <1>4, <2>1 DEF Paired, n
  <2>2. CASE i - n \in 1..Len(q)
    <3>1. r[i] = q[i - n] /\ Len(q) # 0
      BY <1>1, <2>2
    <3>2. i - n > 1
      BY <1>1, <1>2, <1>4, <2>2, <3>1
    <3>3. q[(i - n) - 1].kind = "status" /\ (i - n) - 1 \in 1..Len(q)
      BY <1>1, <1>4, <2>2, <3>1, <3>2 DEF Paired
    <3>4. i - 1 = n + ((i - n) - 1)
      BY <1>1
    <3>5. QED
      BY <1>1, <3>3, <3>4
  <2>3. QED
    BY <1>1, <2>1, <2>2
<1>5. r # << >> => ~IsLock(r[1])
  <2>1. CASE n # 0
    BY <1>1, <2>1, EmptySeq, LenProperties DEF StartsFree, n
  <2>2. CASE n = 0
    <3>1. Len(q) # 0 => r[1] = q[1]
      BY <1>1, <2>2
    <3>2. r \in Seq(Job) /\ Len(r) = Len(q)
      BY <1>1, <2>2, ConcatAt DEF r
    <3>3. r # << >> => Len(q) # 0
      BY <3>2, EmptySeq, LenProperties
    <3>4. QED
      BY <1>2, <3>1, <3>3
  <2>3. QED
    BY <2>1, <2>2
<1>6. QED
  BY <1>3, <1>4, <1>5 DEF Paired, StartsFree, r

\* What a sequence of jobs makes of the alarms of a source, if anything.
Tells(q, X, v) == /\ v = Absent => Untouched(q, X)
                  /\ v # Absent => LastSettles(q, X, v)

\* What it makes of each source.
Brings(q, flags, e7, status, voltage) ==
  /\ q \in Seq(Job) /\ Paired(q) /\ StartsFree(q)
  /\ Tells(q, "location_alarm_flags", flags) /\ Tells(q, "e7_alarm_status", e7)
  /\ Tells(q, "lock_status", status) /\ Tells(q, "voltage", voltage)

Over(u, v) == IF v = Absent THEN u ELSE v

LEMMA TellsConcat ==
  ASSUME NEW p \in Seq(Job), NEW q \in Seq(Job), NEW X, NEW u, NEW v,
         Tells(p, X, u), Tells(q, X, v)
  PROVE  Tells(p \o q, X, Over(u, v))
BY UntouchedConcat, LastLeft, LastRight DEF Tells, Over

LEMMA BringsConcat ==
  ASSUME NEW p, NEW q, NEW u1, NEW u2, NEW u3, NEW u4, NEW v1, NEW v2, NEW v3, NEW v4,
         Brings(p, u1, u2, u3, u4), Brings(q, v1, v2, v3, v4)
  PROVE  Brings(p \o q, Over(u1, v1), Over(u2, v2), Over(u3, v3), Over(u4, v4))
<1>1. p \o q \in Seq(Job)
  BY ConcatAt DEF Brings
<1>2. Paired(p \o q) /\ StartsFree(p \o q)
  BY PairedConcat DEF Brings
<1>3. QED
  BY <1>1, <1>2, TellsConcat DEF Brings

LEMMA NoJob == Brings(<< >>, Absent, Absent, Absent, Absent)
<1>1. Len(<< >>) = 0 /\ << >> \in Seq(Job)
  OBVIOUS
<1>2. QED
  BY <1>1 DEF Brings, Tells, Untouched, Paired, StartsFree

\* One job that does not concern the row's lock status.
LEMMA OneJob ==
  ASSUME NEW j \in Job, j.kind # "status", ~IsLock(j)
  PROVE  /\ <<j>> \in Seq(Job) /\ Paired(<<j>>) /\ StartsFree(<<j>>)
         /\ \A X : ~Touches(j, X) => Tells(<<j>>, X, Absent)
         /\ \A X, v : Settles(j, X, v) /\ v # Absent => Tells(<<j>>, X, v)
<1>1. <<j>> \in Seq(Job) /\ Len(<<j>>) = 1 /\ <<j>>[1] = j
  OBVIOUS
<1>2. Paired(<<j>>) /\ StartsFree(<<j>>)
  BY <1>1 DEF Paired, StartsFree
<1>3. \A X : ~Touches(j, X) => Tells(<<j>>, X, Absent)
  BY <1>1 DEF Tells, Untouched
<1>4. \A X, v : Settles(j, X, v) /\ v # Absent => Tells(<<j>>, X, v)
  BY <1>1 DEF Tells, LastSettles
<1>5. QED
  BY <1>1, <1>2, <1>3, <1>4

LEMMA SideJobs ==
  /\ Brings(<<[kind |-> "save"]>>, Absent, Absent, Absent, Absent)
  /\ Brings(<<[kind |-> "clear"]>>, Absent, Absent, {}, Absent)
  /\ \A t \in Types : Brings(<<[kind |-> "event", type |-> t]>>, Absent, Absent, Absent, Absent)
<1>1. ASSUME NEW j \in Job, j.kind \in {"save", "event"}
      PROVE  Brings(<<j>>, Absent, Absent, Absent, Absent)
  <2>1. ~IsLock(j) /\ j.kind # "status" /\ \A X : ~Touches(j, X)
    BY <1>1 DEF IsLock, Touches
  <2>2. QED
    BY <2>1, OneJob DEF Brings
<1>2. ASSUME NEW j \in Job, j.kind = "clear"
      PROVE  Brings(<<j>>, Absent, Absent, {}, Absent)
  <2>1. /\ ~IsLock(j) /\ j.kind # "status" /\ {} # Absent
        /\ \A X : X # "lock_status" => ~Touches(j, X)
        /\ Settles(j, "lock_status", {})
    BY <1>2, AlarmsAssumption DEF IsLock, Touches, Settles
  <2>2. QED
    BY <2>1, OneJob DEF Brings
<1>3. [kind |-> "save"] \in Job /\ [kind |-> "clear"] \in Job
  BY DEF Job
<1>4. \A t \in Types : [kind |-> "event", type |-> t] \in Job
  BY DEF Job
<1>5. QED
  BY <1>1, <1>2, <1>3, <1>4

LEMMA ReconcileJobs ==
  ASSUME NEW part, IsPart(part)
  PROVE  /\ Brings(Reconcile("location_alarm_flags", part), part, Absent, Absent, Absent)
         /\ Brings(Reconcile("e7_alarm_status", part), Absent, part, Absent, Absent)
         /\ Brings(Reconcile("voltage", part), Absent, Absent, Absent, part)
<1>1. CASE part = Absent
  BY <1>1, NoJob DEF Reconcile
<1>2. ASSUME part # Absent, NEW X \in Reconciled, X # "lock_status"
      PROVE  /\ Reconcile(X, part) \in Seq(Job) /\ Paired(Reconcile(X, part))
             /\ StartsFree(Reconcile(X, part)) /\ Tells(Reconcile(X, part), X, part)
             /\ \A Y : Y # X => Tells(Reconcile(X, part), Y, Absent)
  <2> DEFINE j == [kind |-> "reconcile", source |-> X, current |-> part]
  <2>1. j \in Job /\ j.kind = "reconcile" /\ j.source = X /\ j.current = part
    BY <1>2 DEF Job, IsPart
  <2>2. Reconcile(X, part) = <<j>>
    BY <1>2 DEF Reconcile
  <2> HIDE DEF j
  <2>3. ~IsLock(j) /\ j.kind # "status" /\ Settles(j, X, part)
        /\ \A Y : Y # X => ~Touches(j, Y)
    BY <1>2, <2>1 DEF IsLock, Settles, Touches
  <2>4. QED
    BY <1>2, <2>1, <2>2, <2>3, OneJob
<1>3. CASE part # Absent
  BY <1>2, <1>3 DEF Brings, Reconciled
<1>4. QED
  BY <1>1, <1>3

\* The row's lock status and the alarms of the lock.
LEMMA StatusJobs ==
  ASSUME NEW status, IsPart(status)
  PROVE  Brings((IF status = Absent THEN << >> ELSE <<[kind |-> "status", current |-> status]>>)
                \o Reconcile("lock_status", status), Absent, Absent, status, Absent)
<1>1. CASE status = Absent
  <2>1. << >> \o << >> = << >>
    OBVIOUS
  <2>2. QED
    BY <1>1, <2>1, NoJob DEF Reconcile
<1>2. CASE status # Absent
  <2> DEFINE a == [kind |-> "status", current |-> status]
             b == [kind |-> "reconcile", source |-> "lock_status", current |-> status]
  <2>1. /\ a \in Job /\ a.kind = "status" /\ a.current = status
        /\ b \in Job /\ b.kind = "reconcile" /\ b.source = "lock_status" /\ b.current = status
    BY <1>2 DEF Job, IsPart, Reconciled
  <2>2. Reconcile("lock_status", status) = <<b>>
    BY <1>2 DEF Reconcile
  <2> HIDE DEF a, b
  <2> DEFINE q == <<a>> \o <<b>>
  <2>3. q \in Seq(Job) /\ Len(q) = 2 /\ q[1] = a /\ q[2] = b
    <3>1. /\ <<a>> \in Seq(Job) /\ Len(<<a>>) = 1 /\ <<a>>[1] = a
          /\ <<b>> \in Seq(Job) /\ Len(<<b>>) = 1 /\ <<b>>[1] = b
      BY <2>1
    <3>2. QED
      BY <3>1, ConcatAt
  <2> HIDE DEF q
  <2>4. Paired(q) /\ StartsFree(q)
    BY <2>1, <2>3 DEF Paired, StartsFree, IsLock
  <2>5. \A X : X # "lock_status" => Tells(q, X, Absent)
    BY <2>1, <2>3 DEF Tells, Untouched, Touches
  <2>6. Tells(q, "lock_status", status)
    BY <1>2, <2>1, <2>3 DEF Tells, LastSettles, Settles
  <2>7. Brings(q, Absent, Absent, status, Absent)
    BY <2>3, <2>4, <2>5, <2>6 DEF Brings
  <2>8. QED
    BY <1>2, <2>2, <2>7 DEF a, q
<1>3. QED
  BY <1>1, <1>2

LEMMA OverAbsent == \A v : Over(v, Absent) = v /\ Over(Absent, v) = v
BY DEF Over

LEMMA OnLockStatusJobs ==
  ASSUME NEW status, NEW voltage, IsPart(status), IsPart(voltage)
  PROVE  Brings(OnLockStatus(status, voltage), Absent, Absent, status, voltage)
<1>1. Brings(Reconcile("voltage", voltage), Absent, Absent, Absent, voltage)
  BY ReconcileJobs
<1> DEFINE p == (IF status = Absent THEN << >>
                 ELSE <<[kind |-> "status", current |-> status]>>)
                \o Reconcile("lock_status", status)
           q == Reconcile("voltage", voltage)
<1>2. Brings(p, Absent, Absent, status, Absent)
  BY StatusJobs
<1>3. OnLockStatus(status, voltage) = p \o q
  BY DEF OnLockStatus
<1> HIDE DEF p, q
<1>4. Brings(p \o q, Over(Absent, Absent), Over(Absent, Absent), Over(status, Absent),
             Over(Absent, voltage))
  BY <1>1, <1>2, BringsConcat DEF q
<1>5. QED
  BY <1>3, <1>4, OverAbsent

LEMMA OnLocationJobs ==
  ASSUME NEW flags, NEW e7, NEW status, IsPart(flags), IsPart(e7), IsPart(status)
  PROVE  Brings(OnLocation(flags, e7, status), flags, e7, status, Absent)
<1> DEFINE p == <<[kind |-> "save"]>>
           q == Reconcile("location_alarm_flags", flags)
           r == Reconcile("e7_alarm_status", e7)
           t == OnLockStatus(status, Absent)
<1>1. Brings(p, Absent, Absent, Absent, Absent)
  BY SideJobs
<1>2. Brings(q, flags, Absent, Absent, Absent) /\ Brings(r, Absent, e7, Absent, Absent)
  BY ReconcileJobs
<1>3. Brings(t, Absent, Absent, status, Absent)
  BY OnLockStatusJobs DEF IsPart
<1>4. OnLocation(flags, e7, status) = ((p \o q) \o r) \o t
  BY DEF OnLocation
<1> HIDE DEF p, q, r, t
<1>5. Brings(p \o q, flags, Absent, Absent, Absent)
  BY <1>1, <1>2, BringsConcat, OverAbsent
<1>6. Brings((p \o q) \o r, flags, e7, Absent, Absent)
  BY <1>2, <1>5, BringsConcat, OverAbsent
<1>7. Brings(((p \o q) \o r) \o t, flags, e7, status, Absent)
  BY <1>3, <1>6, BringsConcat, OverAbsent
<1>8. QED
  BY <1>4, <1>7

\* The jobs of a report make of the alarms of each source what the report says.
LEMMA JobsOfReport ==
  ASSUME NEW r \in Reports
  PROVE  LET s == Says(r)
         IN  Brings(JobsOf(r), s["location_alarm_flags"], s["e7_alarm_status"],
                    s["lock_status"], s["voltage"])
<1>1. IsReport(r)
  BY AlarmsAssumption
<1> DEFINE lock1 == IF r.clears THEN {} ELSE r.lock
<1>2. /\ Says(r)["location_alarm_flags"] = r.flags /\ Says(r)["e7_alarm_status"] = r.e7
      /\ Says(r)["lock_status"] = lock1 /\ Says(r)["voltage"] = r.voltage
  BY DEF Says, Reconciled
<1>3. CASE r.kind \in {"location", "query"}
  <2>1. JobsOf(r) = OnLocation(r.flags, r.e7, r.lock) /\ lock1 = r.lock /\ r.voltage = Absent
    BY <1>1, <1>3 DEF JobsOf, IsReport
  <2>2. QED
    BY <1>1, <1>2, <2>1, OnLocationJobs DEF IsReport
<1>4. ASSUME r.kind \in {"upload", "reply"}
      PROVE  Brings(GPSBlock(r) \o OnLockStatus(r.lock, r.voltage), r.flags, Absent, r.lock, r.voltage)
  <2>1. PICK b : Brings(GPSBlock(r), r.flags, Absent, b, Absent)
    <3>1. CASE r.flags = Absent
      BY <3>1, NoJob DEF GPSBlock
    <3>2. CASE r.flags # Absent
      <4>1. IsPart(Absent)
        BY DEF IsPart
      <4>2. QED
        BY <1>1, <3>2, <4>1, OnLocationJobs DEF GPSBlock, IsReport
    <3>3. QED
      BY <3>1, <3>2
  <2>2. Brings(OnLockStatus(r.lock, r.voltage), Absent, Absent, r.lock, r.voltage)
    BY <1>1, OnLockStatusJobs DEF IsReport
  <2>3. Over(b, r.lock) = r.lock
    BY <1>1, <1>4 DEF IsReport, Over
  <2>4. Brings(GPSBlock(r) \o OnLockStatus(r.lock, r.voltage), Over(r.flags, Absent),
               Over(Absent, Absent), Over(b, r.lock), Over(Absent, r.voltage))
    BY <2>1, <2>2, BringsConcat
  <2>5. QED
    BY <2>3, <2>4, OverAbsent
<1> DEFINE q == GPSBlock(r) \o OnLockStatus(r.lock, r.voltage)
<1>5. CASE r.kind = "upload"
  <2> DEFINE e == IF r.event = Absent THEN << >> ELSE <<[kind |-> "event", type |-> r.event]>>
  <2>1. Brings(e, Absent, Absent, Absent, Absent)
    BY <1>1, NoJob, SideJobs DEF IsReport
  <2>2. Brings(q, r.flags, Absent, r.lock, r.voltage)
    BY <1>4, <1>5
  <2>3. JobsOf(r) = q \o e /\ lock1 = r.lock /\ r.e7 = Absent
    BY <1>1, <1>5 DEF JobsOf, IsReport
  <2> HIDE DEF q, e
  <2>4. Brings(q \o e, r.flags, Absent, r.lock, r.voltage)
    BY <2>1, <2>2, BringsConcat, OverAbsent
  <2>5. QED
    BY <1>2, <2>3, <2>4
<1>6. CASE r.kind = "reply"
  <2> DEFINE c == IF r.clears THEN <<[kind |-> "clear"]>> ELSE << >>
             v == IF r.clears THEN {} ELSE Absent
             w == <<[kind |-> "save"]>>
  <2>1. Brings(c, Absent, Absent, v, Absent) /\ Brings(w, Absent, Absent, Absent, Absent)
    BY NoJob, SideJobs
  <2>2. Brings(q, r.flags, Absent, r.lock, r.voltage)
    BY <1>4, <1>6
  <2>3. JobsOf(r) = (q \o w) \o c /\ r.e7 = Absent
    BY <1>1, <1>6 DEF JobsOf, IsReport
  <2>4. lock1 = Over(r.lock, v)
    BY AlarmsAssumption DEF Over
  <2> HIDE DEF q, c, v, w, lock1
  <2>5. Brings(q \o w, r.flags, Absent, r.lock, r.voltage)
    <3>1. Brings(q \o w, Over(r.flags, Absent), Over(Absent, Absent), Over(r.lock, Absent),
                 Over(r.voltage, Absent))
      BY <2>1, <2>2, BringsConcat
    <3>2. QED
      BY <3>1, OverAbsent
  <2>6. Brings((q \o w) \o c, r.flags, Absent, Over(r.lock, v), r.voltage)
    BY <2>1, <2>5, BringsConcat, OverAbsent
  <2>7. QED
    BY <1>2, <2>3, <2>4, <2>6
<1>7. QED
  BY <1>1, <1>3, <1>5, <1>6 DEF IsReport

-----------------------------------------------------------------------------
(***************************************************************************)
(* Types                                                                   *)
(***************************************************************************)

Whom    == {"nobody", "device_report", "command"}
Handler == [jobs: Seq(Job), raise: SUBSET Types, clear: SUBSET Nat, source: Sources, by: Whom]

Typed == TypeOK /\ handler \in [Sessions -> Handler]

LEMMA SourceNames == /\ Reconciled \subseteq Sources /\ "lock_upload" \in Sources
                     /\ "lock_upload" \notin Reconciled /\ "lock_status" \in Reconciled
BY DEF Reconciled, Sources

LEMMA InitTyped == Init => Typed
<1> SUFFICES ASSUME Init PROVE Typed
  OBVIOUS
<1>1. << >> \in Seq(Job) /\ << >> \in Seq(Alarm)
  OBVIOUS
<1>2. Idle \in Handler
  BY <1>1, SourceNames DEF Idle, Handler, Whom
<1>3. 1 \in Sessions
  BY AlarmsAssumption DEF Sessions
<1>4. QED
  BY <1>1, <1>2, <1>3, SourceNames DEF Init, Typed, TypeOK, HandlerOK, Idle, IsPart

\* The types of what a step gives a handler.
LEMMA TypedStep ==
  ASSUME Typed, NEW s \in Sessions, NEW h \in Handler, handler' = [handler EXCEPT ![s] = h],
         h.clear \subseteq DOMAIN alarms, h.clear # {} => h.by # "nobody",
         DOMAIN alarms \subseteq DOMAIN alarms', alarms' \in Seq(Alarm), lock' \subseteq Types,
         live' = live, DOMAIN reported' = Reconciled,
         \A source \in Reconciled : IsPart(reported'[source]),
         begun' \in Nat, failures' \in Nat, instant' = instant
  PROVE  Typed'
<1>1. handler' \in [Sessions -> Handler]
  BY DEF Typed
<1>2. \A t \in Sessions : HandlerOK(handler[t])'
  <2>1. ASSUME NEW t \in Sessions, t # s PROVE handler'[t] = handler[t] /\ HandlerOK(handler[t])
    BY <2>1 DEF Typed, TypeOK
  <2>2. handler'[s] = h
    BY DEF Typed
  <2>3. ASSUME NEW t \in Sessions PROVE HandlerOK(handler[t])'
    <3>1. CASE t = s
      BY <2>2, <3>1 DEF HandlerOK, Handler, Whom
    <3>2. CASE t # s
      BY <2>1, <3>2 DEF HandlerOK
    <3>3. QED
      BY <3>1, <3>2
  <2>4. QED
    BY <2>3
<1>3. QED
  BY <1>1, <1>2 DEF Typed, TypeOK

\* The handler of a session and its fields.
LEMMA HandlerTypes ==
  ASSUME Typed, NEW s \in Sessions
  PROVE  /\ handler[s] \in Handler /\ handler[s].jobs \in Seq(Job)
         /\ handler[s].raise \subseteq Types /\ handler[s].clear \subseteq Nat
         /\ handler[s].source \in Sources /\ handler[s].by \in Whom
         /\ handler[s].clear \subseteq DOMAIN alarms
         /\ handler[s].clear # {} => handler[s].by # "nobody"
         /\ alarms \in Seq(Alarm) /\ DOMAIN alarms = 1..Len(alarms) /\ Len(alarms) \in Nat
<1>1. handler[s] \in Handler /\ HandlerOK(handler[s]) /\ alarms \in Seq(Alarm)
  BY DEF Typed, TypeOK
<1>2. QED
  BY <1>1, LenProperties DEF Handler, HandlerOK

\* A job begins: the next one is taken off.
LEMMA JobTaken ==
  ASSUME Typed, NEW s \in Sessions, handler[s].jobs # << >>
  PROVE  /\ Head(handler[s].jobs) \in Job /\ Tail(handler[s].jobs) \in Seq(Job)
         /\ \A raise \in SUBSET Types, clear \in SUBSET Nat, source \in Sources, by \in Whom :
              [jobs |-> Tail(handler[s].jobs), raise |-> raise, clear |-> clear,
               source |-> source, by |-> by] \in Handler
         /\ [handler[s] EXCEPT !.jobs = Tail(@)] \in Handler
<1>1. Head(handler[s].jobs) \in Job /\ Tail(handler[s].jobs) \in Seq(Job)
  BY HandlerTypes, TailAt
<1>2. QED
  BY <1>1, HandlerTypes DEF Handler

\* What ReadActive, ReadEvent and ReadCleared find is in the table.
LEMMA Rows ==
  ASSUME Typed, NEW S, NEW cur \in SUBSET Types
  PROVE  /\ Gone(Compared(S), cur) \subseteq DOMAIN alarms /\ Gone(Compared(S), cur) \subseteq Nat
         /\ Appeared(Compared(S), cur) \subseteq Types
         /\ {i \in ActiveAlarms : alarms[i].source \in ByCommand} \subseteq DOMAIN alarms
         /\ {i \in ActiveAlarms : alarms[i].source \in ByCommand} \subseteq Nat
<1>1. DOMAIN alarms \subseteq Nat
  BY LenProperties DEF Typed, TypeOK
<1>2. QED
  BY <1>1 DEF Gone, Compared, ActiveAlarms, Appeared

LEMMA StepTyped == ASSUME Typed, NEW s \in Sessions, Step(s) PROVE Typed'
<1> USE DEF used
<1>0. /\ live' = live /\ reported' = reported /\ UNCHANGED used
      /\ DOMAIN reported = Reconciled /\ \A source \in Reconciled : IsPart(reported[source])
      /\ begun \in Nat /\ failures \in Nat /\ lock \subseteq Types /\ alarms \in Seq(Alarm)
  BY DEF Step, Save, UpdateStatus, ReadActive, ReadEvent, ReadCleared, Raise, Clear, Typed, TypeOK
<1>1. ASSUME NEW h \in Handler, handler' = [handler EXCEPT ![s] = h], alarms' = alarms,
             h.clear \subseteq DOMAIN alarms, h.clear # {} => h.by # "nobody",
             lock' \subseteq Types
      PROVE  Typed'
  BY <1>0, <1>1, TypedStep
<1>2. CASE Save(s) \/ UpdateStatus(s)
  <2> DEFINE h == [handler[s] EXCEPT !.jobs = Tail(@)]
  <2>1. handler[s].jobs # << >>
    BY <1>2 DEF Save, UpdateStatus, NextJob
  <2>2. h \in Handler /\ h.clear = handler[s].clear /\ h.by = handler[s].by
    BY <2>1, JobTaken, HandlerTypes DEF Handler
  <2>3. handler' = [handler EXCEPT ![s] = h] /\ alarms' = alarms
    BY <1>2 DEF Save, UpdateStatus
  <2>4. lock' \subseteq Types
    BY <1>0, <1>2, <2>1, JobTaken, JobTypes DEF Save, UpdateStatus, NextJob
  <2> HIDE DEF h
  <2>5. QED
    BY <1>1, <2>2, <2>3, <2>4, HandlerTypes
<1>3. ASSUME NEW raise \in SUBSET Types, NEW clear \in SUBSET Nat, NEW source \in Sources,
             NEW by \in Whom, Plan(s, raise, clear, source, by), handler[s].jobs # << >>,
             clear \subseteq DOMAIN alarms, clear # {} => by # "nobody",
             alarms' = alarms, lock' = lock
      PROVE  Typed'
  <2> DEFINE h == [jobs |-> Tail(handler[s].jobs), raise |-> raise, clear |-> clear,
                   source |-> source, by |-> by]
  <2>1. h \in Handler /\ h.clear = clear /\ h.by = by
    BY <1>3, JobTaken
  <2>2. handler' = [handler EXCEPT ![s] = h]
    BY <1>3 DEF Plan
  <2> HIDE DEF h
  <2>3. QED
    BY <1>0, <1>1, <1>3, <2>1, <2>2
<1>4. CASE ReadActive(s)
  <2> DEFINE j == Head(handler[s].jobs)
  <2>1. /\ handler[s].jobs # << >> /\ j.kind = "reconcile" /\ alarms' = alarms /\ lock' = lock
        /\ Plan(s, Appeared(Compared(j.source), j.current), Gone(Compared(j.source), j.current),
                j.source, "device_report")
    BY <1>4 DEF ReadActive, NextJob
  <2>2. j.current \in SUBSET Types /\ j.source \in Sources
    BY <2>1, JobTaken, JobTypes, SourceNames
  <2> HIDE DEF j
  <2>3. "device_report" \in Whom
    BY DEF Whom
  <2>4. /\ Appeared(Compared(j.source), j.current) \in SUBSET Types
        /\ Gone(Compared(j.source), j.current) \in SUBSET Nat
        /\ Gone(Compared(j.source), j.current) \subseteq DOMAIN alarms
    BY <2>2, Rows
  <2>5. QED
    BY <1>3, <2>1, <2>2, <2>3, <2>4
<1>5. CASE ReadEvent(s)
  <2> DEFINE j == Head(handler[s].jobs)
  <2>1. /\ handler[s].jobs # << >> /\ j.kind = "event" /\ alarms' = alarms /\ lock' = lock
        /\ Plan(s, Appeared(Compared("lock_upload"), {j.type}), {}, "lock_upload", "nobody")
    BY <1>5 DEF ReadEvent, NextJob, Compared
  <2>2. {j.type} \in SUBSET Types
    BY <2>1, JobTaken, JobTypes
  <2> HIDE DEF j
  <2>3. Appeared(Compared("lock_upload"), {j.type}) \in SUBSET Types
    BY <2>2, Rows
  <2>4. "nobody" \in Whom /\ {} \in SUBSET Nat /\ {} \subseteq DOMAIN alarms
    BY DEF Whom
  <2>5. QED
    BY <1>3, <2>1, <2>3, <2>4, SourceNames
<1>6. CASE ReadCleared(s)
  <2> DEFINE c == {i \in ActiveAlarms : alarms[i].source \in ByCommand}
  <2>1. /\ handler[s].jobs # << >> /\ alarms' = alarms /\ lock' = lock
        /\ Plan(s, {}, c, "lock_upload", "command")
    BY <1>6 DEF ReadCleared, NextJob
  <2>2. c \subseteq DOMAIN alarms /\ c \in SUBSET Nat
    BY Rows
  <2>3. "command" \in Whom /\ {} \in SUBSET Types
    BY DEF Whom
  <2> HIDE DEF c
  <2>4. QED
    BY <1>3, <2>1, <2>2, <2>3, SourceNames
<1>7. CASE Raise(s)
  <2>1. PICK type \in handler[s].raise :
          /\ alarms' = Append(alarms, [source |-> handler[s].source, type |-> type, by |-> "nobody"])
          /\ handler' = [handler EXCEPT ![s] = [handler[s] EXCEPT !.raise = @ \ {type}]]
    BY <1>7 DEF Raise
  <2> DEFINE a == [source |-> handler[s].source, type |-> type, by |-> "nobody"]
             h == [handler[s] EXCEPT !.raise = @ \ {type}]
  <2>2. a \in Alarm
    BY HandlerTypes DEF Alarm
  <2>3. alarms' \in Seq(Alarm) /\ DOMAIN alarms \subseteq DOMAIN alarms'
    <3>1. /\ Append(alarms, a) \in Seq(Alarm) /\ Len(Append(alarms, a)) = Len(alarms) + 1
          /\ Len(alarms) \in Nat
      BY <1>0, <2>2, AppendProperties, LenProperties
    <3>2. DOMAIN alarms = 1..Len(alarms) /\ DOMAIN Append(alarms, a) = 1..Len(Append(alarms, a))
      BY <1>0, <3>1, LenProperties
    <3>3. QED
      BY <2>1, <3>1, <3>2
  <2>4. h \in Handler /\ h.clear = handler[s].clear /\ h.by = handler[s].by
    BY HandlerTypes DEF Handler
  <2>5. lock' = lock
    BY <1>7 DEF Raise
  <2> HIDE DEF h
  <2>6. QED
    BY <1>0, <2>1, <2>3, <2>4, <2>5, HandlerTypes, TypedStep DEF h
<1>8. CASE Clear(s)
  <2>1. PICK i \in handler[s].clear :
          /\ alarms' = [alarms EXCEPT ![i] = [alarms[i] EXCEPT !.by = handler[s].by]]
          /\ handler' = [handler EXCEPT ![s] = [handler[s] EXCEPT !.clear = @ \ {i}]]
    BY <1>8 DEF Clear, Cleared
  <2> DEFINE a == [alarms[i] EXCEPT !.by = handler[s].by]
             h == [handler[s] EXCEPT !.clear = @ \ {i}]
  <2>2. i \in 1..Len(alarms) /\ alarms[i] \in Alarm
    BY <1>0, HandlerTypes, ElementOfSeq
  <2>3. a \in Alarm
    BY <2>2, HandlerTypes DEF Alarm, Whom
  <2>4. alarms' \in Seq(Alarm) /\ DOMAIN alarms \subseteq DOMAIN alarms'
    BY <1>0, <2>1, <2>2, <2>3, ExceptSeq
  <2>5. h \in Handler /\ h.clear = handler[s].clear \ {i} /\ h.by = handler[s].by
    BY HandlerTypes DEF Handler
  <2>6. lock' = lock
    BY <1>8 DEF Clear
  <2> HIDE DEF h
  <2>7. QED
    BY <1>0, <2>1, <2>4, <2>5, <2>6, HandlerTypes, TypedStep DEF h
<1>9. QED
  BY <1>2, <1>4, <1>5, <1>6, <1>7, <1>8 DEF Step

LEMMA OthersTyped ==
  ASSUME Typed, NEW s \in Sessions, Report(s) \/ StoreFails(s)
  PROVE  Typed'
<1> USE DEF used
<1>0. /\ live' = live /\ instant' = instant /\ alarms' = alarms /\ lock' = lock
      /\ DOMAIN alarms \subseteq DOMAIN alarms'
      /\ begun' \in Nat /\ failures' \in Nat /\ lock \subseteq Types /\ alarms' \in Seq(Alarm)
  BY DEF Report, StoreFails, Typed, TypeOK
<1>1. CASE Report(s)
  <2>1. PICK r \in Reports :
          /\ handler' = [handler EXCEPT ![s] = [handler[s] EXCEPT !.jobs = JobsOf(r)]]
          /\ reported' = [source \in Reconciled |->
                            IF Says(r)[source] = Absent THEN reported[source] ELSE Says(r)[source]]
    BY <1>1 DEF Report
  <2> DEFINE h == [handler[s] EXCEPT !.jobs = JobsOf(r)]
  <2>2. JobsOf(r) \in Seq(Job)
    BY JobsOfReport DEF Brings
  <2>3. h \in Handler /\ h.clear = handler[s].clear /\ h.by = handler[s].by
    BY <2>2, HandlerTypes DEF Handler
  <2>4. \A source \in Reconciled : IsPart(Says(r)[source])
    BY AlarmsAssumption DEF Says, IsReport, IsPart, Reconciled
  <2>5. DOMAIN reported' = Reconciled /\ \A source \in Reconciled : IsPart(reported'[source])
    BY <2>1, <2>4 DEF Typed, TypeOK
  <2> HIDE DEF h
  <2>6. QED
    BY <1>0, <2>1, <2>3, <2>5, HandlerTypes, TypedStep DEF h
<1>2. CASE StoreFails(s)
  <2>1. /\ handler' = [handler EXCEPT ![s] = Idle]
        /\ reported' = [source \in Reconciled |-> Absent]
    BY <1>2 DEF StoreFails
  <2>2. Idle \in Handler /\ Idle.clear = {}
    BY SourceNames DEF Idle, Handler, Whom
  <2>3. DOMAIN reported' = Reconciled /\ \A source \in Reconciled : IsPart(reported'[source])
    BY <2>1 DEF IsPart
  <2>4. QED
    BY <1>0, <2>1, <2>2, <2>3, TypedStep
<1>3. QED
  BY <1>1, <1>2

LEMMA TypedNext == Typed /\ [Next]_vars => Typed'
<1>1. ASSUME Typed, Reconnect PROVE Typed'
  <2>1. live' \in Sessions
    BY <1>1, AlarmsAssumption DEF Reconnect, Typed, TypeOK, Sessions
  <2>2. UNCHANGED <<alarms, lock, handler, reported, begun, failures, instant>>
    BY <1>1 DEF Reconnect, used
  <2>3. QED
    BY <1>1, <2>1, <2>2 DEF Typed, TypeOK, HandlerOK
<1>2. ASSUME Typed, UNCHANGED vars PROVE Typed'
  BY <1>2 DEF vars, used, Typed, TypeOK, HandlerOK
<1>3. QED
  BY <1>1, <1>2, StepTyped, OthersTyped DEF Next

\* The variables keep their types; a handler refers to rows that exist.
THEOREM TypeCorrect == Spec => []TypeOK
<1>1. Typed => TypeOK
  BY DEF Typed
<1>2. QED
  BY <1>1, InitTyped, TypedNext, PTL DEF Spec

-----------------------------------------------------------------------------
(***************************************************************************)
(* One report after the other                                              *)
(***************************************************************************)

\* What becomes of the alarms of a source when handler s has done what it has
\* planned: type t has an active one.
Stays(s, X, t) ==
  \/ \E i \in Compared(X) : i \notin handler[s].clear /\ alarms[i].type = t
  \/ handler[s].source = X /\ t \in handler[s].raise

\* It raises no alarm that is active.
Fresh(s) ==
  \A i \in Compared(handler[s].source) : alarms[i].type \notin handler[s].raise

\* When it has done its jobs the active alarms of a source are those that the
\* last report about it gave.
ReportKept(s) ==
  \A X \in Reconciled : reported[X] # Absent =>
    \/ LastSettles(handler[s].jobs, X, reported[X])
    \/ /\ Untouched(handler[s].jobs, X)
       /\ \A t : Stays(s, X, t) <=> t \in reported[X]

\* The alarms of the lock are in the row's lock status, unless they are about to
\* be reconciled with it.
Reconciling(s) == handler[s].jobs # << >> /\ IsLock(handler[s].jobs[1])

StatusKept(s) ==
  failures = 0 =>
    /\ Paired(handler[s].jobs)
    /\ Reconciling(s) => Between(s) /\ handler[s].jobs[1].current = lock
    /\ ~Reconciling(s) => \A t : Stays(s, "lock_status", t) => t \in lock

Kept(s) == Fresh(s) /\ ReportKept(s) /\ StatusKept(s)

\* Nobody else is processing a report.
Sole(s) == \A t \in Sessions : t # s => ~Busy(t)

OneSession == live = 1 => \A s \in Sessions : s # 1 => ~Busy(s)

Orderly == OneByOne => \E s \in Sessions : Sole(s) /\ Kept(s)

-----------------------------------------------------------------------------
\* A job is taken and makes of the alarms what it touches.
LEMMA TailSettles ==
  ASSUME NEW q \in Seq(Job), q # << >>, NEW X, NEW v
  PROVE  /\ Untouched(q, X) => Untouched(Tail(q), X) /\ ~Touches(Head(q), X)
         /\ LastSettles(q, X, v) => \/ LastSettles(Tail(q), X, v)
                                    \/ Settles(Head(q), X, v) /\ Untouched(Tail(q), X)
<1>1. /\ Head(q) = q[1] /\ Len(q) \in Nat /\ 1 \in 1..Len(q) /\ Len(Tail(q)) = Len(q) - 1
      /\ \A i \in 1..Len(Tail(q)) : i + 1 \in 1..Len(q) /\ Tail(q)[i] = q[i + 1]
  BY TailAt
<1>2. Untouched(q, X) => Untouched(Tail(q), X) /\ ~Touches(Head(q), X)
  BY <1>1 DEF Untouched
<1>3. ASSUME NEW i \in 1..Len(q), Settles(q[i], X, v),
             \A j \in 1..Len(q) : j > i => ~Touches(q[j], X)
      PROVE  \/ LastSettles(Tail(q), X, v)
             \/ Settles(Head(q), X, v) /\ Untouched(Tail(q), X)
  <2>1. CASE i = 1
    <3>1. \A j \in 1..Len(Tail(q)) : j + 1 > i
      BY <2>1
    <3>2. QED
      BY <1>1, <1>3, <2>1, <3>1 DEF Untouched
  <2>2. CASE i # 1
    <3>1. i - 1 \in 1..Len(Tail(q)) /\ Tail(q)[i - 1] = q[i]
      BY <1>1, <2>2
    <3>2. \A j \in 1..Len(Tail(q)) : j > i - 1 => ~Touches(Tail(q)[j], X)
      BY <1>1, <1>3
    <3>3. QED
      BY <1>3, <3>1, <3>2 DEF LastSettles
  <2>3. QED
    BY <2>1, <2>2
<1>4. QED
  BY <1>2, <1>3 DEF LastSettles

LEMMA TailPaired ==
  ASSUME NEW q \in Seq(Job), q # << >>, Paired(q)
  PROVE  /\ Paired(Tail(q))
         /\ Tail(q) # << >> /\ IsLock(Tail(q)[1]) => Head(q).kind = "status"
         /\ Head(q).kind = "status" => /\ Tail(q) # << >> /\ IsLock(Tail(q)[1])
                                       /\ Tail(q)[1].current = Head(q).current
<1>1. /\ Head(q) = q[1] /\ Len(q) \in Nat /\ 1 \in 1..Len(q) /\ Len(Tail(q)) = Len(q) - 1
      /\ \A i \in 1..Len(Tail(q)) : i + 1 \in 1..Len(q) /\ Tail(q)[i] = q[i + 1]
      /\ Tail(q) \in Seq(Job)
  BY TailAt
<1>2. Paired(Tail(q))
  <2>1. ASSUME NEW i \in 1..Len(Tail(q)), Tail(q)[i].kind = "status"
        PROVE  /\ i + 1 \in 1..Len(Tail(q)) /\ IsLock(Tail(q)[i + 1])
               /\ Tail(q)[i + 1].current = Tail(q)[i].current
    <3>1. q[i + 1].kind = "status" /\ i + 1 \in 1..Len(q)
      BY <1>1, <2>1
    <3>2. (i + 1) + 1 \in 1..Len(q) /\ IsLock(q[(i + 1) + 1])
          /\ q[(i + 1) + 1].current = q[i + 1].current
      BY <3>1 DEF Paired
    <3>3. i + 1 \in 1..Len(Tail(q))
      BY <1>1, <3>2
    <3>4. QED
      BY <1>1, <3>2, <3>3
  <2>2. ASSUME NEW i \in 1..Len(Tail(q)), IsLock(Tail(q)[i]), i > 1
        PROVE  Tail(q)[i - 1].kind = "status"
    <3>1. IsLock(q[i + 1]) /\ i + 1 \in 1..Len(q) /\ i + 1 > 1
      BY <1>1, <2>2
    <3>2. q[(i + 1) - 1].kind = "status"
      BY <3>1 DEF Paired
    <3>3. i - 1 \in 1..Len(Tail(q)) /\ (i + 1) - 1 = (i - 1) + 1
      BY <1>1, <2>2
    <3>4. QED
      BY <1>1, <3>2, <3>3
  <2>3. QED
    BY <2>1, <2>2 DEF Paired
<1>3. ASSUME Tail(q) # << >> PROVE Len(Tail(q)) # 0 /\ Tail(q)[1] = q[2] /\ 2 \in 1..Len(q)
  <2>1. Len(Tail(q)) # 0
    BY <1>1, <1>3, EmptySeq
  <2>2. 1 \in 1..Len(Tail(q)) /\ 1 + 1 = 2
    BY <1>1, <2>1
  <2>3. QED
    BY <1>1, <2>1, <2>2
<1>4. ASSUME Tail(q) # << >>, IsLock(Tail(q)[1]) PROVE Head(q).kind = "status"
  <2>1. q[2 - 1].kind = "status"
    BY <1>3, <1>4 DEF Paired
  <2>2. QED
    BY <1>1, <2>1
<1>5. ASSUME Head(q).kind = "status"
      PROVE  /\ Tail(q) # << >> /\ IsLock(Tail(q)[1]) /\ Tail(q)[1].current = Head(q).current
  <2>1. 1 + 1 \in 1..Len(q) /\ IsLock(q[1 + 1]) /\ q[1 + 1].current = q[1].current
    BY <1>1, <1>5 DEF Paired
  <2>2. 1 \in 1..Len(Tail(q))
    BY <1>1, <2>1
  <2>3. Tail(q) # << >>
    <3>1. Len(Tail(q)) # 0 /\ Len(<< >>) = 0
      BY <1>1, <2>1
    <3>2. QED
      BY <3>1
  <2>4. QED
    BY <1>1, <1>3, <2>1, <2>3
<1>6. QED
  BY <1>2, <1>4, <1>5

\* With nothing planned, the alarms stay as they are.
LEMMA IdleStays ==
  ASSUME Typed, NEW s \in Sessions, Between(s), NEW X, NEW t
  PROVE  Stays(s, X, t) <=> \E i \in Compared(X) : alarms[i].type = t
BY DEF Between, Stays

\* A job that is taken, and what it plans for each source.
LEMMA ReportTaken ==
  ASSUME Typed, NEW s \in Sessions, ReportKept(s), handler[s].jobs # << >>,
         handler'[s].jobs = Tail(handler[s].jobs), reported' = reported,
         NEW j, j = Head(handler[s].jobs),
         \A X \in Reconciled : ~Touches(j, X) => \A t : Stays(s, X, t)' <=> Stays(s, X, t),
         \A X \in Reconciled : \A v : Settles(j, X, v) => \A t : Stays(s, X, t)' <=> t \in v
  PROVE  ReportKept(s)'
<1> SUFFICES ASSUME NEW X \in Reconciled, reported[X] # Absent
             PROVE  \/ LastSettles(Tail(handler[s].jobs), X, reported[X])
                    \/ /\ Untouched(Tail(handler[s].jobs), X)
                       /\ \A t : Stays(s, X, t)' <=> t \in reported[X]
  BY DEF ReportKept
<1>1. handler[s].jobs \in Seq(Job)
  BY HandlerTypes
<1>2. CASE LastSettles(handler[s].jobs, X, reported[X])
  BY <1>1, <1>2, TailSettles
<1>3. CASE /\ Untouched(handler[s].jobs, X)
           /\ \A t : Stays(s, X, t) <=> t \in reported[X]
  <2>1. Untouched(Tail(handler[s].jobs), X) /\ ~Touches(j, X)
    BY <1>1, <1>3, TailSettles
  <2>2. QED
    BY <1>3, <2>1
<1>4. QED
  BY <1>2, <1>3 DEF ReportKept

\* The same for the lock status of the row.
LEMMA StatusTaken ==
  ASSUME Typed, NEW s \in Sessions, StatusKept(s), handler[s].jobs # << >>,
         handler'[s].jobs = Tail(handler[s].jobs), failures' = failures, lock' = lock,
         NEW j, j = Head(handler[s].jobs), j.kind # "status",
         \A t : Stays(s, "lock_status", t)' =>
                  IF IsLock(j) THEN t \in j.current ELSE Stays(s, "lock_status", t)
  PROVE  StatusKept(s)'
<1> SUFFICES ASSUME failures = 0 PROVE StatusKept(s)'
  BY DEF StatusKept
<1>1. /\ handler[s].jobs \in Seq(Job) /\ Paired(handler[s].jobs)
      /\ IsLock(j) => j.current = lock
      /\ ~IsLock(j) => \A t : Stays(s, "lock_status", t) => t \in lock
  <2>1. handler[s].jobs \in Seq(Job) /\ j = handler[s].jobs[1]
    BY HandlerTypes, TailAt
  <2>2. QED
    BY <2>1 DEF StatusKept, Reconciling
<1>2. /\ Paired(Tail(handler[s].jobs))
      /\ ~(Tail(handler[s].jobs) # << >> /\ IsLock(Tail(handler[s].jobs)[1]))
  BY <1>1, TailPaired
<1>3. ~Reconciling(s)' /\ Paired(handler[s].jobs)'
  BY <1>2 DEF Reconciling
<1>4. \A t : Stays(s, "lock_status", t)' => t \in lock'
  BY <1>1
<1>5. QED
  BY <1>3, <1>4 DEF StatusKept

\* Jobs that plan nothing.
LEMMA SaveKept ==
  ASSUME Typed, NEW s \in Sessions, Save(s) \/ UpdateStatus(s), Kept(s)
  PROVE  Kept(s)'
<1> DEFINE j == Head(handler[s].jobs)
           h == [handler[s] EXCEPT !.jobs = Tail(@)]
<1>1. /\ Between(s) /\ handler[s].jobs # << >> /\ j.kind \in {"save", "status"}
      /\ handler' = [handler EXCEPT ![s] = h]
      /\ alarms' = alarms /\ reported' = reported /\ failures' = failures
      /\ Save(s) => j.kind = "save" /\ lock' = lock
      /\ UpdateStatus(s) => j.kind = "status" /\ lock' = j.current
  BY DEF Save, UpdateStatus, NextJob, used
<1>2. /\ h.jobs = Tail(handler[s].jobs) /\ h.raise = handler[s].raise
      /\ h.clear = handler[s].clear /\ h.source = handler[s].source
  BY HandlerTypes DEF Handler
<1> HIDE DEF h
<1>3. handler'[s] = h
  BY <1>1 DEF Typed
<1>4. \A X : Compared(X)' = Compared(X)
  BY <1>1 DEF Compared, ActiveAlarms
<1>5. \A X, t : Stays(s, X, t)' <=> Stays(s, X, t)
  BY <1>1, <1>2, <1>3, <1>4 DEF Stays
<1>6. Fresh(s)'
  BY <1>1, <1>2, <1>3, <1>4 DEF Fresh, Kept
<1>7. PICK m : m = j
  OBVIOUS
<1>8. \A X, v : ~Touches(m, X) /\ ~Settles(m, X, v)
  BY <1>1, <1>7 DEF Touches, Settles
<1>9. ReportKept(s)'
  BY <1>1, <1>2, <1>3, <1>5, <1>7, <1>8, ReportTaken DEF Kept
<1>10. StatusKept(s)'
  <2>1. CASE Save(s)
    <3>1. m.kind # "status" /\ ~IsLock(m)
      BY <1>1, <1>7, <2>1 DEF IsLock
    <3>2. QED
      BY <1>1, <1>2, <1>3, <1>5, <1>7, <2>1, <3>1, StatusTaken DEF Kept
  <2>2. CASE UpdateStatus(s)
    <3>1. SUFFICES ASSUME failures = 0 PROVE StatusKept(s)'
      BY <1>1 DEF StatusKept
    <3>2. handler[s].jobs \in Seq(Job) /\ Paired(handler[s].jobs)
      BY <3>1, HandlerTypes DEF Kept, StatusKept
    <3>3. /\ Paired(Tail(handler[s].jobs))
          /\ Tail(handler[s].jobs) # << >> /\ IsLock(Tail(handler[s].jobs)[1])
          /\ Tail(handler[s].jobs)[1].current = j.current
      BY <1>1, <2>2, <3>2, TailPaired
    <3>4. Reconciling(s)' /\ Paired(handler[s].jobs)' /\ handler'[s].jobs[1].current = lock'
      BY <1>1, <1>2, <1>3, <2>2, <3>3 DEF Reconciling
    <3>5. Between(s)'
      BY <1>1, <1>2, <1>3 DEF Between
    <3>6. QED
      BY <3>4, <3>5 DEF StatusKept
  <2>3. QED
    BY <2>1, <2>2
<1>11. QED
  BY <1>6, <1>9, <1>10 DEF Kept

\* Jobs that compare the active alarms with what is reported.
LEMMA PlanKept ==
  ASSUME Typed, NEW s \in Sessions, Kept(s), Between(s), handler[s].jobs # << >>,
         NEW j, j = Head(handler[s].jobs), j.kind # "status",
         NEW raise, NEW clear, NEW source, NEW by, Plan(s, raise, clear, source, by),
         alarms' = alarms, lock' = lock, reported' = reported, failures' = failures,
         \A i \in Compared(source) : alarms[i].type \notin raise,
         \A X \in Reconciled : \A v : Settles(j, X, v) =>
           \A t : t \in v <=> \/ \E i \in Compared(X) : i \notin clear /\ alarms[i].type = t
                              \/ source = X /\ t \in raise,
         \A X \in Reconciled : ~Touches(j, X) => source # X /\ \A i \in Compared(X) : i \notin clear
  PROVE  Kept(s)'
<1> DEFINE h == [jobs |-> Tail(handler[s].jobs), raise |-> raise, clear |-> clear,
                 source |-> source, by |-> by]
<1>1. handler'[s] = h
  BY DEF Plan, Typed
<1>2. h.jobs = Tail(handler[s].jobs) /\ h.raise = raise /\ h.clear = clear /\ h.source = source
  OBVIOUS
<1> HIDE DEF h
<1>3. \A X : Compared(X)' = Compared(X)
  BY DEF Compared, ActiveAlarms
<1>4. \A X, t : Stays(s, X, t)' <=> \/ \E i \in Compared(X) : i \notin clear /\ alarms[i].type = t
                                    \/ source = X /\ t \in raise
  BY <1>1, <1>2, <1>3 DEF Stays
<1>5. \A X \in Reconciled : \A v : Settles(j, X, v) => \A t : Stays(s, X, t)' <=> t \in v
  BY <1>4
<1>6. \A X \in Reconciled : ~Touches(j, X) => \A t : Stays(s, X, t)' <=> Stays(s, X, t)
  BY <1>4, IdleStays
<1>7. Fresh(s)'
  BY <1>1, <1>2, <1>3 DEF Fresh
<1>8. ReportKept(s)'
  BY <1>1, <1>2, <1>5, <1>6, ReportTaken DEF Kept
<1>9. \A t : Stays(s, "lock_status", t)' =>
               IF IsLock(j) THEN t \in j.current ELSE Stays(s, "lock_status", t)
  <2>1. CASE IsLock(j)
    <3>1. Settles(j, "lock_status", j.current)
      BY <2>1 DEF IsLock, Settles
    <3>2. QED
      BY <1>5, <2>1, <3>1, SourceNames
  <2>2. CASE j.kind = "clear"
    <3>1. Settles(j, "lock_status", {}) /\ ~IsLock(j)
      BY <2>2 DEF IsLock, Settles
    <3>2. QED
      BY <1>5, <3>1, SourceNames
  <2>3. CASE ~IsLock(j) /\ j.kind # "clear"
    <3>1. ~Touches(j, "lock_status")
      BY <2>3 DEF IsLock, Touches
    <3>2. QED
      BY <1>6, <2>3, <3>1, SourceNames
  <2>4. QED
    BY <2>1, <2>2, <2>3
<1>10. StatusKept(s)'
  BY <1>1, <1>2, <1>9, StatusTaken DEF Kept
<1>11. QED
  BY <1>7, <1>8, <1>10 DEF Kept

LEMMA ReadKept ==
  ASSUME Typed, NEW s \in Sessions, ReadActive(s) \/ ReadEvent(s) \/ ReadCleared(s), Kept(s)
  PROVE  Kept(s)'
<1>1. PICK j : j = Head(handler[s].jobs)
  OBVIOUS
<1>2. /\ Between(s) /\ handler[s].jobs # << >> /\ alarms' = alarms /\ lock' = lock
      /\ reported' = reported /\ failures' = failures
  BY DEF ReadActive, ReadEvent, ReadCleared, NextJob, used
<1>3. CASE ReadActive(s)
  <2>1. /\ j.kind = "reconcile"
        /\ Plan(s, Appeared(Compared(j.source), j.current), Gone(Compared(j.source), j.current),
                j.source, "device_report")
    BY <1>1, <1>3 DEF ReadActive, NextJob
  <2> DEFINE raise == Appeared(Compared(j.source), j.current)
             clear == Gone(Compared(j.source), j.current)
  <2>2. \A i \in Compared(j.source) : alarms[i].type \notin raise
    BY DEF Appeared, TypesOf
  <2>3. \A X \in Reconciled : \A v : Settles(j, X, v) => X = j.source /\ v = j.current
    BY <2>1 DEF Settles
  <2>4. \A t : t \in j.current <=>
                 \/ \E i \in Compared(j.source) : i \notin clear /\ alarms[i].type = t
                 \/ t \in raise
    BY DEF Appeared, TypesOf, Gone
  <2>5. \A X \in Reconciled : ~Touches(j, X) =>
          j.source # X /\ \A i \in Compared(X) : i \notin clear
    BY <2>1 DEF Touches, Gone, Compared
  <2> HIDE DEF raise, clear
  <2>6. Plan(s, raise, clear, j.source, "device_report")
    BY <2>1 DEF raise, clear
  <2>7. \A X \in Reconciled : \A v : Settles(j, X, v) =>
           \A t : t \in v <=> \/ \E i \in Compared(X) : i \notin clear /\ alarms[i].type = t
                              \/ j.source = X /\ t \in raise
    BY <2>3, <2>4
  <2>8. j.kind # "status"
    BY <2>1
  <2>9. QED
    BY <1>1, <1>2, <2>2, <2>5, <2>6, <2>7, <2>8, PlanKept
<1>4. CASE ReadEvent(s)
  <2> DEFINE raise == Appeared(Compared("lock_upload"), {j.type})
  <2>1. j.kind = "event" /\ Plan(s, raise, {}, "lock_upload", "nobody")
    BY <1>1, <1>4 DEF ReadEvent, NextJob, Compared
  <2>2. \A i \in Compared("lock_upload") : alarms[i].type \notin raise
    BY DEF Appeared, TypesOf
  <2>3. \A X, v : ~Settles(j, X, v) /\ ~Touches(j, X)
    BY <2>1 DEF Settles, Touches
  <2> HIDE DEF raise
  <2>4. j.kind # "status" /\ \A X \in Reconciled : "lock_upload" # X
    BY <2>1, SourceNames
  <2>5. QED
    BY <1>1, <1>2, <2>1, <2>2, <2>3, <2>4, PlanKept
<1>5. CASE ReadCleared(s)
  <2> DEFINE clear == {i \in ActiveAlarms : alarms[i].source \in ByCommand}
  <2>1. j.kind = "clear" /\ Plan(s, {}, clear, "lock_upload", "command")
    BY <1>1, <1>5 DEF ReadCleared, NextJob
  <2>2. \A X, v : Settles(j, X, v) => X = "lock_status" /\ v = {}
    BY <2>1 DEF Settles
  <2>3. \A i \in Compared("lock_status") : i \in clear
    BY DEF Compared, ByCommand
  <2>4. \A X \in Reconciled : ~Touches(j, X) => \A i \in Compared(X) : i \notin clear
    BY <2>1 DEF Touches, Compared, ByCommand, Reconciled
  <2> HIDE DEF clear
  <2>5. j.kind # "status" /\ \A X \in Reconciled : "lock_upload" # X
    BY <2>1, SourceNames
  <2>6. QED
    BY <1>1, <1>2, <2>1, <2>2, <2>3, <2>4, <2>5, PlanKept
<1>6. QED
  BY <1>3, <1>4, <1>5

\* What is planned is done: nothing that a job plans is changed by doing it.
LEMMA DoneKept ==
  ASSUME NEW s \in Sessions, Kept(s), ~Between(s), Fresh(s)',
         handler'[s].jobs = handler[s].jobs, reported' = reported, failures' = failures,
         lock' = lock, \A X, t : Stays(s, X, t)' <=> Stays(s, X, t)
  PROVE  Kept(s)'
<1>1. ReportKept(s)'
  BY DEF Kept, ReportKept
<1>2. ASSUME failures = 0 PROVE StatusKept(s)'
  <2>1. /\ Paired(handler[s].jobs) /\ ~Reconciling(s)
        /\ \A t : Stays(s, "lock_status", t) => t \in lock
    BY <1>2 DEF Kept, StatusKept
  <2>2. Paired(handler[s].jobs)' /\ ~Reconciling(s)'
    BY <2>1 DEF Reconciling
  <2>3. \A t : Stays(s, "lock_status", t)' => t \in lock'
    BY <2>1
  <2>4. QED
    BY <2>2, <2>3 DEF StatusKept
<1>3. StatusKept(s)'
  <2>1. CASE failures = 0
    BY <1>2, <2>1
  <2>2. CASE failures # 0
    BY <2>2 DEF StatusKept
  <2>3. QED
    BY <2>1, <2>2
<1>4. QED
  BY <1>1, <1>3 DEF Kept

\* A condition has at most one active alarm.
OneEach == \A i, j \in ActiveAlarms :
             alarms[i].source = alarms[j].source /\ alarms[i].type = alarms[j].type => i = j

LEMMA RaiseKept ==
  ASSUME Typed, NEW s \in Sessions, Raise(s), Kept(s)
  PROVE  Kept(s)' /\ (OneEach => OneEach')
<1>1. PICK type \in handler[s].raise :
        /\ alarms' = Append(alarms, [source |-> handler[s].source, type |-> type, by |-> "nobody"])
        /\ handler' = [handler EXCEPT ![s] = [handler[s] EXCEPT !.raise = @ \ {type}]]
  BY DEF Raise
<1> DEFINE a == [source |-> handler[s].source, type |-> type, by |-> "nobody"]
           h == [handler[s] EXCEPT !.raise = @ \ {type}]
           n == Len(alarms) + 1
           src == handler[s].source
<1>2. lock' = lock /\ reported' = reported /\ failures' = failures
  BY DEF Raise, used
<1>3. /\ h.jobs = handler[s].jobs /\ h.raise = handler[s].raise \ {type}
      /\ h.clear = handler[s].clear /\ h.source = src
  BY HandlerTypes DEF Handler
<1>4. a \in Alarm /\ a.source = src /\ a.type = type /\ a.by = "nobody"
  BY HandlerTypes DEF Alarm
<1> HIDE DEF h, a
<1>5. handler'[s] = h
  BY <1>1 DEF Typed, h
<1>6. /\ DOMAIN alarms' = DOMAIN alarms \cup {n} /\ n \notin DOMAIN alarms /\ alarms'[n] = a
      /\ \A i \in DOMAIN alarms : alarms'[i] = alarms[i]
  <2>1. /\ alarms' \in Seq(Alarm) /\ Len(alarms') = Len(alarms) + 1
        /\ \A i \in 1..Len(alarms) : alarms'[i] = alarms[i]
        /\ alarms'[n] = a
    BY <1>1, <1>4, HandlerTypes, AppendProperties DEF a
  <2>2. DOMAIN alarms' = 1..Len(alarms')
    BY <2>1, LenProperties
  <2>3. QED
    BY <2>1, <2>2, HandlerTypes
<1> HIDE DEF n, src
<1>7. ActiveAlarms' = ActiveAlarms \cup {n}
  BY <1>4, <1>6 DEF ActiveAlarms
<1>8. \A X : Compared(X)' = Compared(X) \cup (IF src = X THEN {n} ELSE {})
  BY <1>4, <1>6, <1>7 DEF Compared, ActiveAlarms
<1>9. Compared(src) \subseteq DOMAIN alarms /\ \A X : Compared(X) \subseteq DOMAIN alarms
  BY DEF Compared, ActiveAlarms
<1>10. \A i \in Compared(src) : alarms[i].type \notin handler[s].raise
  BY DEF Kept, Fresh, src
<1>11. Fresh(s)'
  <2>1. ASSUME NEW i \in Compared(src) \cup {n} PROVE alarms'[i].type \notin h.raise
    BY <1>3, <1>4, <1>6, <1>9, <1>10, <2>1
  <2>2. handler'[s].source = src /\ handler'[s].raise = h.raise
    BY <1>3, <1>5
  <2>3. PICK x : x = src
    OBVIOUS
  <2>4. Compared(x)' = Compared(src) \cup {n}
    BY <1>8, <2>3
  <2>5. \A i \in Compared(x)' : alarms'[i].type \notin handler'[s].raise
    BY <2>1, <2>2, <2>4
  <2>6. QED
    BY <2>2, <2>3, <2>5 DEF Fresh
<1>12. n \notin handler[s].clear
  BY <1>6, HandlerTypes
<1>13. ASSUME NEW X, NEW t PROVE Stays(s, X, t)' <=> Stays(s, X, t)
  <2>1. (\E i \in Compared(X)' : i \notin h.clear /\ alarms'[i].type = t) <=>
          \/ \E i \in Compared(X) : i \notin handler[s].clear /\ alarms[i].type = t
          \/ src = X /\ t = type
    BY <1>3, <1>4, <1>6, <1>8, <1>9, <1>12
  <2>2. t \in h.raise \/ t = type <=> t \in handler[s].raise
    BY <1>1, <1>3
  <2>3. Stays(s, X, t)' <=>
          \/ \E i \in Compared(X)' : i \notin h.clear /\ alarms'[i].type = t
          \/ src = X /\ t \in h.raise
    BY <1>3, <1>5 DEF Stays
  <2>4. QED
    BY <2>1, <2>2, <2>3 DEF Stays, src
<1>14. ~Between(s)
  BY <1>1 DEF Between
<1>15. handler'[s].jobs = handler[s].jobs
  BY <1>3, <1>5
<1>16. Kept(s)'
  BY <1>2, <1>11, <1>13, <1>14, <1>15, DoneKept
<1>17. ASSUME OneEach PROVE OneEach'
  <2>1. ASSUME NEW i \in ActiveAlarms
        PROVE  ~(alarms[i].source = a.source /\ alarms[i].type = a.type)
    BY <1>1, <1>4, <1>10, <2>1 DEF Compared
  <2>2. \A i \in ActiveAlarms : alarms'[i] = alarms[i]
    BY <1>6 DEF ActiveAlarms
  <2>3. QED
    BY <1>6, <1>7, <1>17, <2>1, <2>2 DEF OneEach
<1>18. QED
  BY <1>16, <1>17

LEMMA ClearKept ==
  ASSUME Typed, NEW s \in Sessions, Clear(s), Kept(s)
  PROVE  Kept(s)' /\ (OneEach => OneEach')
<1>1. PICK c \in handler[s].clear :
        /\ alarms' = [alarms EXCEPT ![c] = [alarms[c] EXCEPT !.by = handler[s].by]]
        /\ handler' = [handler EXCEPT ![s] = [handler[s] EXCEPT !.clear = @ \ {c}]]
  BY DEF Clear, Cleared
<1> DEFINE a == [alarms[c] EXCEPT !.by = handler[s].by]
           h == [handler[s] EXCEPT !.clear = @ \ {c}]
<1>2. lock' = lock /\ reported' = reported /\ failures' = failures /\ handler[s].raise = {}
  BY DEF Clear, used
<1>3. /\ h.jobs = handler[s].jobs /\ h.raise = handler[s].raise
      /\ h.clear = handler[s].clear \ {c} /\ h.source = handler[s].source
  BY HandlerTypes DEF Handler
<1>4. c \in 1..Len(alarms) /\ alarms[c] \in Alarm /\ handler[s].by # "nobody"
  BY HandlerTypes, ElementOfSeq
<1>5. a.by # "nobody"
  BY <1>4 DEF Alarm
<1> HIDE DEF h, a
<1>6. handler'[s] = h
  BY <1>1 DEF Typed, h
<1>7. /\ DOMAIN alarms' = DOMAIN alarms /\ alarms'[c] = a
      /\ \A i \in DOMAIN alarms : i # c => alarms'[i] = alarms[i]
  BY <1>1, <1>4, HandlerTypes DEF a
<1>8. ActiveAlarms' = ActiveAlarms \ {c}
  BY <1>5, <1>7 DEF ActiveAlarms
<1>9. \A X : Compared(X)' = Compared(X) \ {c}
  BY <1>7, <1>8 DEF Compared, ActiveAlarms
<1>10. \A X : \A i \in Compared(X)' : alarms'[i] = alarms[i]
  BY <1>7, <1>9 DEF Compared, ActiveAlarms
<1>11. Fresh(s)'
  BY <1>2, <1>3, <1>6 DEF Fresh
<1>12. ASSUME NEW X, NEW t PROVE Stays(s, X, t)' <=> Stays(s, X, t)
  <2>1. (\E i \in Compared(X)' : i \notin h.clear /\ alarms'[i].type = t) <=>
          \E i \in Compared(X) : i \notin handler[s].clear /\ alarms[i].type = t
    BY <1>1, <1>3, <1>9, <1>10
  <2>2. Stays(s, X, t)' <=>
          \/ \E i \in Compared(X)' : i \notin h.clear /\ alarms'[i].type = t
          \/ handler[s].source = X /\ t \in handler[s].raise
    BY <1>3, <1>6 DEF Stays
  <2>3. QED
    BY <2>1, <2>2 DEF Stays
<1>13. ~Between(s)
  BY <1>1 DEF Between
<1>14. handler'[s].jobs = handler[s].jobs
  BY <1>3, <1>6
<1>15. Kept(s)'
  BY <1>2, <1>11, <1>12, <1>13, <1>14, DoneKept
<1>16. ASSUME OneEach PROVE OneEach'
  <2>1. \A i \in ActiveAlarms' : i \in ActiveAlarms /\ alarms'[i] = alarms[i]
    BY <1>7, <1>8 DEF ActiveAlarms
  <2>2. QED
    BY <1>16, <2>1 DEF OneEach
<1>17. QED
  BY <1>15, <1>16

\* A step of a handler is one of a session that is processing a report.
LEMMA StepKept ==
  ASSUME Typed, NEW s \in Sessions, Step(s), Kept(s)
  PROVE  Kept(s)' /\ (OneEach => OneEach')
<1>1. CASE Save(s) \/ UpdateStatus(s) \/ ReadActive(s) \/ ReadEvent(s) \/ ReadCleared(s)
  <2>1. alarms' = alarms
    BY <1>1 DEF Save, UpdateStatus, ReadActive, ReadEvent, ReadCleared
  <2>2. OneEach => OneEach'
    BY <2>1 DEF OneEach, ActiveAlarms
  <2>3. QED
    BY <1>1, <2>2, SaveKept, ReadKept
<1>2. QED
  BY <1>1, RaiseKept, ClearKept DEF Step

LEMMA StepBusy ==
  ASSUME NEW s \in Sessions, Step(s)
  PROVE  Busy(s)
BY DEF Step, Save, UpdateStatus, ReadActive, ReadEvent, ReadCleared, Raise, Clear, NextJob,
       Between, Busy

LEMMA OthersIdle ==
  ASSUME Typed, NEW s \in Sessions, Step(s) \/ Report(s) \/ StoreFails(s),
         NEW t \in Sessions, t # s
  PROVE  handler'[t] = handler[t] /\ (Busy(t)' <=> Busy(t))
<1>1. handler'[t] = handler[t]
  BY DEF Typed, Step, Save, UpdateStatus, ReadActive, ReadEvent, ReadCleared, Plan, Raise, Clear,
         Report, StoreFails
<1>2. QED
  BY <1>1 DEF Busy, Between

\* An idle session has nothing of its own: what is kept is the same for all.
LEMMA IdleKept ==
  ASSUME Typed, NEW s \in Sessions, NEW t \in Sessions, ~Busy(s), ~Busy(t), Kept(s)
  PROVE  \A X \in Reconciled : reported[X] # Absent =>
           \A u : Stays(t, X, u) <=> u \in reported[X]
<1>1. handler[s].jobs = << >> /\ Between(s) /\ handler[t].jobs = << >> /\ Between(t)
  BY DEF Busy
<1>2. Len(<< >>) = 0
  OBVIOUS
<1>3. ASSUME NEW X \in Reconciled, reported[X] # Absent, NEW u
      PROVE  Stays(s, X, u) <=> u \in reported[X]
  BY <1>1, <1>2, <1>3 DEF Kept, ReportKept, LastSettles
<1>4. \A X, u : Stays(s, X, u) <=> Stays(t, X, u)
  BY <1>1, IdleStays
<1>5. QED
  BY <1>3, <1>4

\* A report that is taken when no other is being processed.
LEMMA ReportTakes ==
  ASSUME Typed, AllIdle, NEW w \in Sessions, Kept(w), NEW s \in Sessions, Report(s)
  PROVE  Kept(s)'
<1>1. PICK r \in Reports :
        /\ handler' = [handler EXCEPT ![s] = [handler[s] EXCEPT !.jobs = JobsOf(r)]]
        /\ reported' = [source \in Reconciled |->
                          IF Says(r)[source] = Absent THEN reported[source] ELSE Says(r)[source]]
  BY DEF Report
<1> DEFINE h == [handler[s] EXCEPT !.jobs = JobsOf(r)]
<1>2. alarms' = alarms /\ lock' = lock /\ failures' = failures
  BY DEF Report
<1>3. /\ h.jobs = JobsOf(r) /\ h.raise = handler[s].raise
      /\ h.clear = handler[s].clear /\ h.source = handler[s].source
  BY HandlerTypes DEF Handler
<1> HIDE DEF h
<1>4. handler'[s] = h
  BY <1>1 DEF Typed, h
<1>5. /\ handler[s].raise = {} /\ handler[s].clear = {} /\ ~Busy(s) /\ ~Busy(w)
      /\ handler[w].jobs = << >> /\ Between(s) /\ Between(w)
  BY DEF AllIdle, Busy, Between
<1>6. Fresh(s)'
  BY <1>3, <1>4, <1>5 DEF Fresh
<1>7. \A X : Compared(X)' = Compared(X)
  BY <1>2 DEF Compared, ActiveAlarms
<1>8. \A X, t : Stays(s, X, t)' <=> Stays(s, X, t)
  BY <1>2, <1>3, <1>4, <1>7 DEF Stays
<1>9. /\ JobsOf(r) \in Seq(Job) /\ Paired(JobsOf(r)) /\ StartsFree(JobsOf(r))
      /\ \A X \in Reconciled : Tells(JobsOf(r), X, Says(r)[X])
  BY JobsOfReport DEF Brings, Reconciled
<1>10. ReportKept(s)'
  <2>1. ASSUME NEW X \in Reconciled, reported'[X] # Absent
        PROVE  \/ LastSettles(JobsOf(r), X, reported'[X])
               \/ Untouched(JobsOf(r), X) /\ \A t : Stays(s, X, t)' <=> t \in reported'[X]
    <3>1. CASE Says(r)[X] = Absent
      <4>1. Untouched(JobsOf(r), X) /\ reported'[X] = reported[X]
        BY <1>1, <1>9, <3>1 DEF Tells
      <4>2. \A t : Stays(s, X, t) <=> t \in reported[X]
        BY <1>5, <2>1, <4>1, IdleKept
      <4>3. QED
        BY <1>8, <4>1, <4>2
    <3>2. CASE Says(r)[X] # Absent
      BY <1>1, <1>9, <3>2 DEF Tells
    <3>3. QED
      BY <3>1, <3>2
  <2>2. QED
    BY <1>3, <1>4, <2>1 DEF ReportKept
<1>11. ASSUME failures = 0 PROVE StatusKept(s)'
  <2>1. Paired(handler[s].jobs)' /\ ~Reconciling(s)'
    BY <1>3, <1>4, <1>9 DEF Reconciling, StartsFree
  <2>2. \A t : Stays(w, "lock_status", t) => t \in lock
    BY <1>5, <1>11 DEF Kept, StatusKept, Reconciling
  <2>3. \A t : Stays(s, "lock_status", t) <=> Stays(w, "lock_status", t)
    BY <1>5, IdleStays
  <2>4. \A t : Stays(s, "lock_status", t)' => t \in lock'
    BY <1>2, <1>8, <2>2, <2>3
  <2>5. QED
    BY <2>1, <2>4 DEF StatusKept
<1>12. StatusKept(s)'
  <2>1. CASE failures = 0
    BY <1>11, <2>1
  <2>2. CASE failures # 0
    BY <1>2, <2>2 DEF StatusKept
  <2>3. QED
    BY <2>1, <2>2
<1>13. QED
  BY <1>6, <1>10, <1>12 DEF Kept

Tidy == Typed /\ OneSession /\ Orderly /\ OneActiveRow

LEMMA InitTidy == Init => Tidy
<1> SUFFICES ASSUME Init PROVE Tidy
  OBVIOUS
<1>1. Typed
  BY InitTyped
<1>2. \A s \in Sessions : handler[s] = Idle
  BY DEF Init
<1>3. /\ Idle.jobs = << >> /\ Idle.raise = {} /\ Idle.clear = {} /\ Len(<< >>) = 0
  BY DEF Idle
<1>4. \A s \in Sessions : ~Busy(s) /\ Between(s)
  BY <1>2, <1>3 DEF Busy, Between
<1>5. ActiveAlarms = {} /\ \A X : Compared(X) = {}
  BY DEF ActiveAlarms, Compared, Init
<1>6. \A s \in Sessions : \A X, t : ~Stays(s, X, t)
  BY <1>2, <1>3, <1>5 DEF Stays
<1>7. 1 \in Sessions
  BY <1>1 DEF Init, Typed, TypeOK
<1>8. Kept(1)
  <2>1. Fresh(1)
    BY <1>5 DEF Fresh
  <2>2. ReportKept(1)
    BY DEF Init, ReportKept
  <2>3. Paired(handler[1].jobs) /\ ~Reconciling(1)
    BY <1>2, <1>3, <1>7 DEF Paired, Reconciling
  <2>4. QED
    BY <1>6, <1>7, <2>1, <2>2, <2>3 DEF Kept, StatusKept
<1>9. QED
  BY <1>1, <1>4, <1>5, <1>7, <1>8 DEF Tidy, OneSession, Orderly, OneActiveRow, Sole

LEMMA TidyNext == Tidy /\ [Next]_vars => Tidy'
<1> SUFFICES ASSUME Tidy, [Next]_vars PROVE Tidy'
  OBVIOUS
<1>1. Typed /\ Typed'
  BY TypedNext DEF Tidy
<1>2. OneActiveRow <=> (OneByOne => OneEach)
  BY DEF OneActiveRow, OneEach
<1>3. ASSUME UNCHANGED vars PROVE Tidy'
  <2> USE DEF vars, used
  <2>1. \A s \in Sessions : (Busy(s)' <=> Busy(s)) /\ (Kept(s)' <=> Kept(s))
    BY <1>3 DEF Busy, Between, Kept, Fresh, ReportKept, StatusKept, Reconciling, Stays, Compared,
                ActiveAlarms
  <2>2. (OneByOne' <=> OneByOne) /\ (OneActiveRow' <=> OneActiveRow)
    BY <1>3 DEF OneByOne, OneActiveRow, ActiveAlarms
  <2>3. QED
    BY <1>1, <1>3, <2>1, <2>2 DEF Tidy, OneSession, Orderly, Sole
<1>4. ASSUME Reconnect PROVE Tidy'
  <2> USE DEF used
  <2>1. live' # 1 /\ live' = live + 1 /\ UNCHANGED <<alarms, lock, handler, reported, failures, instant>>
    BY <1>1, <1>4 DEF Reconnect, Typed, TypeOK, Sessions
  <2>2. OneByOne' => OneByOne
    BY <2>1 DEF OneByOne
  <2>3. \A s \in Sessions : (Busy(s)' <=> Busy(s)) /\ (Kept(s)' <=> Kept(s))
    BY <2>1 DEF Busy, Between, Kept, Fresh, ReportKept, StatusKept, Reconciling, Stays, Compared,
                ActiveAlarms
  <2>4. OneEach' <=> OneEach
    BY <2>1 DEF OneEach, ActiveAlarms
  <2>5. OneSession'
    BY <2>1 DEF OneSession
  <2>6. Orderly'
    BY <2>2, <2>3 DEF Tidy, Orderly, Sole
  <2>7. OneActiveRow'
    BY <2>2, <2>4 DEF Tidy, OneActiveRow, OneEach
  <2>8. QED
    BY <1>1, <2>5, <2>6, <2>7 DEF Tidy
<1>5. ASSUME NEW s \in Sessions, Report(s) \/ Step(s) \/ StoreFails(s) PROVE Tidy'
  <2>1. live' = live /\ instant' = instant
    BY <1>5 DEF Report, Step, Save, UpdateStatus, ReadActive, ReadEvent, ReadCleared, Raise, Clear,
                StoreFails, used
  <2>2. OneByOne' <=> OneByOne
    BY <2>1 DEF OneByOne
  <2>3. \A t \in Sessions : t # s => (Busy(t)' <=> Busy(t))
    BY <1>1, <1>5, OthersIdle
  <2>4. live = 1 => s = 1
    <3>1. CASE Report(s)
      BY <3>1 DEF Report, Sessions
    <3>2. CASE Step(s) \/ StoreFails(s)
      BY <3>2, StepBusy DEF StoreFails, Tidy, OneSession
    <3>3. QED
      BY <1>5, <3>1, <3>2
  <2>5. OneSession'
    BY <2>1, <2>3, <2>4 DEF Tidy, OneSession
  <2>6. ASSUME OneByOne PROVE Sole(s)' /\ Kept(s)' /\ (OneEach => OneEach')
    <3>1. PICK w \in Sessions : Sole(w) /\ Kept(w)
      BY <2>6 DEF Tidy, Orderly
    <3>2. CASE Report(s)
      <4>1. AllIdle
        BY <2>4, <2>6, <3>2 DEF Report, LoopFree, OneByOne, Tidy, OneSession, AllIdle
      <4>2. Kept(s)'
        BY <1>1, <3>1, <3>2, <4>1, ReportTakes
      <4>3. Sole(s)'
        BY <2>3, <4>1 DEF Sole, AllIdle
      <4>4. OneEach => OneEach'
        BY <3>2 DEF Report, OneEach, ActiveAlarms
      <4>5. QED
        BY <4>2, <4>3, <4>4
    <3>3. ASSUME Step(s) \/ StoreFails(s) PROVE w = s
      <4>1. Busy(s)
        BY <3>3, StepBusy DEF StoreFails
      <4>2. QED
        BY <3>1, <4>1 DEF Sole
    <3>4. ASSUME Step(s) \/ StoreFails(s) PROVE Sole(s)'
      BY <2>3, <3>1, <3>3, <3>4 DEF Sole
    <3>5. CASE Step(s)
      BY <1>1, <3>1, <3>3, <3>4, <3>5, StepKept
    <3>6. CASE StoreFails(s)
      <4>1. /\ handler'[s] = Idle /\ reported' = [source \in Reconciled |-> Absent]
            /\ failures' # 0 /\ alarms' = alarms
        BY <1>1, <3>6 DEF StoreFails, Typed, TypeOK
      <4>2. Fresh(s)'
        BY <4>1 DEF Fresh, Idle
      <4>3. ReportKept(s)' /\ StatusKept(s)'
        BY <4>1 DEF ReportKept, StatusKept
      <4>4. OneEach => OneEach'
        BY <4>1 DEF OneEach, ActiveAlarms
      <4>5. QED
        BY <3>4, <3>6, <4>2, <4>3, <4>4 DEF Kept
    <3>7. QED
      BY <1>5, <3>2, <3>5, <3>6
  <2>7. Orderly'
    BY <2>2, <2>6 DEF Orderly
  <2>8. OneActiveRow'
    BY <2>2, <2>6 DEF Tidy, OneActiveRow, OneEach
  <2>9. QED
    BY <1>1, <2>5, <2>7, <2>8 DEF Tidy
<1>6. QED
  BY <1>3, <1>4, <1>5 DEF Next

LEMMA TidyAlways == Spec => []Tidy
<1>1. QED
  BY InitTidy, TidyNext, PTL DEF Spec

\* A condition that is there has one active alarm, however often it is reported.
THEOREM OneAlarmPerCondition == Spec => []OneActiveRow
<1>1. Tidy => OneActiveRow
  BY DEF Tidy
<1>2. QED
  BY <1>1, TidyAlways, PTL

\* When no report is being processed the active alarms of a source are those
\* that the last report about it gave, and those of the lock are in the row.
THEOREM AlarmsAreThoseReported == Spec => []AlarmsMatchReport
<1>1. Tidy => AlarmsMatchReport
  <2> SUFFICES ASSUME Tidy, AllIdle, OneByOne
               PROVE  /\ \A X \in Reconciled : reported[X] # Absent =>
                           TypesOf(Compared(X)) = reported[X]
                      /\ failures = 0 => TypesOf(Compared("lock_status")) \subseteq lock
    BY DEF AlarmsMatchReport, Compared
  <2>1. PICK w \in Sessions : Kept(w)
    BY DEF Tidy, Orderly
  <2>2. ~Busy(w) /\ Between(w) /\ handler[w].jobs = << >> /\ Typed
    BY DEF AllIdle, Busy, Tidy
  <2>3. \A X, t : Stays(w, X, t) <=> t \in TypesOf(Compared(X))
    BY <2>2, IdleStays DEF TypesOf
  <2>4. ASSUME NEW X \in Reconciled, reported[X] # Absent
        PROVE  TypesOf(Compared(X)) = reported[X]
    <3>1. \A t : t \in TypesOf(Compared(X)) <=> t \in reported[X]
      BY <2>1, <2>2, <2>3, <2>4, IdleKept
    <3>2. QED
      BY <3>1
  <2>5. ASSUME failures = 0 PROVE TypesOf(Compared("lock_status")) \subseteq lock
    BY <2>1, <2>2, <2>3, <2>5 DEF Kept, StatusKept, Reconciling
  <2>6. QED
    BY <2>4, <2>5
<1>2. QED
  BY <1>1, TidyAlways, PTL
=============================================================================
