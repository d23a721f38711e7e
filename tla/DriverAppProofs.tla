---------------------------- MODULE DriverAppProofs ----------------------------
(***************************************************************************)
(* What the driver app promised with "queued" is kept, carried out once,   *)
(* and posted in its order, unless one of the excuses that the history     *)
(* `excused` collects is behind it: for any writes, runs, limit of tries   *)
(* and disturbances.                                                       *)
(*                                                                         *)
(* The stored queue is what matters.  What a run has in hand and is not    *)
(* excused is in the queue as well, and the other way round except for     *)
(* what is over; so what replaces the queue next, with nobody beside it,   *)
(* loses nothing, repeats nothing and swaps nothing.                       *)
(***************************************************************************)
EXTENDS DriverApp, TLAPS

-----------------------------------------------------------------------------
(* Queues: In(q) is the set of the writes of q *)

LEMMA InEmpty == In(<<>>) = {}
BY DEF In

LEMMA InAppend ==
  ASSUME NEW S, NEW q \in Seq(S), NEW e
  PROVE  In(Append(q, e)) = In(q) \cup {e.w}
  <1>1. DOMAIN Append(q, e) = 1 .. Len(q) + 1 /\ DOMAIN q = 1 .. Len(q) /\ Len(q) \in Nat
    OBVIOUS
  <1>2. \A i \in 1 .. Len(q) : Append(q, e)[i] = q[i]
    OBVIOUS
  <1>3. Append(q, e)[Len(q) + 1] = e
    OBVIOUS
  <1> QED BY <1>1, <1>2, <1>3 DEF In

LEMMA InTail ==
  ASSUME NEW S, NEW q \in Seq(S), q # <<>>
  PROVE  /\ Head(q) \in S /\ Tail(q) \in Seq(S)
         /\ In(q) = {Head(q).w} \cup In(Tail(q))
         /\ Head(q).w \in In(q)
  <1>1. DOMAIN Tail(q) = 1 .. Len(q) - 1 /\ DOMAIN q = 1 .. Len(q) /\ Len(q) \in Nat \ {0}
    OBVIOUS
  <1>2. Head(q) = q[1] /\ \A i \in 1 .. Len(q) - 1 : Tail(q)[i] = q[i + 1]
    OBVIOUS
  <1>3. Head(q) \in S /\ Tail(q) \in Seq(S)
    OBVIOUS
  <1>4. \A i \in 1 .. Len(q) : i = 1 \/ i - 1 \in 1 .. Len(q) - 1
    BY <1>1
  <1>5. In(q) \subseteq {Head(q).w} \cup In(Tail(q))
    <2>1. ASSUME NEW i \in 1 .. Len(q), i # 1
          PROVE  q[i].w \in In(Tail(q))
      <3>1. i - 1 \in 1 .. Len(q) - 1 /\ Tail(q)[i - 1] = q[i]
        BY <2>1, <1>1, <1>2
      <3> QED BY <3>1, <1>1 DEF In
    <2> QED BY <2>1, <1>1, <1>2 DEF In
  <1>6. In(Tail(q)) \subseteq In(q) /\ Head(q).w \in In(q)
    <2>1. \A i \in 1 .. Len(q) - 1 : i + 1 \in 1 .. Len(q)
      BY <1>1
    <2>2. 1 \in 1 .. Len(q)
      BY <1>1
    <2> QED BY <2>1, <2>2, <1>1, <1>2 DEF In
  <1> QED BY <1>3, <1>5, <1>6

LEMMA ToldAppend ==
  ASSUME NEW S, NEW a \in Seq(S), NEW v
  PROVE  ToSet(Append(a, v)) = ToSet(a) \cup {v}
  <1>1. DOMAIN Append(a, v) = 1 .. Len(a) + 1 /\ DOMAIN a = 1 .. Len(a) /\ Len(a) \in Nat
    OBVIOUS
  <1>2. \A i \in 1 .. Len(a) : Append(a, v)[i] = a[i]
    OBVIOUS
  <1>3. Append(a, v)[Len(a) + 1] = v
    OBVIOUS
  <1> QED BY <1>1, <1>2, <1>3 DEF ToSet

LEMMA OneLeft ==
  ASSUME NEW S, NEW q \in Seq(S), q # <<>>
  PROVE  Len(q) = 1 <=> Tail(q) = <<>>
  <1>1. Tail(q) \in Seq(S) /\ Len(Tail(q)) = Len(q) - 1 /\ Len(q) \in Nat \ {0}
    OBVIOUS
  <1>2. ASSUME NEW r \in Seq(S)  PROVE  Len(r) = 0 <=> r = <<>>
    OBVIOUS
  <1>3. Len(Tail(q)) = 0 <=> Tail(q) = <<>>
    BY <1>1, <1>2
  <1> QED BY <1>1, <1>3

-----------------------------------------------------------------------------
(* Order and counts, of a queue q, a history acc of promises, excuses ex    *)

\* v was promised before w.
Before(v, w, acc) == \A i, j \in DOMAIN acc : acc[i] = v /\ acc[j] = w => i < j

Ordered(q, ex, acc) ==
    \A i, j \in DOMAIN q :
        i < j /\ q[i].w \notin ex /\ q[j].w \notin ex => Before(q[i].w, q[j].w, acc)

Ahead(r, q, ex, acc) == \A v \in In(r) \ ex, w \in In(q) \ ex : Before(v, w, acc)

\* Its entries are of promised writes, posted as often as they were tried.
Sound(q, told, n) == \A i \in DOMAIN q : q[i].w \in told /\ q[i].tries <= n[q[i].w]

LEMMA OrderEmpty ==
  ASSUME NEW q, NEW ex, NEW acc, NEW n, NEW told
  PROVE  /\ Ordered(<<>>, ex, acc) /\ Ahead(<<>>, q, ex, acc) /\ Ahead(q, <<>>, ex, acc)
         /\ Sound(<<>>, told, n)
BY InEmpty DEF Ordered, Ahead, Sound

\* More excuses, another promise.
LEMMA OrderLater ==
  ASSUME NEW q, NEW r, NEW acc, NEW ex, NEW ex2, ex \subseteq ex2
  PROVE  /\ Ordered(q, ex, acc) => Ordered(q, ex2, acc)
         /\ Ahead(r, q, ex, acc) => Ahead(r, q, ex2, acc)
BY DEF Ordered, Ahead

LEMMA BeforeAppend ==
  ASSUME NEW S, NEW acc \in Seq(S), NEW v \in ToSet(acc), NEW w, NEW u, u \notin ToSet(acc)
  PROVE  /\ Before(v, w, acc) => Before(v, w, Append(acc, u)) \/ w = u
         /\ Before(v, u, Append(acc, u))
  <1>1. DOMAIN Append(acc, u) = 1 .. Len(acc) + 1 /\ DOMAIN acc = 1 .. Len(acc) /\ Len(acc) \in Nat
    OBVIOUS
  <1>2. \A i \in 1 .. Len(acc) : Append(acc, u)[i] = acc[i] /\ acc[i] \in ToSet(acc)
    BY DEF ToSet
  <1>3. Append(acc, u)[Len(acc) + 1] = u
    OBVIOUS
  <1>4. \A i \in 1 .. Len(acc) + 1 : i \in 1 .. Len(acc) \/ i = Len(acc) + 1
    BY <1>1
  <1>5. \A i \in 1 .. Len(acc) + 1 : Append(acc, u)[i] = v => i \in 1 .. Len(acc) /\ acc[i] = v
    BY <1>2, <1>3, <1>4
  <1>6. Before(v, u, Append(acc, u))
    <2> SUFFICES ASSUME NEW i \in 1 .. Len(acc) + 1, NEW j \in 1 .. Len(acc) + 1,
                        Append(acc, u)[i] = v, Append(acc, u)[j] = u
                 PROVE  i < j
      BY <1>1 DEF Before
    <2>1. i \in 1 .. Len(acc)
      BY <1>5
    <2>2. j = Len(acc) + 1
      BY <1>2, <1>4
    <2> QED BY <2>1, <2>2, <1>1
  <1>7. ASSUME Before(v, w, acc), w # u  PROVE  Before(v, w, Append(acc, u))
    <2> SUFFICES ASSUME NEW i \in 1 .. Len(acc) + 1, NEW j \in 1 .. Len(acc) + 1,
                        Append(acc, u)[i] = v, Append(acc, u)[j] = w
                 PROVE  i < j
      BY <1>1 DEF Before
    <2>1. i \in 1 .. Len(acc) /\ acc[i] = v
      BY <1>5
    <2>2. j \in 1 .. Len(acc) /\ acc[j] = w
      BY <1>2, <1>3, <1>4, <1>7
    <2> QED BY <2>1, <2>2, <1>1, <1>7 DEF Before
  <1> QED BY <1>6, <1>7

LEMMA OrderGrows ==
  ASSUME NEW S, NEW acc \in Seq(S), NEW u, u \notin ToSet(acc), NEW ex, NEW q, NEW r,
         In(q) \subseteq ToSet(acc), In(r) \subseteq ToSet(acc)
  PROVE  /\ Ordered(q, ex, acc) => Ordered(q, ex, Append(acc, u))
         /\ Ahead(r, q, ex, acc) => Ahead(r, q, ex, Append(acc, u))
  <1>1. \A v, w \in ToSet(acc) : Before(v, w, acc) => Before(v, w, Append(acc, u))
    BY BeforeAppend
  <1>2. \A i \in DOMAIN q : q[i].w \in ToSet(acc)
    BY DEF In
  <1> QED BY <1>1, <1>2 DEF Ordered, Ahead

LEMMA OrderAppend ==
  ASSUME NEW S, NEW q \in Seq(S), NEW e, NEW ex, NEW acc, Ordered(q, ex, acc),
         \A v \in In(q) \ ex : e.w \notin ex => Before(v, e.w, acc)
  PROVE  Ordered(Append(q, e), ex, acc)
  <1>1. DOMAIN Append(q, e) = 1 .. Len(q) + 1 /\ DOMAIN q = 1 .. Len(q) /\ Len(q) \in Nat
    OBVIOUS
  <1>2. \A i \in 1 .. Len(q) : Append(q, e)[i] = q[i] /\ q[i].w \in In(q)
    BY <1>1 DEF In
  <1>3. Append(q, e)[Len(q) + 1] = e
    OBVIOUS
  <1> SUFFICES ASSUME NEW i \in 1 .. Len(q) + 1, NEW j \in 1 .. Len(q) + 1, i < j,
                      Append(q, e)[i].w \notin ex, Append(q, e)[j].w \notin ex
               PROVE  Before(Append(q, e)[i].w, Append(q, e)[j].w, acc)
    BY <1>1 DEF Ordered
  <1>4. i \in 1 .. Len(q)
    BY <1>1
  <1>5. CASE j = Len(q) + 1
    BY <1>2, <1>3, <1>4, <1>5
  <1>6. CASE j \in 1 .. Len(q)
    BY <1>1, <1>2, <1>4, <1>6 DEF Ordered
  <1> QED BY <1>1, <1>5, <1>6

LEMMA OrderTail ==
  ASSUME NEW S, NEW q \in Seq(S), q # <<>>, NEW ex, NEW acc, Ordered(q, ex, acc)
  PROVE  /\ Ordered(Tail(q), ex, acc)
         /\ Head(q).w \notin ex => \A w \in In(Tail(q)) \ ex : Before(Head(q).w, w, acc)
  <1>1. DOMAIN Tail(q) = 1 .. Len(q) - 1 /\ DOMAIN q = 1 .. Len(q) /\ Len(q) \in Nat \ {0}
    OBVIOUS
  <1>2. Head(q) = q[1] /\ \A i \in 1 .. Len(q) - 1 : Tail(q)[i] = q[i + 1]
    OBVIOUS
  <1>3. \A i \in 1 .. Len(q) - 1 : i + 1 \in 1 .. Len(q) /\ 1 < i + 1
    BY <1>1
  <1>4. \A i, j \in 1 .. Len(q) - 1 : i < j => i + 1 < j + 1
    BY <1>1
  <1>5. Ordered(Tail(q), ex, acc)
    BY <1>1, <1>2, <1>3, <1>4 DEF Ordered
  <1>6. 1 \in 1 .. Len(q)
    BY <1>1
  <1> QED BY <1>1, <1>2, <1>3, <1>5, <1>6 DEF Ordered, In

LEMMA SoundTail ==
  ASSUME NEW S, NEW q \in Seq(S), q # <<>>, NEW told, NEW n, Sound(q, told, n)
  PROVE  /\ Sound(Tail(q), told, n)
         /\ Head(q).w \in told /\ Head(q).tries <= n[Head(q).w]
  <1>1. DOMAIN Tail(q) = 1 .. Len(q) - 1 /\ DOMAIN q = 1 .. Len(q) /\ Len(q) \in Nat \ {0}
    OBVIOUS
  <1>2. Head(q) = q[1] /\ \A i \in 1 .. Len(q) - 1 : Tail(q)[i] = q[i + 1]
    OBVIOUS
  <1>3. 1 \in 1 .. Len(q) /\ \A i \in 1 .. Len(q) - 1 : i + 1 \in 1 .. Len(q)
    BY <1>1
  <1> QED BY <1>1, <1>2, <1>3 DEF Sound

LEMMA SoundAppend ==
  ASSUME NEW S, NEW q \in Seq(S), NEW e, NEW told, NEW n, Sound(q, told, n),
         e.w \in told, e.tries <= n[e.w]
  PROVE  Sound(Append(q, e), told, n)
  <1>1. DOMAIN Append(q, e) = 1 .. Len(q) + 1 /\ DOMAIN q = 1 .. Len(q) /\ Len(q) \in Nat
    OBVIOUS
  <1>2. \A i \in 1 .. Len(q) : Append(q, e)[i] = q[i]
    OBVIOUS
  <1>3. Append(q, e)[Len(q) + 1] = e
    OBVIOUS
  <1>4. \A i \in 1 .. Len(q) + 1 : i \in 1 .. Len(q) \/ i = Len(q) + 1
    BY <1>1
  <1> QED BY <1>1, <1>2, <1>3, <1>4 DEF Sound

\* More promises, more posts.
LEMMA SoundLater ==
  ASSUME NEW q \in Seq(Entry), NEW told, NEW told2, told \subseteq told2,
         NEW n \in [Writes -> Nat], NEW n2 \in [Writes -> Nat],
         \A w \in Writes : n[w] <= n2[w],
         Sound(q, told, n)
  PROVE  Sound(q, told2, n2) /\ In(q) \subseteq told
  <1>1. \A i \in DOMAIN q : q[i] \in Entry
    OBVIOUS
  <1>2. \A i \in DOMAIN q : q[i].w \in Writes /\ q[i].tries \in Nat
    BY <1>1, AppAssumption DEF Entry
  <1> QED BY <1>2 DEF Sound, In
-----------------------------------------------------------------------------
(* The inductive invariant *)

Told == ToSet(accepted)

\* A write that is not over has left no trace yet.
FreshInv ==
    \A w \in Writes :
        /\ write[w].pc \in {"new", "sent", "store"} =>
               w \notin Told /\ posted[w] = 0 /\ (w \notin excused => applied[w] = 0)
        /\ write[w].pc \in {"new", "sent"} => applied[w] = 0

\* A run has its queues while it posts and saves.
RunShape ==
    \A p \in Runs :
        /\ run[p].batch = <<>> <=> run[p].pc # "post"
        /\ p \notin Running => run[p].kept = <<>>

SoundInv ==
    /\ Sound(queue, Told, posted)
    /\ \A w \in Writes : Sound(write[w].read, Told, posted)
    /\ \A p \in Runs : Sound(run[p].batch, Told, posted) /\ Sound(run[p].kept, Told, posted)

\* What a run keeps has been posted.
TriedInv == \A p \in Runs : \A w \in In(run[p].kept) : posted[w] > 0

\* Nothing more has to happen for w.
Done(w) == posted[w] >= MaxRetry \/ (applied[w] > 0 /\ posted[w] > 0)

KeptInv == \A w \in Told \ excused : w \in In(queue) \/ Done(w)

\* What is stored, without an excuse, and what the one run has in hand.
Held(p) == In(run[p].batch) \cup In(run[p].kept)

HandsInv ==
    /\ \A p \in Running : Held(p) \ excused \subseteq In(queue)
    /\ \A p \in Running : \A w \in In(queue) \ excused : w \in Held(p) \/ Done(w)
    /\ \A p, q \in Running : p # q => Held(p) \subseteq excused

UnappliedInv ==
    /\ \A p \in Running : \A w \in Held(p) \ excused : applied[w] = 0
    /\ Running = {} => \A w \in In(queue) \ excused : applied[w] = 0

OrderInv ==
    /\ Ordered(queue, excused, accepted)
    /\ \A p \in Runs :
           /\ Ordered(run[p].batch, excused, accepted)
           /\ Ordered(run[p].kept, excused, accepted)
           /\ Ahead(run[p].kept, run[p].batch, excused, accepted)

HistoryInv == KeptInv /\ AppliedOnce /\ PostedInOrder

IInv ==
    /\ TypeOK /\ RunShape
    /\ FreshInv /\ SoundInv /\ TriedInv
    /\ HandsInv /\ UnappliedInv /\ OrderInv
    /\ HistoryInv

-----------------------------------------------------------------------------
(* What the parts need of a step *)

RunType == [pc : {"idle", "fetch", "read", "post", "save"}, batch : Seq(Entry), kept : Seq(Entry)]

WriteType == [pc : {"new", "sent", "store", "settled"}, read : Seq(Entry)]

LEMMA Types ==
  ASSUME TypeOK
  PROVE  /\ queue \in Seq(Entry) /\ accepted \in Seq(Writes) /\ Told \subseteq Writes
         /\ write \in [Writes -> WriteType] /\ run \in [Runs -> RunType]
         /\ posted \in [Writes -> Nat] /\ applied \in [Writes -> Nat]
         /\ \A w \in Writes : write[w].read \in Seq(Entry)
         /\ \A p \in Runs : run[p].batch \in Seq(Entry) /\ run[p].kept \in Seq(Entry)
  <1>1. posted \in [Writes -> Nat] /\ applied \in [Writes -> Nat]
    <2>1. 0 .. MaxRetry + 1 \subseteq Nat /\ 0 .. 2 \subseteq Nat
      BY AppAssumption
    <2> QED BY <2>1 DEF TypeOK
  <1>2. Told \subseteq Writes
    BY DEF TypeOK, Told, ToSet
  <1> QED BY <1>1, <1>2 DEF TypeOK, WriteType, RunType

\* Whoever is in a queue was promised.
LEMMA InTold ==
  ASSUME TypeOK, SoundInv
  PROVE  /\ In(queue) \subseteq Told
         /\ \A w \in Writes : In(write[w].read) \subseteq Told
         /\ \A p \in Runs : Held(p) \subseteq Told
  <1>1. \A n : \A q : Sound(q, Told, n) => In(q) \subseteq Told
    BY DEF Sound, In
  <1> QED BY <1>1 DEF SoundInv, Held

\* Nothing happens to the queue, to the runs or to a write that was promised.
Aside ==
    /\ UNCHANGED <<queue, accepted, posted>>
    /\ \A w \in Told : applied'[w] = applied[w]
    /\ excused \subseteq excused'
    /\ \A p \in Runs :
           /\ run'[p].batch = run[p].batch /\ run'[p].kept = run[p].kept
           /\ run'[p].pc # run[p].pc => {run[p].pc, run'[p].pc} \cap {"post", "save"} = {}
    /\ \A w \in Writes : write'[w].read \in {write[w].read, queue, <<>>}

LEMMA AsideStep ==
  ASSUME IInv, Aside
  PROVE  /\ RunShape' /\ SoundInv' /\ TriedInv' /\ HandsInv' /\ UnappliedInv' /\ OrderInv'
         /\ KeptInv' /\ PostedInOrder'
  <1> USE DEF Aside
  <1>0. TypeOK /\ RunShape /\ SoundInv
    BY DEF IInv
  <1>1. Told' = Told /\ Running' = Running /\ Told \subseteq Writes
    BY <1>0, Types DEF Told, Running
  <1>2. \A p \in Runs : Held(p)' = Held(p) /\ Held(p) \subseteq Told
    BY <1>0, InTold DEF Held
  <1>3. In(queue) \subseteq Told /\ \A w \in Told : Done(w)' <=> Done(w)
    BY <1>0, InTold DEF Done
  <1>4. RunShape'
    BY <1>0, <1>1 DEF RunShape
  <1>5. SoundInv'
    <2>1. Sound(<<>>, Told, posted)
      BY OrderEmpty
    <2> QED BY <1>0, <1>1, <2>1 DEF SoundInv
  <1>6. TriedInv'
    BY DEF IInv, TriedInv
  <1>7. HandsInv'
    <2>1. \A p \in Running : Held(p) \subseteq Told /\ Held(p)' = Held(p)
      BY <1>2 DEF Running
    <2>2. \A p \in Running' : Held(p)' \ excused' \subseteq In(queue)'
      BY <1>1, <2>1 DEF IInv, HandsInv
    <2>3. \A p \in Running' : \A w \in In(queue)' \ excused' : w \in Held(p)' \/ Done(w)'
      BY <1>1, <1>3, <2>1 DEF IInv, HandsInv
    <2>4. \A p, q \in Running' : p # q => Held(p)' \subseteq excused'
      BY <1>1, <2>1 DEF IInv, HandsInv
    <2> QED BY <2>2, <2>3, <2>4 DEF HandsInv
  <1>8. UnappliedInv'
    BY <1>1, <1>2, <1>3 DEF IInv, UnappliedInv, Running
  <1>9. OrderInv'
    BY OrderLater DEF IInv, OrderInv
  <1>10. KeptInv'
    BY <1>1, <1>3 DEF IInv, HistoryInv, KeptInv
  <1>11. PostedInOrder'
    BY DEF IInv, HistoryInv, PostedInOrder
  <1> QED BY <1>4, <1>5, <1>6, <1>7, <1>8, <1>9, <1>10, <1>11

\* No write becomes unfinished again.
Onward ==
    /\ applied' = applied /\ excused' = excused
    /\ \A w \in Writes : \/ write'[w].pc = write[w].pc
                         \/ write[w].pc = "new" /\ write'[w].pc = "sent"
                         \/ write'[w].pc = "settled"

LEMMA QuietStep ==
  ASSUME IInv, TypeOK', Aside, Onward
  PROVE  IInv'
  <1> USE DEF Onward
  <1>1. FreshInv'
    BY DEF IInv, FreshInv, Aside, Told
  <1>2. AppliedOnce'
    BY DEF IInv, HistoryInv, AppliedOnce
  <1> QED BY <1>1, <1>2, AsideStep DEF IInv, HistoryInv

-----------------------------------------------------------------------------
(* The actions that leave the queue alone *)

LEMMA SendStep ==
  ASSUME IInv, NEW w \in Writes, Send(w), UNCHANGED events
  PROVE  IInv'
  <1> USE DEF Send, Phone, Histories
  <1>0. TypeOK /\ write \in [Writes -> WriteType]
    BY Types DEF IInv
  <1>1. TypeOK'
    BY <1>0 DEF TypeOK
  <1>2. Aside
    BY <1>0 DEF Aside, WriteType
  <1>3. Onward
    BY <1>0 DEF Onward, WriteType
  <1> QED BY <1>1, <1>2, <1>3, QuietStep

LEMMA HeardStep ==
  ASSUME IInv, NEW p \in Runs, Notice(p) \/ Connect(p), UNCHANGED events
  PROVE  IInv'
  <1>0. TypeOK /\ run \in [Runs -> RunType]
    BY Types DEF IInv
  <1>1. /\ run' = run \/ (run[p].pc = "idle" /\ run' = [run EXCEPT ![p].pc = "fetch"])
        /\ online' \in {online, TRUE}
        /\ UNCHANGED <<signedIn, queue, isProcessing, write, accepted, posted, applied, excused>>
    BY DEF Notice, Connect, Heard, Phone, Histories
  <1>2. /\ run' \in [Runs -> RunType]
        /\ \A r \in Runs : /\ run'[r].batch = run[r].batch /\ run'[r].kept = run[r].kept
                           /\ run'[r].pc = run[r].pc \/ (run[r].pc = "idle" /\ run'[r].pc = "fetch")
    <2>1. CASE run' = run
      BY <1>0, <2>1
    <2>2. CASE run[p].pc = "idle" /\ run' = [run EXCEPT ![p].pc = "fetch"]
      <3>1. run' \in [Runs -> RunType]
        BY <1>0, <2>2 DEF RunType
      <3>2. \A r \in Runs \ {p} : run'[r] = run[r]
        BY <1>0, <2>2
      <3>3. /\ run'[p].batch = run[p].batch /\ run'[p].kept = run[p].kept
            /\ run'[p].pc = "fetch"
        BY <1>0, <2>2 DEF RunType
      <3> QED BY <2>2, <3>1, <3>2, <3>3
    <2> QED BY <1>1, <2>1, <2>2
  <1>3. TypeOK'
    BY <1>0, <1>1, <1>2 DEF TypeOK, RunType
  <1>4. Aside
    BY <1>0, <1>1, <1>2 DEF Aside
  <1>5. Onward
    BY <1>1 DEF Onward
  <1> QED BY <1>3, <1>4, <1>5, QuietStep

LEMMA FetchStep ==
  ASSUME IInv, NEW p \in Runs, Fetch(p), UNCHANGED events
  PROVE  IInv'
  <1> USE DEF Fetch, Phone, Histories
  <1>0. TypeOK /\ run \in [Runs -> RunType]
    BY Types DEF IInv
  <1>1. TypeOK'
    BY <1>0 DEF TypeOK
  <1>2. Aside
    BY <1>0 DEF Aside, RunType
  <1>3. Onward
    BY DEF Onward
  <1> QED BY <1>1, <1>2, <1>3, QuietStep

LEMMA PhoneStep ==
  ASSUME IInv, Disconnect \/ SwitchUser, events' \in 0 .. MaxEvents
  PROVE  IInv'
  <1> USE DEF Disconnect, SwitchUser, Histories
  <1>0. TypeOK
    BY DEF IInv
  <1>1. TypeOK'
    BY <1>0 DEF TypeOK
  <1>2. Aside
    BY DEF Aside
  <1>3. Onward
    BY DEF Onward
  <1> QED BY <1>1, <1>2, <1>3, QuietStep

LEMMA AnsweredStep ==
  ASSUME IInv, NEW w \in Writes, Answered(w), UNCHANGED events
  PROVE  IInv'
  <1> USE DEF Answered, Phone
  <1>0. /\ TypeOK /\ FreshInv /\ write \in [Writes -> WriteType]
        /\ applied \in [Writes -> Nat]
    BY Types DEF IInv
  <1>1. w \notin Told /\ applied[w] = 0
    BY <1>0 DEF FreshInv
  <1>2. applied' \in [Writes -> 0 .. 2] /\ applied'[w] <= 1
        /\ \A v \in Writes \ {w} : applied'[v] = applied[v]
    BY <1>0, <1>1 DEF Once, TypeOK
  <1>3. TypeOK'
    BY <1>0, <1>2 DEF TypeOK
  <1>4. Aside
    BY <1>0, <1>1, <1>2, Types DEF Aside, WriteType
  <1>5. FreshInv'
    BY <1>0, <1>2 DEF FreshInv, Told, WriteType
  <1>6. AppliedOnce'
    BY <1>2 DEF IInv, HistoryInv, AppliedOnce
  <1> QED BY <1>3, <1>4, <1>5, <1>6, AsideStep DEF IInv, HistoryInv

LEMMA NetworkErrorStep ==
  ASSUME IInv, NEW w \in Writes, NetworkError(w), UNCHANGED events
  PROVE  IInv'
  <1> USE DEF NetworkError, Phone
  <1>0. /\ TypeOK /\ FreshInv /\ write \in [Writes -> WriteType]
        /\ applied \in [Writes -> Nat] /\ queue \in Seq(Entry)
    BY Types DEF IInv
  <1>1. w \notin Told /\ applied[w] = 0 /\ posted[w] = 0
    BY <1>0 DEF FreshInv
  <1>2. /\ applied' \in [Writes -> 0 .. 2] /\ \A v \in Writes \ {w} : applied'[v] = applied[v]
        /\ excused \subseteq excused' /\ excused' \subseteq excused \cup {w}
        /\ w \notin excused' => applied'[w] = 0
    <2>1. applied \in [Writes -> 0 .. 2]
      BY <1>0 DEF TypeOK
    <2>2. CASE applied' = applied /\ excused' = excused
      BY <2>1, <2>2, <1>1
    <2>3. CASE applied' = Once(applied, w) /\ excused' = excused \cup {w}
      BY <2>1, <2>3, <1>1 DEF Once
    <2> QED BY <2>2, <2>3
  <1>3. TypeOK'
    <2>1. write' \in [Writes -> WriteType]
      BY <1>0 DEF WriteType
    <2> QED BY <1>0, <1>2, <2>1 DEF TypeOK, WriteType
  <1>4. Aside
    BY <1>0, <1>1, <1>2, Types DEF Aside, WriteType
  <1>5. FreshInv'
    BY <1>0, <1>1, <1>2 DEF FreshInv, Told, WriteType
  <1>6. AppliedOnce'
    BY <1>2 DEF IInv, HistoryInv, AppliedOnce
  <1> QED BY <1>3, <1>4, <1>5, <1>6, AsideStep DEF IInv, HistoryInv

-----------------------------------------------------------------------------
(* The actions on the queue *)

LEMMA AllExcused ==
  ASSUME NEW q, NEW ex, NEW acc, In(q) \subseteq ex
  PROVE  Ordered(q, ex, acc)
BY DEF Ordered, In

LEMMA RunOrderLater ==
  ASSUME OrderInv, NEW r \in Runs, run'[r] = run[r], accepted' = accepted, excused \subseteq excused'
  PROVE  /\ Ordered(run'[r].batch, excused', accepted')
         /\ Ordered(run'[r].kept, excused', accepted')
         /\ Ahead(run'[r].kept, run'[r].batch, excused', accepted')
  <1>1. /\ Ordered(run[r].batch, excused, accepted)
        /\ Ordered(run[r].kept, excused, accepted)
        /\ Ahead(run[r].kept, run[r].batch, excused, accepted)
    BY DEF OrderInv
  <1> QED BY <1>1, OrderLater

LEMMA EnqueueStep ==
  ASSUME IInv, NEW w \in Writes, Enqueue(w), UNCHANGED events
  PROVE  IInv'
  <1> DEFINE e == [w |-> w, tries |-> 0]
             read == write[w].read
             beside == Running # {} \/ Enqueueing # {w} \/ queue # read
  <1>0. /\ TypeOK /\ RunShape /\ FreshInv /\ SoundInv /\ TriedInv /\ HandsInv
        /\ UnappliedInv /\ OrderInv /\ HistoryInv
        /\ write \in [Writes -> WriteType] /\ run \in [Runs -> RunType]
        /\ queue \in Seq(Entry) /\ read \in Seq(Entry) /\ accepted \in Seq(Writes)
        /\ posted \in [Writes -> Nat] /\ applied \in [Writes -> Nat] /\ Told \subseteq Writes
    BY Types DEF IInv
  <1>1. /\ queue' = Append(read, e) /\ accepted' = Append(accepted, w)
        /\ write[w].pc = "store"
        /\ write' = [write EXCEPT ![w].pc = "settled", ![w].read = <<>>]
        /\ excused' = IF beside THEN excused \cup In(queue') \cup In(queue) \cup Enqueueing ELSE excused
        /\ online' = online /\ signedIn' = signedIn /\ isProcessing' = isProcessing
        /\ run' = run /\ posted' = posted /\ applied' = applied /\ events' = events
    BY DEF Enqueue, Phone
  <1> HIDE DEF beside
  <1>2. e \in Entry /\ e.w = w /\ e.tries = 0
    BY AppAssumption DEF Entry
  <1>3. w \notin Told /\ posted[w] = 0 /\ (w \notin excused => applied[w] = 0)
    BY <1>0, <1>1 DEF FreshInv
  <1> HIDE DEF e, read
  <1>4. Told' = Told \cup {w} /\ In(queue') = In(read) \cup {w} /\ excused \subseteq excused'
    BY <1>0, <1>1, <1>2, ToldAppend, InAppend DEF Told
  <1>5. /\ In(queue) \subseteq Told /\ In(read) \subseteq Told
        /\ \A p \in Runs : In(run[p].batch) \subseteq Told /\ In(run[p].kept) \subseteq Told
    BY <1>0, InTold DEF read, Held
  <1>6. beside => In(queue') \subseteq excused' /\ In(queue) \subseteq excused'
    BY <1>1
  <1>7. ~beside => Running = {} /\ queue = read /\ excused' = excused
    BY <1>1 DEF beside
  <1>8. Running' = Running /\ \A p \in Runs : Held(p)' = Held(p)
    BY <1>1 DEF Running, Held
  <1>9. write' \in [Writes -> WriteType] /\ write'[w].pc = "settled" /\ write'[w].read = <<>>
        /\ \A v \in Writes \ {w} : write'[v] = write[v]
    <2>1. <<>> \in Seq(Entry)
      OBVIOUS
    <2> QED BY <1>0, <1>1, <2>1 DEF WriteType
  <1>10. TypeOK'
    <2>1. queue' \in Seq(Entry) /\ accepted' \in Seq(Writes)
      BY <1>0, <1>1, <1>2
    <2>2. Enqueueing \subseteq Writes /\ In(queue) \subseteq Writes /\ In(queue') \subseteq Writes
      BY <1>0, <1>4, <1>5 DEF Enqueueing
    <2>3. excused' \subseteq Writes
      BY <1>0, <1>1, <2>2 DEF TypeOK
    <2> QED BY <1>0, <1>1, <1>9, <2>1, <2>3 DEF TypeOK, WriteType
  <1>11. RunShape' /\ TriedInv'
    BY <1>0, <1>1, <1>8 DEF RunShape, TriedInv
  <1>12. FreshInv'
    BY <1>0, <1>1, <1>4, <1>9 DEF FreshInv
  <1>13. SoundInv'
    <2>1. \A q \in Seq(Entry) : Sound(q, Told, posted) => Sound(q, Told', posted')
      <3>1. Told \subseteq Told' /\ posted' \in [Writes -> Nat] /\ \A v \in Writes : posted[v] <= posted'[v]
        BY <1>0, <1>1, <1>4
      <3> QED BY <1>0, <3>1, SoundLater
    <2>2. Sound(read, Told, posted)
      BY <1>0 DEF SoundInv, read
    <2>3. Sound(read, Told', posted')
      BY <1>0, <2>1, <2>2
    <2>4. Sound(queue', Told', posted')
      <3>1. w \in Told' /\ posted'[w] = 0
        BY <1>1, <1>3, <1>4
      <3> QED BY <1>0, <1>1, <1>2, <2>3, <3>1, SoundAppend
    <2>5. \A v \in Writes : Sound(write'[v].read, Told', posted')
      <3>1. \A v \in Writes : write[v].read \in Seq(Entry)
        BY <1>0, Types
      <3> QED BY <1>0, <1>9, <2>1, <3>1, OrderEmpty DEF SoundInv
    <2>6. \A p \in Runs : Sound(run'[p].batch, Told', posted') /\ Sound(run'[p].kept, Told', posted')
      <3>1. \A p \in Runs : run[p].batch \in Seq(Entry) /\ run[p].kept \in Seq(Entry)
        BY <1>0, Types
      <3> QED BY <1>0, <1>1, <2>1, <3>1 DEF SoundInv
    <2> QED BY <2>4, <2>5, <2>6 DEF SoundInv
  <1>14. HandsInv'
    <2>1. CASE ~beside
      BY <1>7, <1>8, <2>1 DEF HandsInv
    <2>2. CASE beside
      <3>1. \A p \in Running : p \in Runs
        BY DEF Running
      <3>2. \A p \in Running : Held(p) \subseteq excused'
        BY <1>0, <1>4, <1>6, <2>2 DEF HandsInv
      <3> QED BY <1>6, <1>8, <2>2, <3>1, <3>2 DEF HandsInv
    <2> QED BY <2>1, <2>2
  <1>15. UnappliedInv'
    <2>1. \A p \in Running : p \in Runs
      BY DEF Running
    <2>2. CASE ~beside
      BY <1>0, <1>1, <1>3, <1>4, <1>7, <1>8, <2>2 DEF UnappliedInv
    <2>3. CASE beside
      BY <1>0, <1>1, <1>4, <1>6, <1>8, <2>1, <2>3 DEF UnappliedInv
    <2> QED BY <2>2, <2>3
  <1>16. OrderInv'
    <2>1. \A p \in Runs :
              /\ Ordered(run'[p].batch, excused', accepted')
              /\ Ordered(run'[p].kept, excused', accepted')
              /\ Ahead(run'[p].kept, run'[p].batch, excused', accepted')
      <3> SUFFICES ASSUME NEW p \in Runs
                   PROVE  /\ Ordered(run[p].batch, excused', accepted')
                          /\ Ordered(run[p].kept, excused', accepted')
                          /\ Ahead(run[p].kept, run[p].batch, excused', accepted')
        BY <1>1
      <3>1. /\ Ordered(run[p].batch, excused, accepted)
            /\ Ordered(run[p].kept, excused, accepted)
            /\ Ahead(run[p].kept, run[p].batch, excused, accepted)
        BY <1>0 DEF OrderInv
      <3>2. w \notin ToSet(accepted) /\ In(run[p].batch) \subseteq ToSet(accepted)
            /\ In(run[p].kept) \subseteq ToSet(accepted)
        BY <1>3, <1>5 DEF Told
      <3>3. /\ Ordered(run[p].batch, excused, accepted')
            /\ Ordered(run[p].kept, excused, accepted')
            /\ Ahead(run[p].kept, run[p].batch, excused, accepted')
        BY <1>0, <1>1, <3>1, <3>2, OrderGrows
      <3> QED BY <1>4, <3>3, OrderLater
    <2>2. Ordered(queue', excused', accepted')
      <3>1. CASE beside
        BY <1>6, <3>1, AllExcused
      <3>2. CASE ~beside
        <4>1. Ordered(read, excused, accepted) /\ w \notin ToSet(accepted) /\ In(read) \subseteq ToSet(accepted)
          BY <1>0, <1>3, <1>5, <1>7, <3>2 DEF OrderInv, Told
        <4>2. Ordered(read, excused, accepted')
          BY <1>0, <1>1, <4>1, OrderGrows
        <4>3. \A v \in In(read) : Before(v, w, accepted')
          BY <1>0, <1>1, <4>1, BeforeAppend
        <4> QED BY <1>0, <1>1, <1>2, <1>7, <3>2, <4>2, <4>3, OrderAppend
      <3> QED BY <3>1, <3>2
    <2> QED BY <2>1, <2>2 DEF OrderInv
  <1>17. KeptInv'
    <2>1. \A v : Done(v)' <=> Done(v)
      BY <1>1 DEF Done
    <2>2. CASE ~beside
      BY <1>0, <1>4, <1>7, <2>1, <2>2 DEF HistoryInv, KeptInv
    <2>3. CASE beside
      BY <1>0, <1>4, <1>6, <2>1, <2>3 DEF HistoryInv, KeptInv
    <2> QED BY <2>2, <2>3
  <1>18. AppliedOnce'
    BY <1>0, <1>1, <1>4 DEF HistoryInv, AppliedOnce
  <1>19. PostedInOrder'
    <2> SUFFICES ASSUME NEW i \in DOMAIN accepted', NEW j \in DOMAIN accepted', i < j,
                        {accepted'[i], accepted'[j]} \cap excused' = {}, posted'[accepted'[j]] > 0
                 PROVE  posted'[accepted'[i]] > 0
      BY DEF PostedInOrder
    <2>1. DOMAIN accepted' = 1 .. Len(accepted) + 1 /\ DOMAIN accepted = 1 .. Len(accepted)
          /\ Len(accepted) \in Nat
      BY <1>0, <1>1
    <2>2. accepted'[Len(accepted) + 1] = w /\ \A k \in 1 .. Len(accepted) : accepted'[k] = accepted[k]
      BY <1>0, <1>1
    <2>3. j # Len(accepted) + 1
      BY <1>1, <1>3, <2>2
    <2>4. i \in 1 .. Len(accepted) /\ j \in 1 .. Len(accepted)
      BY <2>1, <2>3
    <2> QED BY <1>0, <1>1, <1>4, <2>1, <2>2, <2>4 DEF HistoryInv, PostedInOrder
  <1> QED BY <1>10, <1>11, <1>12, <1>13, <1>14, <1>15, <1>16, <1>17, <1>18, <1>19 DEF IInv, HistoryInv

LEMMA ReadStep ==
  ASSUME IInv, NEW p \in Runs, Read(p), UNCHANGED events
  PROVE  IInv'
  <1>0. /\ TypeOK /\ RunShape /\ FreshInv /\ SoundInv /\ TriedInv /\ HandsInv
        /\ UnappliedInv /\ OrderInv /\ HistoryInv
        /\ run \in [Runs -> RunType] /\ queue \in Seq(Entry) /\ Told \subseteq Writes
    BY Types DEF IInv
  <1>1. /\ run[p].pc = "read" /\ p \notin Running
        /\ queue' = queue /\ accepted' = accepted /\ posted' = posted /\ applied' = applied
        /\ online' = online /\ signedIn' = signedIn /\ write' = write /\ events' = events
        /\ excused' = IF Running = {} THEN excused ELSE excused \cup In(queue)
    BY DEF Read, Phone, Running
  <1>2. CASE queue = <<>>
    <2>1. run' = [run EXCEPT ![p] = NoRun] /\ isProcessing' = FALSE
      BY <1>2 DEF Read
    <2>2. excused' = excused
      BY <1>1, <1>2, InEmpty
    <2>3. TypeOK'
      <3>1. <<>> \in Seq(Entry)
        OBVIOUS
      <3>2. run' \in [Runs -> RunType]
        BY <1>0, <2>1, <3>1 DEF NoRun, RunType
      <3> QED BY <1>0, <1>1, <2>1, <2>2, <3>2 DEF TypeOK, RunType
    <2>4. run[p].batch = <<>> /\ run[p].kept = <<>>
      BY <1>0, <1>1 DEF RunShape
    <2>5. Aside
      BY <1>0, <1>1, <2>1, <2>2, <2>4 DEF Aside, NoRun, RunType
    <2>6. Onward
      BY <1>1, <2>2 DEF Onward
    <2> QED BY <2>3, <2>5, <2>6, QuietStep
  <1>3. CASE queue # <<>>
    <2>1. run' = [run EXCEPT ![p] = [pc |-> "post", batch |-> queue, kept |-> <<>>]]
          /\ isProcessing' = isProcessing
      BY <1>3 DEF Read
    <2>2. run'[p] = [pc |-> "post", batch |-> queue, kept |-> <<>>]
          /\ \A r \in Runs \ {p} : run'[r] = run[r]
      BY <1>0, <2>1
    <2>3. TypeOK'
      <3>1. <<>> \in Seq(Entry)
        OBVIOUS
      <3>2. run' \in [Runs -> RunType]
        BY <1>0, <2>1, <3>1 DEF RunType
      <3>3. In(queue) \subseteq Writes
        BY <1>0, InTold
      <3>4. excused' \subseteq Writes
        BY <1>0, <1>1, <3>3 DEF TypeOK
      <3> QED BY <1>0, <1>1, <2>1, <3>2, <3>4 DEF TypeOK, RunType
    <2>4. Told' = Told /\ Running' = Running \cup {p} /\ excused \subseteq excused'
      BY <1>1, <2>2 DEF Told, Running
    <2>5. Held(p)' = In(queue) /\ \A r \in Runs \ {p} : Held(r)' = Held(r)
      BY <2>2, InEmpty DEF Held
    <2>6. /\ Running = {} => excused' = excused
          /\ Running # {} => In(queue) \subseteq excused'
      BY <1>1
    <2>7. RunShape' /\ TriedInv'
      <3>1. RunShape'
        BY <1>0, <1>3, <2>2, <2>4 DEF RunShape
      <3>2. TriedInv'
        BY <1>0, <1>1, <2>2, InEmpty DEF TriedInv
      <3> QED BY <3>1, <3>2
    <2>8. FreshInv'
      BY <1>0, <1>1, <2>4 DEF FreshInv
    <2>9. SoundInv'
      BY <1>0, <1>1, <2>2, <2>4, OrderEmpty DEF SoundInv
    <2>10. HandsInv'
      <3>1. CASE Running = {}
        BY <1>1, <2>4, <2>5, <3>1 DEF HandsInv
      <3>2. CASE Running # {}
        <4>1. \A r \in Running : Held(r) \subseteq excused'
          BY <1>0, <2>4, <2>6, <3>2 DEF HandsInv
        <4>2. \A r \in Running' : r \in Runs /\ Held(r)' \subseteq excused'
          BY <1>1, <2>4, <2>5, <2>6, <3>2, <4>1 DEF Running
        <4> QED BY <1>1, <2>6, <3>2, <4>2 DEF HandsInv
      <3> QED BY <3>1, <3>2
    <2>11. UnappliedInv'
      <3>1. CASE Running = {}
        BY <1>0, <1>1, <2>4, <2>5, <2>6, <3>1 DEF UnappliedInv
      <3>2. CASE Running # {}
        <4>1. \A r \in Running : r \in Runs \ {p}
          BY <1>1 DEF Running
        <4> QED BY <1>0, <1>1, <2>4, <2>5, <2>6, <3>2, <4>1 DEF UnappliedInv
      <3> QED BY <3>1, <3>2
    <2>12. OrderInv'
      <3>1. Ordered(queue', excused', accepted')
        BY <1>0, <1>1, <2>4, OrderLater DEF OrderInv
      <3>2. \A r \in Runs \ {p} :
                /\ Ordered(run'[r].batch, excused', accepted')
                /\ Ordered(run'[r].kept, excused', accepted')
                /\ Ahead(run'[r].kept, run'[r].batch, excused', accepted')
        BY <1>0, <1>1, <2>2, <2>4, RunOrderLater
      <3>3. run'[p].batch = queue' /\ run'[p].kept = <<>>
        BY <1>1, <2>2
      <3>4. Ordered(<<>>, excused', accepted') /\ Ahead(<<>>, queue', excused', accepted')
        BY OrderEmpty
      <3> QED BY <3>1, <3>2, <3>3, <3>4 DEF OrderInv
    <2>13. HistoryInv'
      BY <1>0, <1>1, <2>4 DEF HistoryInv, KeptInv, AppliedOnce, PostedInOrder, Done
    <2> QED BY <2>3, <2>7, <2>8, <2>9, <2>10, <2>11, <2>12, <2>13 DEF IInv
  <1> QED BY <1>2, <1>3

LEMMA SaveStep ==
  ASSUME IInv, NEW p \in Runs, SaveRemaining(p), UNCHANGED events
  PROVE  IInv'
  <1> DEFINE beside == Running # {p} \/ Enqueueing # {}
             kept == run[p].kept
  <1>0. /\ TypeOK /\ RunShape /\ FreshInv /\ SoundInv /\ TriedInv /\ HandsInv
        /\ UnappliedInv /\ OrderInv /\ HistoryInv
        /\ run \in [Runs -> RunType] /\ kept \in Seq(Entry) /\ Told \subseteq Writes
    BY Types DEF IInv
  <1>1. /\ run[p].pc = "save" /\ p \in Running
        /\ queue' = kept /\ accepted' = accepted /\ posted' = posted /\ applied' = applied
        /\ online' = online /\ signedIn' = signedIn /\ write' = write /\ events' = events
        /\ run' = [run EXCEPT ![p] = NoRun] /\ isProcessing' = FALSE
        /\ excused' = IF beside THEN excused \cup In(queue) \cup In(kept) \cup Enqueueing ELSE excused
    BY DEF SaveRemaining, Phone, Running
  <1> HIDE DEF beside
  <1>2. run'[p] = NoRun /\ \A r \in Runs \ {p} : run'[r] = run[r]
    BY <1>0, <1>1
  <1>3. run[p].batch = <<>> /\ Held(p) = In(kept)
    BY <1>0, <1>1, InEmpty DEF RunShape, Held
  <1>4. In(queue) \subseteq Writes /\ In(kept) \subseteq Writes
    BY <1>0, InTold DEF Held
  <1> HIDE DEF kept
  <1>5. Told' = Told /\ Running' = Running \ {p} /\ excused \subseteq excused'
    BY <1>1, <1>2 DEF Told, Running, NoRun
  <1>6. Held(p)' = {} /\ \A r \in Runs \ {p} : Held(r)' = Held(r)
    BY <1>2, InEmpty DEF Held, NoRun
  <1>7. /\ beside => In(queue) \subseteq excused' /\ In(kept) \subseteq excused'
        /\ ~beside => Running = {p} /\ excused' = excused
    BY <1>1 DEF beside
  <1>8. TypeOK'
    <2>1. <<>> \in Seq(Entry)
      OBVIOUS
    <2>2. run' \in [Runs -> RunType]
      BY <1>0, <1>1, <2>1 DEF NoRun, RunType
    <2>3. excused' \subseteq Writes
      BY <1>0, <1>1, <1>4 DEF TypeOK, Enqueueing
    <2> QED BY <1>0, <1>1, <2>2, <2>3 DEF TypeOK, RunType
  <1>9. RunShape' /\ TriedInv'
    <2>1. RunShape'
      BY <1>0, <1>2, <1>5 DEF RunShape, NoRun
    <2>2. TriedInv'
      BY <1>0, <1>1, <1>2, InEmpty DEF TriedInv, NoRun
    <2> QED BY <2>1, <2>2
  <1>10. FreshInv'
    BY <1>0, <1>1, <1>5 DEF FreshInv
  <1>11. SoundInv'
    BY <1>0, <1>1, <1>2, <1>5, OrderEmpty DEF SoundInv, NoRun, kept
  <1>12. \A r \in Running' : r \in Runs \ {p} /\ r \in Running
    BY <1>5 DEF Running
  <1>13. HandsInv'
    <2>1. CASE ~beside
      BY <1>5, <1>7, <2>1 DEF HandsInv
    <2>2. CASE beside
      <3>1. \A r \in Running' : Held(r)' \subseteq excused'
        BY <1>0, <1>5, <1>6, <1>7, <1>12, <2>2 DEF HandsInv
      <3> QED BY <1>1, <1>7, <2>2, <3>1 DEF HandsInv
    <2> QED BY <2>1, <2>2
  <1>14. UnappliedInv'
    <2>1. CASE ~beside
      BY <1>0, <1>1, <1>3, <1>5, <1>7, <2>1 DEF UnappliedInv
    <2>2. CASE beside
      BY <1>0, <1>1, <1>5, <1>6, <1>7, <1>12, <2>2 DEF UnappliedInv
    <2> QED BY <2>1, <2>2
  <1>15. OrderInv'
    <2>1. Ordered(queue', excused', accepted')
      BY <1>0, <1>1, <1>5, OrderLater DEF OrderInv, kept
    <2>2. \A r \in Runs \ {p} :
              /\ Ordered(run'[r].batch, excused', accepted')
              /\ Ordered(run'[r].kept, excused', accepted')
              /\ Ahead(run'[r].kept, run'[r].batch, excused', accepted')
      BY <1>0, <1>1, <1>2, <1>5, RunOrderLater
    <2>3. run'[p].batch = <<>> /\ run'[p].kept = <<>>
      BY <1>2 DEF NoRun
    <2>4. Ordered(<<>>, excused', accepted') /\ Ahead(<<>>, <<>>, excused', accepted')
      BY OrderEmpty
    <2> QED BY <2>1, <2>2, <2>3, <2>4 DEF OrderInv
  <1>16. KeptInv'
    <2>1. \A v : Done(v)' <=> Done(v)
      BY <1>1 DEF Done
    <2>2. CASE ~beside
      BY <1>0, <1>1, <1>3, <1>5, <1>7, <2>1, <2>2 DEF HistoryInv, KeptInv, HandsInv
    <2>3. CASE beside
      BY <1>0, <1>5, <1>7, <2>1, <2>3 DEF HistoryInv, KeptInv
    <2> QED BY <2>2, <2>3
  <1>17. AppliedOnce' /\ PostedInOrder'
    BY <1>0, <1>1, <1>5 DEF HistoryInv, AppliedOnce, PostedInOrder
  <1> QED BY <1>8, <1>9, <1>10, <1>11, <1>13, <1>14, <1>15, <1>16, <1>17 DEF IInv, HistoryInv

LEMMA KillStep ==
  ASSUME IInv, Kill, events' \in 0 .. MaxEvents
  PROVE  IInv'
  <1>0. /\ TypeOK /\ RunShape /\ FreshInv /\ SoundInv /\ TriedInv /\ HandsInv
        /\ UnappliedInv /\ OrderInv /\ HistoryInv
        /\ write \in [Writes -> WriteType] /\ Told \subseteq Writes
    BY Types DEF IInv
  <1>1. /\ queue' = queue /\ accepted' = accepted /\ posted' = posted /\ applied' = applied
        /\ online' = online /\ signedIn' = signedIn /\ isProcessing' = FALSE
        /\ run' = [p \in Runs |-> NoRun]
        /\ write' = [w \in Writes |-> IF write[w].pc \in {"sent", "store"}
                                        THEN [write[w] EXCEPT !.pc = "settled", !.read = <<>>] ELSE write[w]]
        /\ excused' = IF Running = {} THEN excused ELSE excused \cup In(queue)
    BY DEF Kill, Phone
  <1>2. <<>> \in Seq(Entry)
    OBVIOUS
  <1>3. \A w \in Writes : write'[w] \in WriteType /\ write'[w].read \in {write[w].read, <<>>}
                          /\ (write'[w].pc = write[w].pc \/ write'[w].pc = "settled")
    BY <1>0, <1>1, <1>2 DEF WriteType
  <1>4. TypeOK'
    <2>1. run' \in [Runs -> RunType]
      BY <1>1, <1>2 DEF RunType, NoRun
    <2>2. write' \in [Writes -> WriteType]
      BY <1>1, <1>3
    <2>3. excused' \subseteq Writes
      BY <1>0, <1>1, InTold DEF TypeOK
    <2> QED BY <1>0, <1>1, <2>1, <2>2, <2>3 DEF TypeOK, RunType, WriteType
  <1>5. Told' = Told /\ Running' = {} /\ excused \subseteq excused'
        /\ \A p \in Runs : run'[p] = NoRun
    BY <1>1 DEF Told, Running, NoRun
  <1>6. RunShape' /\ TriedInv'
    BY <1>5, InEmpty DEF RunShape, TriedInv, NoRun
  <1>7. FreshInv'
    BY <1>0, <1>1, <1>3, <1>5 DEF FreshInv
  <1>8. SoundInv'
    BY <1>0, <1>1, <1>3, <1>5, OrderEmpty DEF SoundInv, NoRun
  <1>9. HandsInv' /\ UnappliedInv'
    BY <1>0, <1>1, <1>5 DEF HandsInv, UnappliedInv
  <1>10. OrderInv'
    BY <1>0, <1>1, <1>5, OrderLater, OrderEmpty DEF OrderInv, NoRun
  <1>11. HistoryInv'
    <2>1. KeptInv'
      BY <1>0, <1>1, <1>5 DEF HistoryInv, KeptInv, Done
    <2>2. AppliedOnce'
      BY <1>0, <1>1, <1>5 DEF HistoryInv, AppliedOnce
    <2>3. PostedInOrder'
      <3>1. accepted' = accepted /\ posted' = posted /\ excused \subseteq excused' /\ PostedInOrder
        BY <1>0, <1>1, <1>5 DEF HistoryInv
      <3> QED BY <3>1 DEF PostedInOrder
    <2> QED BY <2>1, <2>2, <2>3 DEF HistoryInv
  <1> QED BY <1>4, <1>6, <1>7, <1>8, <1>9, <1>10, <1>11 DEF IInv

\* What the two outcomes of a post come to for the entry that is posted.
Posts(p) ==
    LET e == Head(run[p].batch)
    IN  /\ run[p].pc = "post"
        /\ CountPost(e.w)
        /\ \E kept \in {run[p].kept, GiveUp(p, e)} :
               /\ After(p, kept)
               /\ \/ kept = GiveUp(p, e) /\ applied' = applied /\ excused' = excused
                  \/ kept = run[p].kept /\ applied' = Once(applied, e.w) /\ excused' = excused
                  \/ applied' = Once(applied, e.w) /\ excused' = excused \cup {e.w}
        /\ UNCHANGED <<Phone, queue, isProcessing, write, accepted>>

LEMMA PostsBoth ==
  ASSUME NEW p \in Runs, PostDone(p) \/ PostFailed(p)
  PROVE  Posts(p)
BY DEF PostDone, PostFailed, Posts

\* The histories of one write grow, as far as they count.
LEMMA CountPostGrows ==
  ASSUME NEW u \in Writes, posted \in [Writes -> 0 .. MaxRetry + 1], CountPost(u)
  PROVE  /\ posted' \in [Writes -> 0 .. MaxRetry + 1]
         /\ \A v \in Writes : posted[v] <= posted'[v]
         /\ \A v \in Writes \ {u} : posted'[v] = posted[v]
         /\ posted'[u] > 0
         /\ \A t \in 0 .. MaxRetry - 1 : t <= posted[u] => t < posted'[u]
  <1>1. MaxRetry \in Nat
    BY AppAssumption
  <1>2. posted'[u] = (IF posted[u] > MaxRetry THEN posted[u] ELSE posted[u] + 1)
        /\ \A v \in Writes \ {u} : posted'[v] = posted[v]
    BY DEF CountPost
  <1>3. \A v \in Writes : posted[v] \in 0 .. MaxRetry + 1 /\ posted[v] <= posted[v]
    BY <1>1
  <1>4. /\ posted'[u] \in 0 .. MaxRetry + 1 /\ posted[u] <= posted'[u] /\ posted'[u] > 0
        /\ \A t \in 0 .. MaxRetry - 1 : t <= posted[u] => t < posted'[u]
    BY <1>1, <1>2, <1>3
  <1>5. posted' \in [Writes -> 0 .. MaxRetry + 1]
    BY <1>4 DEF CountPost
  <1> QED BY <1>2, <1>3, <1>4, <1>5

LEMMA OnceGrows ==
  ASSUME NEW u \in Writes, applied \in [Writes -> 0 .. 2],
         applied' = applied \/ applied' = Once(applied, u)
  PROVE  /\ applied' \in [Writes -> 0 .. 2]
         /\ \A v \in Writes : applied[v] <= applied'[v]
         /\ \A v \in Writes \ {u} : applied'[v] = applied[v]
         /\ applied' = Once(applied, u) => applied'[u] > 0 /\ (applied[u] = 0 => applied'[u] = 1)
  <1>1. \A v \in Writes : applied[v] \in 0 .. 2 /\ applied[v] <= applied[v]
    OBVIOUS
  <1>2. CASE applied' = applied /\ applied' # Once(applied, u)
    BY <1>1, <1>2
  <1>3. CASE applied' = Once(applied, u)
    <2>1. applied'[u] = (IF applied[u] < 2 THEN applied[u] + 1 ELSE applied[u])
          /\ \A v \in Writes \ {u} : applied'[v] = applied[v]
      BY <1>3 DEF Once
    <2>2. applied'[u] \in 0 .. 2 /\ applied[u] <= applied'[u] /\ applied'[u] > 0
          /\ (applied[u] = 0 => applied'[u] = 1)
      BY <1>1, <2>1
    <2>3. applied' \in [Writes -> 0 .. 2]
      BY <1>3, <2>2 DEF Once
    <2> QED BY <1>1, <2>1, <2>2, <2>3
  <1> QED BY <1>2, <1>3

\* One posting adds to one write's histories only.
LEMMA PostCounts ==
  ASSUME IInv, NEW p \in Runs, Posts(p), NEW u, u = Head(run[p].batch).w
  PROVE  /\ u \in Told /\ u \in Writes /\ run[p].batch # <<>> /\ p \in Running
         /\ Head(run[p].batch) \in Entry
         /\ Head(run[p].batch).tries < posted'[u]
         /\ posted' \in [Writes -> 0 .. MaxRetry + 1] /\ applied' \in [Writes -> 0 .. 2]
         /\ \A v \in Writes : posted[v] <= posted'[v] /\ applied[v] <= applied'[v]
         /\ \A v \in Writes \ {u} : posted'[v] = posted[v] /\ applied'[v] = applied[v]
         /\ posted'[u] > 0
         /\ applied' = Once(applied, u) => applied'[u] > 0 /\ (applied[u] = 0 => applied'[u] = 1)
         /\ excused \subseteq excused' /\ excused' \subseteq Writes
         /\ accepted' = accepted /\ Told' = Told
  <1> DEFINE e == Head(run[p].batch)
  <1>0. /\ TypeOK /\ RunShape /\ SoundInv
        /\ posted \in [Writes -> 0 .. MaxRetry + 1] /\ applied \in [Writes -> 0 .. 2]
        /\ run[p].batch \in Seq(Entry) /\ run[p].kept \in Seq(Entry) /\ Told \subseteq Writes
    BY Types DEF IInv, TypeOK
  <1>1. run[p].pc = "post" /\ run[p].batch # <<>> /\ p \in Running
    BY <1>0 DEF Posts, RunShape, Running
  <1>2. Sound(run[p].batch, Told, posted)
    BY <1>0 DEF SoundInv
  <1>3. e \in Entry /\ u \in Told /\ e.tries <= posted[u] /\ u \in Writes
    BY <1>0, <1>1, <1>2, SoundTail, InTail
  <1>4. CountPost(u) /\ accepted' = accepted
        /\ (\/ applied' = applied /\ excused' = excused
            \/ applied' = Once(applied, u) /\ excused' \subseteq excused \cup {u} /\ excused \subseteq excused')
    BY DEF Posts
  <1> HIDE DEF e
  <1>5. e.tries \in 0 .. MaxRetry - 1
    BY <1>3 DEF Entry
  <1>6. /\ posted' \in [Writes -> 0 .. MaxRetry + 1] /\ posted'[u] > 0 /\ e.tries < posted'[u]
        /\ \A v \in Writes : posted[v] <= posted'[v]
        /\ \A v \in Writes \ {u} : posted'[v] = posted[v]
    BY <1>0, <1>3, <1>4, <1>5, CountPostGrows
  <1>7. /\ applied' \in [Writes -> 0 .. 2]
        /\ \A v \in Writes : applied[v] <= applied'[v]
        /\ \A v \in Writes \ {u} : applied'[v] = applied[v]
        /\ applied' = Once(applied, u) => applied'[u] > 0 /\ (applied[u] = 0 => applied'[u] = 1)
    BY <1>0, <1>3, <1>4, OnceGrows
  <1>8. excused \subseteq excused' /\ excused' \subseteq Writes
    BY <1>0, <1>3, <1>4 DEF TypeOK
  <1>9. Told' = Told
    BY <1>4 DEF Told
  <1>10. e = Head(run[p].batch)
    BY DEF e
  <1> QED BY <1>1, <1>3, <1>4, <1>6, <1>7, <1>8, <1>9, <1>10

\* Without an excuse, the posted entry is in no other hands and not done yet.
LEMMA PostAlone ==
  ASSUME IInv, NEW p \in Runs, run[p].pc = "post", NEW u, u = Head(run[p].batch).w, u \notin excused
  PROVE  /\ Running = {p}
         /\ u \notin In(Tail(run[p].batch)) /\ u \notin In(run[p].kept)
         /\ applied[u] = 0
         /\ \A v \in In(Tail(run[p].batch)) \ excused : Before(u, v, accepted)
         /\ \A v \in In(run[p].kept) \ excused : Before(v, u, accepted)
  <1>0. /\ TypeOK /\ RunShape /\ SoundInv /\ HandsInv /\ UnappliedInv /\ OrderInv
        /\ run[p].batch \in Seq(Entry) /\ accepted \in Seq(Writes)
    BY Types DEF IInv
  <1>1. run[p].batch # <<>> /\ p \in Running
    BY <1>0 DEF RunShape, Running
  <1>2. u \in In(run[p].batch) /\ u \in Held(p)
    BY <1>0, <1>1, InTail DEF Held
  <1>3. u \in ToSet(accepted)
    BY <1>0, <1>2, InTold DEF Told
  <1>4. ~Before(u, u, accepted)
    <2>1. PICK i \in DOMAIN accepted : accepted[i] = u
      BY <1>3 DEF ToSet
    <2>2. ~(i < i)
      BY <1>0, <2>1
    <2> QED BY <2>1, <2>2 DEF Before
  <1>5. \A v \in In(Tail(run[p].batch)) \ excused : Before(u, v, accepted)
    BY <1>0, <1>1, OrderTail DEF OrderInv
  <1>6. \A v \in In(run[p].kept) \ excused : Before(v, u, accepted)
    BY <1>0, <1>2 DEF OrderInv, Ahead
  <1>7. Running = {p} /\ applied[u] = 0
    BY <1>0, <1>1, <1>2 DEF HandsInv, UnappliedInv
  <1> QED BY <1>4, <1>5, <1>6, <1>7

\* A try more.
LEMMA EntryAgain ==
  ASSUME NEW e \in Entry
  PROVE  /\ e.tries \in Nat
         /\ e.tries + 1 < MaxRetry \/ e.tries + 1 >= MaxRetry
         /\ [e EXCEPT !.tries = @ + 1].w = e.w /\ [e EXCEPT !.tries = @ + 1].tries = e.tries + 1
         /\ e.tries + 1 < MaxRetry => [e EXCEPT !.tries = @ + 1] \in Entry
         /\ \A n \in Nat : e.tries < n /\ e.tries + 1 >= MaxRetry => n >= MaxRetry
  <1>1. MaxRetry \in Nat
    BY AppAssumption
  <1>2. e.tries \in 0 .. MaxRetry - 1 /\ e.w \in Writes
    BY DEF Entry
  <1>3. e.tries + 1 < MaxRetry => e.tries + 1 \in 0 .. MaxRetry - 1
    BY <1>1, <1>2
  <1>4. [e EXCEPT !.tries = @ + 1].w = e.w /\ [e EXCEPT !.tries = @ + 1].tries = e.tries + 1
    BY DEF Entry
  <1>5. [e EXCEPT !.tries = @ + 1] = [w |-> e.w, tries |-> e.tries + 1]
    BY DEF Entry
  <1>6. e.tries + 1 < MaxRetry => [e EXCEPT !.tries = @ + 1] \in Entry
    BY <1>2, <1>3, <1>5 DEF Entry
  <1> QED BY <1>1, <1>2, <1>4, <1>6

\* What a post leaves in the run's hands.
LEMMA PostHands ==
  ASSUME IInv, NEW p \in Runs, Posts(p), NEW u, u = Head(run[p].batch).w
  PROVE  /\ run' \in [Runs -> RunType] /\ \A r \in Runs \ {p} : run'[r] = run[r]
         /\ run'[p].batch = Tail(run[p].batch)
         /\ run'[p].pc = IF run'[p].batch = <<>> THEN "save" ELSE "post"
         /\ In(run[p].batch) = In(run'[p].batch) \cup {u}
         /\ \/ run'[p].kept = run[p].kept
            \/ /\ run'[p].kept = Append(run[p].kept, [Head(run[p].batch) EXCEPT !.tries = @ + 1])
               /\ In(run'[p].kept) = In(run[p].kept) \cup {u}
         /\ \/ u \in In(run'[p].kept) /\ applied' = applied
            \/ posted'[u] >= MaxRetry /\ run'[p].kept = run[p].kept
            \/ applied' = Once(applied, u) /\ run'[p].kept = run[p].kept
            \/ u \in excused'
         /\ u \notin excused' => applied' = applied \/ run'[p].kept = run[p].kept
  <1> DEFINE e == Head(run[p].batch)
             again == [e EXCEPT !.tries = @ + 1]
             batch == run[p].batch
  <1>0. /\ TypeOK /\ batch \in Seq(Entry) /\ run[p].kept \in Seq(Entry) /\ run \in [Runs -> RunType]
        /\ posted' \in [Writes -> 0 .. MaxRetry + 1]
        /\ batch # <<>> /\ e \in Entry /\ u \in Writes /\ e.tries < posted'[u]
    BY Types, PostCounts DEF IInv
  <1>1. Tail(batch) \in Seq(Entry) /\ In(batch) = {u} \cup In(Tail(batch)) /\ (Len(batch) = 1 <=> Tail(batch) = <<>>)
    BY <1>0, InTail, OneLeft
  <1>2. PICK kept \in {run[p].kept, GiveUp(p, e)} :
          /\ After(p, kept)
          /\ \/ kept = GiveUp(p, e) /\ applied' = applied /\ excused' = excused
             \/ kept = run[p].kept /\ applied' = Once(applied, u) /\ excused' = excused
             \/ applied' = Once(applied, u) /\ excused' = excused \cup {u}
    BY DEF Posts
  <1>3. e.w = u
    OBVIOUS
  <1>4. again.w = u /\ (e.tries + 1 < MaxRetry \/ e.tries + 1 >= MaxRetry)
    BY <1>0, <1>3, EntryAgain
  <1>5. e.tries + 1 < MaxRetry => again \in Entry
    BY <1>0, EntryAgain
  <1>6. e.tries + 1 >= MaxRetry => posted'[u] >= MaxRetry
    <2>1. posted'[u] \in Nat
      <3>1. 0 .. MaxRetry + 1 \subseteq Nat
        BY AppAssumption
      <3> QED BY <1>0, <3>1
    <2> QED BY <1>0, <2>1, EntryAgain
  <1>7. \/ e.tries + 1 < MaxRetry /\ GiveUp(p, e) = Append(run[p].kept, again)
        \/ e.tries + 1 >= MaxRetry /\ GiveUp(p, e) = run[p].kept
    <2>1. e.tries \in Nat /\ MaxRetry \in Nat
      BY <1>0, EntryAgain, AppAssumption
    <2> HIDE DEF e
    <2>2. e.tries + 1 >= MaxRetry <=> ~(e.tries + 1 < MaxRetry)
      BY <2>1
    <2> QED BY <1>4, <2>2 DEF GiveUp
  <1> HIDE DEF e, again
  <1>8. In(Append(run[p].kept, again)) = In(run[p].kept) \cup {u}
    BY <1>0, <1>4, InAppend
  <1>9. kept \in Seq(Entry)
    <2>0. CASE kept = run[p].kept
      BY <1>0, <2>0
    <2>1. CASE kept = GiveUp(p, e) /\ kept # run[p].kept
      <3>1. kept = Append(run[p].kept, again) /\ again \in Entry
        BY <1>5, <1>7, <2>1
      <3> QED BY <1>0, <3>1
    <2> QED BY <1>2, <2>0, <2>1
  <1>10. run' = [run EXCEPT ![p] = [pc |-> IF Len(batch) = 1 THEN "save" ELSE "post",
                                    batch |-> Tail(batch), kept |-> kept]]
    BY <1>2 DEF After
  <1>11. run' \in [Runs -> RunType] /\ \A r \in Runs \ {p} : run'[r] = run[r]
    BY <1>0, <1>1, <1>9, <1>10 DEF RunType
  <1>12. run'[p].batch = Tail(batch) /\ run'[p].kept = kept
         /\ run'[p].pc = IF Tail(batch) = <<>> THEN "save" ELSE "post"
    BY <1>0, <1>1, <1>10
  <1>13. kept = run[p].kept \/ kept = Append(run[p].kept, again)
    BY <1>2, <1>7
  <1>14. \/ u \in In(kept) /\ applied' = applied
         \/ posted'[u] >= MaxRetry /\ kept = run[p].kept
         \/ applied' = Once(applied, u) /\ kept = run[p].kept
         \/ u \in excused'
    BY <1>2, <1>6, <1>7, <1>8
  <1>15. u \notin excused' => applied' = applied \/ kept = run[p].kept
    BY <1>2
  <1> QED BY <1>1, <1>8, <1>11, <1>12, <1>13, <1>14, <1>15 DEF again, e

LEMMA PostStep ==
  ASSUME IInv, NEW p \in Runs, Posts(p), UNCHANGED events
  PROVE  IInv'
  <1> DEFINE u == Head(run[p].batch).w
  <1>0. /\ TypeOK /\ RunShape /\ FreshInv /\ SoundInv /\ TriedInv /\ HandsInv
        /\ UnappliedInv /\ OrderInv /\ HistoryInv
        /\ run \in [Runs -> RunType] /\ queue \in Seq(Entry) /\ Told \subseteq Writes
        /\ posted \in [Writes -> Nat] /\ applied \in [Writes -> Nat]
        /\ run[p].batch \in Seq(Entry) /\ run[p].kept \in Seq(Entry) /\ accepted \in Seq(Writes)
    BY Types DEF IInv
  <1>1. /\ run[p].pc = "post" /\ queue' = queue /\ online' = online /\ signedIn' = signedIn
        /\ isProcessing' = isProcessing /\ write' = write /\ events' = events
    BY DEF Posts, Phone
  <1>2. /\ u \in Told /\ u \in Writes /\ run[p].batch # <<>> /\ p \in Running
        /\ Head(run[p].batch) \in Entry
        /\ Head(run[p].batch).tries < posted'[u]
        /\ posted' \in [Writes -> 0 .. MaxRetry + 1] /\ applied' \in [Writes -> 0 .. 2]
        /\ \A v \in Writes : posted[v] <= posted'[v] /\ applied[v] <= applied'[v]
        /\ \A v \in Writes \ {u} : posted'[v] = posted[v] /\ applied'[v] = applied[v]
        /\ posted'[u] > 0
        /\ applied' = Once(applied, u) => applied'[u] > 0 /\ (applied[u] = 0 => applied'[u] = 1)
        /\ excused \subseteq excused' /\ excused' \subseteq Writes
        /\ accepted' = accepted /\ Told' = Told
    BY PostCounts
  <1>3. /\ run' \in [Runs -> RunType] /\ \A r \in Runs \ {p} : run'[r] = run[r]
        /\ run'[p].batch = Tail(run[p].batch)
        /\ run'[p].pc = IF run'[p].batch = <<>> THEN "save" ELSE "post"
        /\ In(run[p].batch) = In(run'[p].batch) \cup {u}
        /\ \/ run'[p].kept = run[p].kept
           \/ /\ run'[p].kept = Append(run[p].kept, [Head(run[p].batch) EXCEPT !.tries = @ + 1])
              /\ In(run'[p].kept) = In(run[p].kept) \cup {u}
        /\ \/ u \in In(run'[p].kept) /\ applied' = applied
           \/ posted'[u] >= MaxRetry /\ run'[p].kept = run[p].kept
           \/ applied' = Once(applied, u) /\ run'[p].kept = run[p].kept
           \/ u \in excused'
        /\ u \notin excused' => applied' = applied \/ run'[p].kept = run[p].kept
    BY PostHands
  <1>4. u \notin excused' =>
           /\ Running = {p}
           /\ u \notin In(run'[p].batch) /\ u \notin In(run[p].kept)
           /\ applied[u] = 0
    BY <1>1, <1>2, <1>3, PostAlone
  <1>5. u \notin excused =>
           /\ \A v \in In(run'[p].batch) \ excused : Before(u, v, accepted)
           /\ \A v \in In(run[p].kept) \ excused : Before(v, u, accepted)
    BY <1>1, <1>3, PostAlone
  <1>6. Head(run[p].batch).w = u
    OBVIOUS
  <1> HIDE DEF u
  <1>7. MaxRetry \in Nat \ {0}
    BY AppAssumption
  <1>8. posted' \in [Writes -> Nat] /\ applied' \in [Writes -> Nat]
    BY <1>2, <1>7
  <1>9. Running' = Running
    BY <1>1, <1>2, <1>3 DEF Running
  <1>10. /\ In(run[p].kept) \subseteq In(run'[p].kept) /\ In(run'[p].kept) \subseteq In(run[p].kept) \cup {u}
         /\ u \in Held(p)
         /\ Held(p)' \subseteq Held(p) /\ Held(p) \subseteq Held(p)' \cup {u}
         /\ \A r \in Runs \ {p} : Held(r)' = Held(r)
    BY <1>3 DEF Held
  <1>11. \A v \in Writes : Done(v) => Done(v)'
    <2> SUFFICES ASSUME NEW v \in Writes, Done(v)  PROVE  Done(v)'
      OBVIOUS
    <2>1. posted[v] \in Nat /\ posted'[v] \in Nat /\ applied[v] \in Nat /\ applied'[v] \in Nat
          /\ posted[v] <= posted'[v] /\ applied[v] <= applied'[v]
      BY <1>0, <1>2, <1>8
    <2> QED BY <1>7, <2>1 DEF Done
  <1>12. TypeOK'
    BY <1>0, <1>1, <1>2, <1>3 DEF TypeOK, RunType
  <1>13. RunShape'
    BY <1>0, <1>2, <1>3, <1>9 DEF RunShape
  <1>14. FreshInv'
    BY <1>0, <1>1, <1>2 DEF FreshInv
  <1>15. SoundInv'
    <2>1. \A q \in Seq(Entry) : Sound(q, Told, posted) => Sound(q, Told', posted')
      BY <1>0, <1>2, <1>8, SoundLater
    <2>2. \A v \in Writes : Sound(write'[v].read, Told', posted')
      BY <1>0, <1>1, <2>1, Types DEF SoundInv
    <2>3. \A r \in Runs : Sound(run[r].batch, Told', posted') /\ Sound(run[r].kept, Told', posted')
      BY <1>0, <2>1, Types DEF SoundInv
    <2>4. Sound(run'[p].batch, Told', posted')
      BY <1>0, <1>2, <1>3, <2>3, SoundTail
    <2>5. Sound(run'[p].kept, Told', posted')
      <3> DEFINE again == [Head(run[p].batch) EXCEPT !.tries = @ + 1]
      <3>1. again.w = u /\ again.tries <= posted'[u]
        <4>1. Head(run[p].batch).tries \in 0 .. MaxRetry - 1 /\ posted'[u] \in Nat
          BY <1>2, <1>8 DEF Entry
        <4>2. again.w = u /\ again.tries = Head(run[p].batch).tries + 1
          BY <1>2, <1>6 DEF Entry
        <4> QED BY <1>2, <1>7, <4>1, <4>2
      <3> HIDE DEF again
      <3>2. Sound(Append(run[p].kept, again), Told', posted')
        BY <1>0, <1>2, <2>3, <3>1, SoundAppend
      <3> QED BY <1>3, <2>3, <3>2 DEF again
    <2>6. Sound(queue', Told', posted')
      BY <1>0, <1>1, <2>1 DEF SoundInv
    <2> QED BY <1>3, <2>2, <2>3, <2>4, <2>5, <2>6 DEF SoundInv
  <1>16. TriedInv'
    <2> SUFFICES ASSUME NEW r \in Runs, NEW v \in In(run'[r].kept)
                 PROVE  posted'[v] > 0
      BY DEF TriedInv
    <2>1. CASE v = u
      BY <1>2, <2>1
    <2>2. CASE v # u
      <3>1. v \in In(run[r].kept)
        BY <1>3, <1>10, <2>2
      <3>2. v \in Writes /\ posted[v] > 0
        BY <1>0, <3>1, InTold DEF TriedInv, Held
      <3> QED BY <1>2, <2>2, <3>2
    <2> QED BY <2>1, <2>2
  <1>17. HandsInv'
    <2>1. \A r \in Running : r \in Runs
      BY DEF Running
    <2>2. \A r \in Running : Held(r)' \subseteq Held(r)
      BY <1>10, <2>1
    <2>3. \A r \in Running' : Held(r)' \ excused' \subseteq In(queue)'
      BY <1>0, <1>1, <1>2, <1>9, <2>2 DEF HandsInv
    <2>4. \A r, q \in Running' : r # q => Held(r)' \subseteq excused'
      BY <1>0, <1>2, <1>9, <2>2 DEF HandsInv
    <2>5. ASSUME NEW r \in Running', NEW v \in In(queue)' \ excused'
          PROVE  v \in Held(r)' \/ Done(v)'
      <3>1. v \in Writes /\ v \in In(queue) \ excused /\ r \in Running
        BY <1>0, <1>1, <1>2, <1>9, <2>5, InTold
      <3>2. v \in Held(r) \/ Done(v)
        BY <1>0, <3>1 DEF HandsInv
      <3>3. CASE v # u \/ r # p
        <4>1. CASE r # p
          BY <1>10, <1>11, <2>1, <3>1, <3>2, <4>1
        <4>2. CASE v # u /\ r = p
          BY <1>10, <1>11, <3>1, <3>2, <4>2
        <4> QED BY <3>3, <4>1, <4>2
      <3>4. CASE v = u /\ r = p
        <4>1. CASE u \in In(run'[p].kept)
          BY <3>4, <4>1 DEF Held
        <4>2. CASE posted'[u] >= MaxRetry
          BY <3>4, <4>2 DEF Done
        <4>3. CASE applied' = Once(applied, u)
          BY <1>2, <3>4, <4>3 DEF Done
        <4> QED BY <1>3, <2>5, <3>4, <4>1, <4>2, <4>3
      <3> QED BY <3>3, <3>4
    <2> QED BY <2>3, <2>4, <2>5 DEF HandsInv
  <1>18. UnappliedInv'
    <2>1. ASSUME NEW r \in Running, NEW v \in Held(r)' \ excused'
          PROVE  applied'[v] = 0
      <3>1. r \in Runs /\ v \in Held(r) \ excused /\ applied[v] = 0 /\ v \in Writes
        <4>1. r \in Runs
          BY DEF Running
        <4>2. v \in Held(r) \ excused
          BY <1>2, <1>10, <2>1, <4>1
        <4> QED BY <1>0, <2>1, <4>1, <4>2, InTold DEF UnappliedInv
      <3>2. CASE v # u
        BY <1>2, <3>1, <3>2
      <3>3. CASE v = u
        <4>1. r = p
          BY <1>4, <2>1, <3>3
        <4>2. run'[p].kept # run[p].kept
          BY <1>4, <2>1, <3>3, <4>1 DEF Held
        <4> QED BY <1>3, <2>1, <3>1, <3>3, <4>2
      <3> QED BY <3>2, <3>3
    <2> QED BY <1>2, <1>9, <2>1 DEF UnappliedInv
  <1>19. OrderInv'
    <2>1. Ordered(queue', excused', accepted')
      BY <1>0, <1>1, <1>2, OrderLater DEF OrderInv
    <2>2. \A r \in Runs \ {p} :
              /\ Ordered(run'[r].batch, excused', accepted')
              /\ Ordered(run'[r].kept, excused', accepted')
              /\ Ahead(run'[r].kept, run'[r].batch, excused', accepted')
      BY <1>0, <1>2, <1>3, RunOrderLater
    <2>3. /\ Ordered(run[p].batch, excused, accepted)
          /\ Ordered(run[p].kept, excused, accepted)
          /\ Ahead(run[p].kept, run[p].batch, excused, accepted)
      BY <1>0 DEF OrderInv
    <2>4. Ordered(run'[p].batch, excused, accepted)
      BY <1>0, <1>2, <1>3, <2>3, OrderTail
    <2>5. Ordered(run'[p].kept, excused, accepted)
      <3> DEFINE again == [Head(run[p].batch) EXCEPT !.tries = @ + 1]
      <3>1. again.w = u
        BY <1>2, <1>6 DEF Entry
      <3> HIDE DEF again
      <3>2. Ordered(Append(run[p].kept, again), excused, accepted)
        BY <1>0, <1>5, <2>3, <3>1, OrderAppend
      <3> QED BY <1>3, <2>3, <3>2 DEF again
    <2>6. Ahead(run'[p].kept, run'[p].batch, excused, accepted)
      BY <1>3, <1>5, <1>10, <2>3 DEF Ahead
    <2> QED BY <1>2, <2>1, <2>2, <2>4, <2>5, <2>6, OrderLater DEF OrderInv
  <1>20. KeptInv'
    BY <1>0, <1>1, <1>2, <1>11 DEF HistoryInv, KeptInv
  <1>21. AppliedOnce'
    <2> SUFFICES ASSUME NEW v \in Writes, v \notin excused'  PROVE  applied'[v] <= 1
      BY DEF AppliedOnce
    <2>1. CASE v = u
      <3>1. applied[u] = 0
        BY <1>4, <2>1
      <3>2. CASE applied' = applied
        BY <2>1, <3>1, <3>2
      <3>3. CASE applied' = Once(applied, u)
        BY <1>2, <2>1, <3>1, <3>3
      <3> QED BY <3>2, <3>3 DEF Posts, u
    <2>2. CASE v # u
      BY <1>0, <1>2, <2>2 DEF HistoryInv, AppliedOnce
    <2> QED BY <2>1, <2>2
  <1>22. PostedInOrder'
    <2> SUFFICES ASSUME NEW i \in DOMAIN accepted, NEW j \in DOMAIN accepted, i < j,
                        accepted[i] \notin excused', accepted[j] \notin excused',
                        posted'[accepted[j]] > 0
                 PROVE  posted'[accepted[i]] > 0
      BY <1>2 DEF PostedInOrder
    <2> DEFINE v == accepted[i]
    <2>1. v \in Told /\ v \in Writes /\ accepted[j] \in Writes /\ v \notin excused /\ accepted[j] \notin excused
      BY <1>0, <1>2 DEF Told, ToSet
    <2>2. posted[v] \in Nat /\ posted'[v] \in Nat /\ posted[v] <= posted'[v]
      BY <1>0, <1>2, <1>8, <2>1
    <2>3. CASE accepted[j] # u
      <3>1. posted[accepted[j]] > 0
        BY <1>2, <2>1, <2>3
      <3>2. posted[v] > 0
        BY <1>0, <2>1, <3>1 DEF HistoryInv, PostedInOrder
      <3> QED BY <2>2, <3>2
    <2>4. CASE v = u
      BY <1>2, <2>4
    <2>5. CASE accepted[j] = u /\ v # u
      <3>1. v \in In(queue) \/ Done(v)
        BY <1>0, <2>1 DEF HistoryInv, KeptInv
      <3>2. v \in Held(p) \/ Done(v)
        BY <1>0, <1>2, <2>1, <3>1 DEF HandsInv
      <3>3. CASE Done(v)
        <4>1. posted[v] > 0
          BY <1>7, <2>2, <3>3 DEF Done
        <4> QED BY <2>2, <4>1
      <3>4. CASE v \in In(run[p].kept)
        <4>1. posted[v] > 0
          BY <1>0, <3>4 DEF TriedInv
        <4> QED BY <2>2, <4>1
      <3>5. CASE v \in In(run[p].batch)
        <4>1. v \in In(run'[p].batch)
          BY <1>3, <2>5, <3>5
        <4>2. Before(u, v, accepted)
          BY <1>5, <2>1, <2>5, <4>1
        <4>3. j < i
          BY <2>5, <4>2 DEF Before
        <4>4. i \in Nat /\ j \in Nat
          BY <1>0
        <4> QED BY <4>3, <4>4
      <3> QED BY <3>2, <3>3, <3>4, <3>5 DEF Held
    <2> QED BY <2>3, <2>4, <2>5
  <1> QED BY <1>12, <1>13, <1>14, <1>15, <1>16, <1>17, <1>18, <1>19, <1>20, <1>21, <1>22
          DEF IInv, HistoryInv

-----------------------------------------------------------------------------
(* The theorems *)

LEMMA InitInv == Init => IInv
  <1> SUFFICES ASSUME Init  PROVE  IInv
    OBVIOUS
  <1>1. <<>> \in Seq(Entry) /\ <<>> \in Seq(Writes) /\ MaxRetry \in Nat /\ MaxEvents \in Nat
    BY AppAssumption
  <1>2. TypeOK
    <2>1. 0 \in 0 .. MaxRetry + 1 /\ 0 \in 0 .. MaxEvents /\ 0 \in 0 .. 2
      BY <1>1
    <2>2. write \in [Writes -> WriteType] /\ run \in [Runs -> RunType]
      BY <1>1 DEF Init, WriteType, RunType, NewWrite, NoRun
    <2>3. posted \in [Writes -> 0 .. MaxRetry + 1] /\ applied \in [Writes -> 0 .. 2]
      BY <2>1 DEF Init
    <2> QED BY <1>1, <2>1, <2>2, <2>3 DEF Init, TypeOK, WriteType, RunType
  <1>3. Told = {} /\ Running = {}
    BY DEF Init, Told, ToSet, Running, NoRun
  <1>4. RunShape /\ FreshInv /\ TriedInv /\ HandsInv /\ UnappliedInv
    BY <1>3, InEmpty DEF Init, RunShape, FreshInv, TriedInv, HandsInv, UnappliedInv, NoRun, NewWrite
  <1>5. SoundInv /\ OrderInv
    BY OrderEmpty DEF Init, SoundInv, OrderInv, NoRun, NewWrite
  <1>6. HistoryInv
    BY <1>3 DEF Init, HistoryInv, KeptInv, AppliedOnce, PostedInOrder
  <1> QED BY <1>2, <1>4, <1>5, <1>6 DEF IInv

LEMMA NextInv == IInv /\ [Next]_vars => IInv'
  <1> SUFFICES ASSUME IInv, [Next]_vars  PROVE  IInv'
    OBVIOUS
  <1>1. MaxEvents \in Nat /\ events \in 0 .. MaxEvents
    BY AppAssumption DEF IInv, TypeOK
  <1>2. CASE Use /\ UNCHANGED events
    BY <1>2, SendStep, AnsweredStep, NetworkErrorStep, EnqueueStep DEF Use
  <1>3. ASSUME NEW p \in Runs, Connect(p) \/ Notice(p) \/ Step(p), UNCHANGED events
        PROVE  IInv'
    <2>1. CASE PostDone(p) \/ PostFailed(p)
      BY <1>3, <2>1, PostsBoth, PostStep
    <2> QED BY <1>3, <2>1, HeardStep, FetchStep, ReadStep, SaveStep DEF Step
  <1>4. CASE events < MaxEvents /\ Outside /\ events' = events + 1
    <2>1. events' \in 0 .. MaxEvents
      BY <1>1, <1>4
    <2> QED BY <1>4, <2>1, PhoneStep, KillStep DEF Outside
  <1>5. CASE UNCHANGED vars
    BY <1>5 DEF vars, IInv, TypeOK, RunShape, FreshInv, SoundInv, TriedInv, HandsInv, UnappliedInv,
       OrderInv, HistoryInv, KeptInv, AppliedOnce, PostedInOrder, Running, Held, Done, Told
  <1> QED BY <1>2, <1>3, <1>4, <1>5 DEF Next

\* Entries, requests and runs are at a line of offlineQueue.ts, and a count stays below
\* MAX_RETRY.
THEOREM TypesHold == Spec => []TypeOK
  <1>1. IInv => TypeOK
    BY DEF IInv
  <1> QED BY <1>1, InitInv, NextInv, PTL DEF Spec

\* enqueueRequest and processQueue: what was answered with "queued" is stored or in a
\* run's hands until the server has carried it out or it has had MAX_RETRY tries, unless
\* two readings and savings of the queue overlapped.
THEOREM AcceptedKept == Spec => []AcceptedIsKept
  <1>1. IInv => AcceptedIsKept
    <2> SUFFICES ASSUME IInv, NEW w \in Told \ excused
                 PROVE  Pending(w) \/ applied[w] > 0 \/ posted[w] >= MaxRetry
      BY DEF AcceptedIsKept, Told
    <2> QED BY DEF IInv, HistoryInv, KeptInv, Done, Pending
  <1> QED BY <1>1, InitInv, NextInv, PTL DEF Spec

\* processQueue: the server carries out a stored write at most once, unless an answer was
\* lost, the app was killed in the middle of a run or two runs crossed.
THEOREM AppliedAtMostOnce == Spec => []AppliedOnce
  <1>1. IInv => AppliedOnce
    BY DEF IInv, HistoryInv
  <1> QED BY <1>1, InitInv, NextInv, PTL DEF Spec

\* processQueue takes the stored writes, first posts included, in the order of the
\* answers "queued".
THEOREM FirstPostsInOrder == Spec => []PostedInOrder
  <1>1. IInv => PostedInOrder
    BY DEF IInv, HistoryInv
  <1> QED BY <1>1, InitInv, NextInv, PTL DEF Spec
=============================================================================
