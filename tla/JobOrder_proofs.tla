--------------------------- MODULE JobOrder_proofs ---------------------------
(***************************************************************************)
(* Proofs about JobSystem for callers that keep its disciplines: jobs      *)
(* start after what they depend on, and neither a ready job nor one that   *)
(* waits is ever forgotten, for any number of threads, jobs and queues.    *)
(*                                                                         *)
(* Under the disciplines a handle that a call names stays the present one  *)
(* of its slot until that call returns, and a job is not recycled while a  *)
(* promoter may still reach it: lists hold just the jobs that depend on    *)
(* their owner.                                                            *)
(***************************************************************************)
EXTENDS JobSystem_proofs

Disciplined == /\ Exclusive /\ PollAfterDep /\ BeforeFinish
               /\ Priorities \subseteq Levels

-----------------------------------------------------------------------------
(* The invariant.                                                          *)

SetPCs    == {"setgen", "setstatus", "setold", "setstore", "setagain"}
LinkPCs   == {"link", "prepend"}
ParkedPCs == {"link", "prepend", "recheck", "selfpromote", "added"}
SubmitPCs == FillPCs \union ParkedPCs

Linking(s) == \E f \in Frames : f.pc \in LinkPCs /\ f.job = s

(* y is on a list of those that depend on d, or past it.                   *)
Listed(y, d) == y \in 1..total /\ ~Filled(y) /\ ~Linking(y) /\ dep[Now(y)] = d

(* A handle that is set or depended on is the present one of its slot, one *)
(* that is polled belongs to a job with nothing left to wait for.          *)
NameOK(f) ==
  f.arg # NoHandle =>
    /\ f.arg \in issued
    /\ f.pc \notin Polling => ~Settled(f.arg)
    /\ f.pc \in Polling /\ dep[f.arg] # NoHandle => Settled(dep[f.arg])

(* Nobody else recycles what a poll is about to.                           *)
ReapOK(f) ==
  /\ f.pc = "pollagain" /\ f.seen = "completed" /\ Live(f.arg) => status[f.job] = "completed"
  /\ f.pc = "recycle" => Live(f.arg) /\ status[f.job] = "completed"

SetOK(f) == f.pc \in SetPCs \ {"setgen"} => f.arg # NoHandle /\ f.job = f.arg[1]

(* What a submitter knows of its job and of the dependency.                *)
SubmitOK(f) ==
  /\ f.pc \in SubmitPCs \union {"alloc"} =>
       f.cur = IF f.arg = NoHandle THEN Null ELSE f.arg[1]
  /\ f.pc \in SubmitPCs => f.own = Now(f.job) /\ f.own \notin issued
  /\ f.pc = "fill" => phase[f.own] = "none"
  /\ f.pc \in SubmitPCs \ {"fill"} => dep[f.own] = f.arg /\ priority[f.job] = f.prio
  /\ f.pc \in ParkedPCs => status[f.job] # "free"
  /\ f.pc \in {"depstatus", "publish", "park"} =>
       first_dependent[f.job] = Null /\ next_dependent[f.job] = Null
  /\ f.pc \in {"depstatus", "park", "link", "prepend", "recheck", "selfpromote"} =>
       f.arg # NoHandle
  /\ f.pc \in {"publish", "selfpromote"} /\ f.arg # NoHandle => phase[f.arg] = "done"
  /\ f.pc = "prepend" => /\ next_dependent[f.job] = f.next
                         /\ f.next # Null => Listed(f.next, f.arg)
  /\ f.pc = "recheck" => \/ status[f.cur] \in Done
                         \/ f.job \in Chain(first_dependent[f.cur])

WalkOK(f) ==
  /\ f.pc \in {"walk", "promote"} /\ f.next # Null => Listed(f.next, Now(f.job))
  /\ f.pc = "promote" => Listed(f.cur, Now(f.job))

OrderOK(f) == NameOK(f) /\ ReapOK(f) /\ SetOK(f) /\ SubmitOK(f) /\ WalkOK(f) /\ f.prio \in Levels

(* Who will schedule a job s that waits for x.                             *)
BySubmitter(s) ==
  \E f \in Frames : f.job = s /\ f.pc \in {"link", "prepend", "recheck", "selfpromote"}
ByList(s, x) ==
  /\ s \in Chain(first_dependent[x])
  /\ \/ status[x] \in {"not_started", "claimed", "waiting"}
     \/ \E f \in Frames : f.job = x /\ f.pc = "drain"
ByPromoter(s, x) ==
  \E f \in Frames : /\ f.job = x
                    /\ \/ f.pc \in {"walk", "promote"} /\ s \in Chain(f.next)
                       \/ f.pc = "promote" /\ f.cur = s
WaitHeld(s) ==
  LET d == dep[Now(s)]
  IN  \/ BySubmitter(s)
      \/ d # NoHandle /\ Live(d) /\ (ByList(s, d[1]) \/ ByPromoter(s, d[1]))

(* Who will run a job that is ready.                                       *)
Holding(f, s) ==
  /\ f.job = s
  /\ \/ f.pc \in {"loadprio", "inline"}
     \/ f.pc \in {"match", "claim", "enqueue", "setagain"} /\ f.prio = priority[s]
Queued(s) == \E i \in 1..Len(queue[priority[s]]) : queue[priority[s]][i] = s
ReadyHeld(s) == Queued(s) \/ \E f \in Frames : Holding(f, s)

JobOK(s) ==
  LET d == dep[Now(s)]
  IN  /\ status[s] \in {"not_started", "claimed"} /\ d # NoHandle => phase[d] = "done"
      /\ status[s] = "free" /\ d # NoHandle => Settled(d)
      /\ status[s] # "free" /\ first_dependent[s] # Null => Listed(first_dependent[s], Now(s))
      /\ d # NoHandle /\ ~Settled(d) /\ ~Linking(s) /\ next_dependent[s] # Null
           => Listed(next_dependent[s], d)

FramesOrdered == \A f \in Frames : OrderOK(f)
NamesApart    == \A t, u \in Threads : \A k \in 1..Depth(t), l \in 1..Depth(u) :
                   Fr(t, k).arg = Fr(u, l).arg /\ Fr(t, k).arg # NoHandle => t = u /\ k = l
OwnersApart   == \A t, u \in Threads : \A k \in 1..Depth(t), l \in 1..Depth(u) :
                   /\ Fr(t, k).pc \in SubmitPCs /\ Fr(u, l).pc \in SubmitPCs
                   /\ Fr(t, k).job = Fr(u, l).job
                   => t = u /\ k = l
JobsOK        == \A s \in 1..total : ~Filled(s) => JobOK(s)
WaitersHeld   == \A s \in 1..total : ~Filled(s) /\ status[s] = "waiting" => WaitHeld(s)
ReadyOnesHeld == \A s \in 1..total : ~Filled(s) /\ status[s] = "not_started" => ReadyHeld(s)
DepsKnown     == \A h \in Handles : dep[h] # NoHandle => Known(dep[h])
OldDone       == \A h \in Handles : h[2] < generation[h[1]] => phase[h] = "done"
NewNone       == \A h \in Handles : h[2] > generation[h[1]] => phase[h] = "none"
ClaimedAdded  == \A s \in 1..total : ~Filled(s) /\ status[s] = "claimed" => phase[Now(s)] # "none"
LevelsOK      == \A s \in Slots : priority[s] \in Levels

OInv == /\ FramesOrdered /\ NamesApart /\ OwnersApart /\ JobsOK /\ WaitersHeld /\ ReadyOnesHeld
        /\ DepsKnown /\ OldDone /\ NewNone /\ ClaimedAdded /\ LevelsOK /\ DependencyOrder
-----------------------------------------------------------------------------
(* Frames as a set.                                                        *)

LEMMA Positions ==
  ASSUME NEW S \in [Threads -> Seq(Frame)], NEW x
  PROVE  /\ (\E t \in Threads : \E i \in DOMAIN S[t] : S[t][i] = x)
              <=> \E t \in Threads : \E k \in 1..Len(S[t]) : S[t][Len(S[t]) - k + 1] = x
<1>1. ASSUME NEW t \in Threads
      PROVE  Len(S[t]) \in Nat /\ DOMAIN S[t] = 1..Len(S[t])
  BY LenProperties
<1>2. ASSUME NEW t \in Threads, NEW i \in DOMAIN S[t], S[t][i] = x
      PROVE  \E k \in 1..Len(S[t]) : S[t][Len(S[t]) - k + 1] = x
  <2>1. Len(S[t]) - i + 1 \in 1..Len(S[t]) /\ Len(S[t]) - (Len(S[t]) - i + 1) + 1 = i
    BY <1>1, <1>2
  <2> QED
    BY <1>2, <2>1
<1>3. ASSUME NEW t \in Threads, NEW k \in 1..Len(S[t]), S[t][Len(S[t]) - k + 1] = x
      PROVE  \E i \in DOMAIN S[t] : S[t][i] = x
  <2>1. Len(S[t]) - k + 1 \in DOMAIN S[t]
    BY <1>1
  <2> QED
    BY <1>3, <2>1
<1> QED
  BY <1>2, <1>3

LEMMA FrameSet ==
  ASSUME StackTypeOK
  PROVE  \A x : x \in Frames <=> \E t \in Threads : \E k \in 1..Depth(t) : Fr(t, k) = x
<1> TAKE x
<1>1. x \in Frames <=> \E t \in Threads : \E i \in DOMAIN stack[t] : stack[t][i] = x
  BY DEF Frames
<1> QED
  BY <1>1, Positions DEF StackTypeOK, Depth, Fr

LEMMA NewFrameSet ==
  ASSUME StackTypeOK'
  PROVE  \A x : x \in Frames' <=> \E t \in Threads : \E k \in 1..Depth(t)' : Fr(t, k)' = x
<1> TAKE x
<1>1. x \in Frames' <=> \E t \in Threads : \E i \in DOMAIN stack'[t] : stack'[t][i] = x
  BY DEF Frames
<1> QED
  BY <1>1, Positions DEF StackTypeOK, Depth, Fr

(* A step takes the frame f, or none, and puts the frames New in its place. *)
Turn(K, Old, f, New) ==
  /\ Frames = K \union Old /\ Frames' = K \union New
  /\ Old \subseteq {f} /\ (f \in Frames \/ f = Blank)
  /\ f \in Frame /\ FrOK(f) /\ OrderOK(f)
  /\ \A g \in K : /\ g.arg = f.arg => g.arg = NoHandle
                  /\ g.pc \in SubmitPCs /\ f.pc \in SubmitPCs => g.job # f.job
                  /\ Holds(g) /\ Holds(f) => g.job # f.job

(* The new frames carry the name and the job of the one they replace, or   *)
(* ones that nobody else has.                                              *)
Inherits(K, f, a) ==
  /\ a.arg = f.arg \/ \A g \in K : g.arg = a.arg => g.arg = NoHandle
  /\ a.pc \in SubmitPCs =>
       \/ f.pc \in SubmitPCs /\ a.job = f.job
       \/ \A g \in K : g.pc \in SubmitPCs => g.job # a.job

Others(t, lo) == {g \in Frame : \E u \in Threads : \E k \in 1..Depth(u) :
                                  Kept(t, lo, u, k) /\ g = Fr(u, k)}
Gone(t, lo)   == {g \in Frame : \E k \in 1..Depth(t) : k > lo /\ g = Fr(t, k)}

LEMMA ShiftFrames ==
  ASSUME StackTypeOK, NEW t \in Threads, NEW lo, NEW n, NEW a \in Frame, NEW b \in Frame,
         Shift(t, lo, n, a, b)
  PROVE  /\ Frames = Others(t, lo) \union Gone(t, lo)
         /\ Frames' = Others(t, lo) \union IF n = 0 THEN {} ELSE IF n = 1 THEN {a} ELSE {a, b}
<1>0. lo \in Nat /\ n \in 0..2 /\ \A u \in Threads : Depth(u) \in Nat
  BY Frames1 DEF Shift
<1>1. Frames = Others(t, lo) \union Gone(t, lo)
  <2>1. ASSUME NEW x \in Frames
        PROVE  x \in Others(t, lo) \union Gone(t, lo)
    <3>1. PICK u \in Threads : \E k \in 1..Depth(u) : Fr(u, k) = x
      BY FrameSet
    <3>2. PICK k \in 1..Depth(u) : Fr(u, k) = x
      BY <3>1
    <3>3. x \in Frame /\ (Kept(t, lo, u, k) \/ (u = t /\ k > lo))
      BY <1>0, <3>2, Frames1 DEF Kept
    <3> QED
      BY <3>2, <3>3 DEF Others, Gone
  <2>2. ASSUME NEW x \in Others(t, lo) \union Gone(t, lo)
        PROVE  x \in Frames
    BY FrameSet DEF Others, Gone
  <2> QED
    BY <2>1, <2>2
<1> DEFINE New == IF n = 0 THEN {} ELSE IF n = 1 THEN {a} ELSE {a, b}
<1>2. StackTypeOK'
  BY ShiftTypes
<1>3. ASSUME NEW x \in Frames'
      PROVE  x \in Others(t, lo) \union New
  <2>1. PICK u \in Threads : \E k \in 1..Depth(u)' : Fr(u, k)' = x
    BY <1>2, <1>3, NewFrameSet
  <2>2. PICK k \in 1..Depth(u)' : Fr(u, k)' = x
    BY <2>1
  <2>3. CASE k \in 1..Depth(u) /\ Kept(t, lo, u, k) /\ Fr(u, k)' = Fr(u, k)
    BY <2>2, <2>3, Frames1 DEF Others
  <2>4. CASE n >= 1 /\ Fr(u, k)' = a
    BY <1>0, <2>2, <2>4
  <2>5. CASE n = 2 /\ Fr(u, k)' = b
    BY <1>0, <2>2, <2>5
  <2> QED
    BY <2>3, <2>4, <2>5, NewPositions
<1>4. ASSUME NEW x \in Others(t, lo)
      PROVE  x \in Frames'
  <2>1. PICK u \in Threads : \E k \in 1..Depth(u) : Kept(t, lo, u, k) /\ x = Fr(u, k)
    BY <1>4 DEF Others
  <2>2. PICK k \in 1..Depth(u) : Kept(t, lo, u, k) /\ x = Fr(u, k)
    BY <2>1
  <2>3. k \in 1..Depth(u)' /\ Fr(u, k)' = Fr(u, k)
    BY <2>2, OldPositions
  <2> QED
    BY <1>2, <2>2, <2>3, NewFrameSet
<1>5. ASSUME NEW x \in New
      PROVE  x \in Frames'
  <2>1. (x = a /\ n >= 1) \/ (x = b /\ n = 2)
    BY <1>0, <1>5
  <2>2. /\ n >= 1 => lo + 1 \in 1..Depth(t)' /\ Fr(t, lo + 1)' = a
        /\ n = 2 => lo + 2 \in 1..Depth(t)' /\ Fr(t, lo + 2)' = b
    BY TopPositions
  <2> QED
    BY <1>2, <2>1, <2>2, NewFrameSet
<1> QED
  BY <1>1, <1>3, <1>4, <1>5

LEMMA ApartShift ==
  ASSUME StackTypeOK, NamesApart, OwnersApart, NEW t \in Threads, NEW lo, NEW n,
         NEW a \in Frame, NEW b \in Frame, Shift(t, lo, n, a, b),
         n >= 1 => \A g \in Others(t, lo) :
                     /\ g.arg = a.arg => g.arg = NoHandle
                     /\ g.pc \in SubmitPCs /\ a.pc \in SubmitPCs => g.job # a.job,
         n = 2 => b.arg = NoHandle /\ b.pc \notin SubmitPCs
  PROVE  NamesApart' /\ OwnersApart'
<1> DEFINE Old(u, k) == k \in 1..Depth(u) /\ Fr(u, k)' = Fr(u, k) /\ Fr(u, k) \in Others(t, lo)
           Mine(u, k) == u = t /\ k = lo + 1 /\ n >= 1 /\ Fr(u, k)' = a
           Called(u, k) == n = 2 /\ Fr(u, k)' = b
<1>1. ASSUME NEW u \in Threads, NEW k \in 1..Depth(u)'
      PROVE  Old(u, k) \/ Mine(u, k) \/ Called(u, k)
  BY NewPositions, Frames1 DEF Others
<1>2. ASSUME NEW u \in Threads, NEW v \in Threads, NEW k \in 1..Depth(u)', NEW l \in 1..Depth(v)',
             (Fr(u, k)').arg = (Fr(v, l)').arg, (Fr(u, k)').arg # NoHandle
      PROVE  u = v /\ k = l
  <2>1. CASE Old(u, k) /\ Old(v, l)
    BY <1>2, <2>1 DEF NamesApart
  <2> HIDE DEF Old
  <2>2. ASSUME Old(u, k), Mine(v, l)
        PROVE  FALSE
    BY <1>2, <2>2 DEF Old
  <2>3. ASSUME Mine(u, k), Old(v, l)
        PROVE  FALSE
    BY <1>2, <2>3 DEF Old
  <2>4. ~Called(u, k) /\ ~Called(v, l)
    BY <1>2
  <2>5. CASE Mine(u, k) /\ Mine(v, l)
    BY <2>5
  <2> QED
    BY <1>1, <2>1, <2>2, <2>3, <2>4, <2>5
<1>3. ASSUME NEW u \in Threads, NEW v \in Threads, NEW k \in 1..Depth(u)', NEW l \in 1..Depth(v)',
             (Fr(u, k)').pc \in SubmitPCs, (Fr(v, l)').pc \in SubmitPCs,
             (Fr(u, k)').job = (Fr(v, l)').job
      PROVE  u = v /\ k = l
  <2>1. CASE Old(u, k) /\ Old(v, l)
    BY <1>3, <2>1 DEF OwnersApart
  <2> HIDE DEF Old
  <2>2. ASSUME Old(u, k), Mine(v, l)
        PROVE  FALSE
    BY <1>3, <2>2 DEF Old
  <2>3. ASSUME Mine(u, k), Old(v, l)
        PROVE  FALSE
    BY <1>3, <2>3 DEF Old
  <2>4. ~Called(u, k) /\ ~Called(v, l)
    BY <1>3
  <2>5. CASE Mine(u, k) /\ Mine(v, l)
    BY <2>5
  <2> QED
    BY <1>1, <2>1, <2>2, <2>3, <2>4, <2>5
<1> QED
  BY <1>2, <1>3 DEF NamesApart, OwnersApart, SubmitPCs, FillPCs, ParkedPCs

(* The top frame, as a turn sees it.                                       *)
LEMMA TopTurn ==
  ASSUME JInv, OInv, NEW t \in Threads, stack[t] # <<>>, NEW lo, lo = Depth(t) - 1,
         NEW f, f = Top(t)
  PROVE  /\ Gone(t, lo) = {f} /\ f \in Frames /\ f \in Frame /\ FrOK(f) /\ OrderOK(f)
         /\ \A g \in Others(t, lo) :
              /\ g.arg = f.arg => g.arg = NoHandle
              /\ g.pc \in SubmitPCs /\ f.pc \in SubmitPCs => g.job # f.job
              /\ Holds(g) /\ Holds(f) => g.job # f.job
<1> PICK d : d = Depth(t)
  OBVIOUS
<1>1. /\ d \in Nat \ {0} /\ lo = d - 1 /\ f \in Frame /\ d \in 1..Depth(t) /\ Fr(t, d) = f
      /\ FrOK(f) /\ \A k \in 1..Depth(t) : k > lo => Fr(t, k) = f
  BY TopFrame
<1>2. f \in Frames
  BY <1>1, FrameSet DEF JInv
<1>3. Gone(t, lo) = {f}
  BY <1>1 DEF Gone
<1>4. OrderOK(f)
  BY <1>2 DEF OInv, FramesOrdered
<1>5. ASSUME NEW g \in Others(t, lo)
      PROVE  /\ g.arg = f.arg => g.arg = NoHandle
             /\ g.pc \in SubmitPCs /\ f.pc \in SubmitPCs => g.job # f.job
             /\ Holds(g) /\ Holds(f) => g.job # f.job
  <2>1. PICK u \in Threads : \E k \in 1..Depth(u) : Kept(t, lo, u, k) /\ g = Fr(u, k)
    BY DEF Others
  <2>2. PICK k \in 1..Depth(u) : Kept(t, lo, u, k) /\ g = Fr(u, k)
    BY <2>1
  <2>3. ~(u = t /\ k = d)
    BY <1>1, <2>2 DEF Kept
  <2>4. g.arg = f.arg => g.arg = NoHandle
    BY <1>1, <2>2, <2>3 DEF OInv, NamesApart
  <2>5. g.pc \in SubmitPCs /\ f.pc \in SubmitPCs => g.job # f.job
    BY <1>1, <2>2, <2>3 DEF OInv, OwnersApart
  <2>6. Holds(g) /\ Holds(f) => g.job # f.job
    BY <1>1, <2>2, <2>3 DEF JInv, HoldersOK
  <2> QED
    BY <2>4, <2>5, <2>6
<1> QED
  BY <1>1, <1>2, <1>3, <1>4, <1>5

LEMMA BecomeTurn ==
  ASSUME JInv, OInv, NEW t \in Threads, stack[t] # <<>>, NEW f, f = Top(t), NEW a \in Frame,
         Become(t, a)
  PROVE  \E K : Turn(K, {f}, f, {a}) /\ (Inherits(K, f, a) => NamesApart' /\ OwnersApart')
<1> PICK lo : lo = Depth(t) - 1
  OBVIOUS
<1> PICK K : K = Others(t, lo)
  OBVIOUS
<1>1. StackTypeOK /\ Shift(t, lo, 1, a, a)
  BY BecomeShift DEF JInv
<1>2. Frames = K \union Gone(t, lo) /\ Frames' = K \union {a}
  BY <1>1, ShiftFrames
<1>3. Turn(K, {f}, f, {a})
  BY <1>2, TopTurn DEF Turn
<1>4. ASSUME Inherits(K, f, a)
      PROVE  NamesApart' /\ OwnersApart'
  <2>1. \A g \in Others(t, lo) : /\ g.arg = a.arg => g.arg = NoHandle
                                 /\ g.pc \in SubmitPCs /\ a.pc \in SubmitPCs => g.job # a.job
    BY <1>3, <1>4 DEF Turn, Inherits
  <2>2. 1 = 2 => a.arg = NoHandle /\ a.pc \notin SubmitPCs
    OBVIOUS
  <2> QED
    BY <1>1, <2>1, <2>2, ApartShift DEF OInv
<1> QED
  BY <1>3, <1>4

LEMMA CallTurn ==
  ASSUME JInv, OInv, NEW t \in Threads, stack[t] # <<>>, NEW f, f = Top(t), NEW a \in Frame,
         NEW b \in Frame, Call(t, a, b), b.arg = NoHandle, b.pc \notin SubmitPCs
  PROVE  \E K : Turn(K, {f}, f, {a, b}) /\ (Inherits(K, f, a) => NamesApart' /\ OwnersApart')
<1> PICK lo : lo = Depth(t) - 1
  OBVIOUS
<1> PICK K : K = Others(t, lo)
  OBVIOUS
<1>1. StackTypeOK /\ Shift(t, lo, 2, a, b) /\ 2 # 0 /\ 2 # 1
  BY CallShift DEF JInv
<1>2. Frames = K \union Gone(t, lo) /\ Frames' = K \union {a, b}
  <2>1. /\ Frames = K \union Gone(t, lo)
        /\ Frames' = K \union IF 2 = 0 THEN {} ELSE IF 2 = 1 THEN {a} ELSE {a, b}
    BY <1>1, ShiftFrames
  <2> QED
    BY <2>1
<1>3. Turn(K, {f}, f, {a, b})
  BY <1>2, TopTurn DEF Turn
<1>4. ASSUME Inherits(K, f, a)
      PROVE  NamesApart' /\ OwnersApart'
  <2>1. \A g \in Others(t, lo) : /\ g.arg = a.arg => g.arg = NoHandle
                                 /\ g.pc \in SubmitPCs /\ a.pc \in SubmitPCs => g.job # a.job
    BY <1>3, <1>4 DEF Turn, Inherits
  <2> QED
    BY <1>1, <2>1, ApartShift DEF OInv
<1> QED
  BY <1>3, <1>4

LEMMA ReturnTurn ==
  ASSUME JInv, OInv, NEW t \in Threads, stack[t] # <<>>, NEW f, f = Top(t), Return(t)
  PROVE  (\E K : Turn(K, {f}, f, {})) /\ NamesApart' /\ OwnersApart'
<1> PICK lo : lo = Depth(t) - 1
  OBVIOUS
<1> PICK K : K = Others(t, lo)
  OBVIOUS
<1>1. StackTypeOK /\ Shift(t, lo, 0, Blank, Blank) /\ Blank \in Frame
  BY ReturnShift, BlankFrame DEF JInv
<1>2. Frames = K \union Gone(t, lo) /\ Frames' = K
  <2>1. /\ Frames = K \union Gone(t, lo)
        /\ Frames' = K \union IF 0 = 0 THEN {} ELSE IF 0 = 1 THEN {Blank} ELSE {Blank, Blank}
    BY <1>1, ShiftFrames
  <2> QED
    BY <2>1
<1>3. Turn(K, {f}, f, {})
  BY <1>2, TopTurn DEF Turn
<1>4. NamesApart' /\ OwnersApart'
  <2>1. /\ 0 >= 1 => \A g \in Others(t, lo) :
                       /\ g.arg = Blank.arg => g.arg = NoHandle
                       /\ g.pc \in SubmitPCs /\ Blank.pc \in SubmitPCs => g.job # Blank.job
        /\ 0 = 2 => Blank.arg = NoHandle /\ Blank.pc \notin SubmitPCs
    OBVIOUS
  <2> QED
    BY <1>1, <2>1, ApartShift DEF OInv
<1> QED
  BY <1>3, <1>4

LEMMA EnterTurn ==
  ASSUME JInv, OInv, NEW t \in Threads, NEW a \in Frame, Enter(t, a), a.pc \notin SubmitPCs,
         \A g \in Frames : g.arg = a.arg => g.arg = NoHandle
  PROVE  (\E K : Turn(K, {}, Blank, {a})) /\ NamesApart' /\ OwnersApart'
<1> PICK lo : lo = Depth(t)
  OBVIOUS
<1> PICK K : K = Others(t, lo)
  OBVIOUS
<1>1. StackTypeOK /\ Shift(t, lo, 1, a, a)
  BY EnterShift DEF JInv
<1>2. Frames = K /\ Frames' = K \union {a}
  <2>1. Gone(t, lo) = {}
    BY <1>1, Frames1 DEF Gone
  <2> QED
    BY <1>1, <2>1, ShiftFrames
<1>3. /\ FrOK(Blank) /\ OrderOK(Blank) /\ Blank.pc \notin SubmitPCs /\ ~Holds(Blank)
      /\ Blank.arg = NoHandle
  <2>1. 0 \in Levels
    BY ConstantsOK DEF Levels
  <2> QED
    BY <2>1, BlankFrame DEF FrOK, HolderOK, FrameOK, PollOK, OrderOK, NameOK, ReapOK, SetOK, SubmitOK,
       WalkOK, SubmitPCs, FillPCs, ParkedPCs, RunPCs, JobLess, Polling, SetPCs, Holds
<1>4. Turn(K, {}, Blank, {a})
  BY <1>2, <1>3, BlankFrame DEF Turn
<1>5. NamesApart' /\ OwnersApart'
  <2>1. 1 = 2 => a.arg = NoHandle /\ a.pc \notin SubmitPCs
    OBVIOUS
  <2> QED
    BY <1>1, <1>2, <2>1, ApartShift DEF OInv
<1> QED
  BY <1>4, <1>5

-----------------------------------------------------------------------------
(* What a step may change, by the program counter of the frame it takes.   *)

StatusMoves(f) ==
  /\ \A s \in Slots : status'[s] # status[s] =>
       \/ /\ s = f.job
          /\ \/ f.pc = "publish" /\ status'[s] = "not_started"
             \/ f.pc = "park" /\ status'[s] = "waiting"
             \/ f.pc = "selfpromote" /\ status[s] = "waiting" /\ status'[s] = "not_started"
             \/ f.pc \in {"inline", "claim"} /\ status[s] = "not_started" /\ status'[s] = "claimed"
             \/ f.pc = "body" /\ status[s] = "claimed" /\ status'[s] = "promoting"
             \/ f.pc = "walk" /\ status[s] = "promoting" /\ status'[s] = "completed"
             \/ f.pc = "recycle" /\ status[s] = "completed" /\ status'[s] = "free"
       \/ /\ s = f.cur /\ f.pc = "promote"
          /\ status[s] = "waiting" /\ status'[s] = "not_started"
  /\ f.pc = "publish" => status'[f.job] = "not_started"
  /\ f.pc = "park" => status'[f.job] = "waiting"
  /\ f.pc = "selfpromote" => status'[f.job] # "waiting"
  /\ f.pc = "promote" => status'[f.cur] # "waiting"
  /\ f.pc \in {"inline", "claim"} => status'[f.job] # "not_started"

SlotMoves(f, New) ==
  /\ total' >= total
  /\ \A s \in 1..total' : s \in 1..total \/ \E g \in New : Fills(g) /\ g.job = s
  /\ \A s \in Slots : generation'[s] # generation[s] =>
       /\ f.pc = "alloc" /\ generation'[s] = generation[s] + 1
       /\ s \in 1..total => status[s] = "free"
       /\ \A g \in Frames : Holds(g) => g.job # s
       /\ \E g \in New : Fills(g) /\ g.job = s
  /\ \A s \in Slots : first_dependent'[s] # first_dependent[s] =>
       \/ s = f.job /\ f.pc \in {"fill", "drain"} /\ first_dependent'[s] = Null
       \/ /\ s = f.cur /\ f.pc = "prepend" /\ first_dependent[s] = f.next
          /\ first_dependent'[s] = f.job /\ \A g \in New : g.pc \notin LinkPCs
  /\ \A s \in Slots : next_dependent'[s] # next_dependent[s] =>
       s = f.job /\ ((f.pc = "fill" /\ next_dependent'[s] = Null) \/ f.pc \in LinkPCs)
  /\ \A s \in Slots : priority'[s] # priority[s] =>
       s = f.job /\ f.pc \in {"fill", "setstore"} /\ priority'[s] = f.prio

GhostMoves(f) ==
  /\ \A h \in Handles : dep'[h] # dep[h] => f.pc = "fill" /\ h = f.own /\ dep'[h] = f.arg
  /\ \A h \in Handles : phase'[h] # phase[h] =>
       \/ f.pc = "fill" /\ h = f.own /\ phase'[h] = "pending"
       \/ f.pc = "begin" /\ h = Now(f.job) /\ phase[h] = "pending" /\ phase'[h] = "running"
       \/ f.pc = "body" /\ h = Now(f.job) /\ phase[h] = "running" /\ phase'[h] = "done"
  /\ f.pc = "fill" => phase'[f.own] = "pending"
  /\ issued \subseteq issued' /\ \A h \in issued' : h \in issued \/ (f.pc = "added" /\ h = f.own)

FillMoves(f, New) ==
  /\ \A g \in New : Fills(g) =>
       \/ f.pc = "alloc" /\ g.job \in Slots /\ generation'[g.job] # generation[g.job]
       \/ f.pc \in {"fill", "depstatus"} /\ g.job = f.job
  /\ f.pc \in {"fill", "depstatus"} => \E g \in New : Fills(g) /\ g.job = f.job

LinkMoves(f, New) ==
  /\ \A g \in New : g.pc \in LinkPCs => f.pc \in LinkPCs \union {"park"} /\ g.job = f.job
  /\ f.pc \in LinkPCs =>
       \/ \E g \in New : g.pc \in LinkPCs /\ g.job = f.job
       \/ /\ f.pc = "prepend" /\ f.next = first_dependent[f.cur]
          /\ first_dependent'[f.cur] = f.job /\ next_dependent' = next_dependent
          /\ \A g \in New : g.pc \notin LinkPCs

Acts(K, Old, f, New) ==
  /\ JInv /\ JInv' /\ OInv /\ Turn(K, Old, f, New)
  /\ StatusMoves(f) /\ SlotMoves(f, New) /\ GhostMoves(f) /\ FillMoves(f, New) /\ LinkMoves(f, New)

-----------------------------------------------------------------------------
(* Slots, handles and lists from one state to the next.                    *)

LEMMA FilledFrame ==
  ASSUME StackTypeOK
  PROVE  \A s : Filled(s) <=> \E g \in Frames : Fills(g) /\ g.job = s
BY FrameSet DEF Filled

LEMMA NewFilledFrame ==
  ASSUME StackTypeOK'
  PROVE  \A s : Filled(s)' <=> \E g \in Frames' : Fills(g) /\ g.job = s
<1> TAKE s
<1>1. Filled(s)' <=> \E t \in Threads : \E k \in 1..Depth(t)' : Fills(Fr(t, k)') /\ (Fr(t, k)').job = s
  BY DEF Filled, Fills
<1> QED
  BY <1>1, NewFrameSet

LEMMA FilledMoves ==
  ASSUME NEW K, NEW Old, NEW f, NEW New, Acts(K, Old, f, New), NEW s \in Slots
  PROVE  /\ Filled(s) /\ ~Filled(s)' => s = f.job /\ f.pc \in {"publish", "park"}
         /\ ~Filled(s) /\ Filled(s)' => f.pc = "alloc" /\ generation'[s] # generation[s]
         /\ generation'[s] # generation[s] => ~Filled(s) /\ Filled(s)'
         /\ s \in 1..total' => s \in 1..total \/ Filled(s)'
         /\ Filled(s) => s \in 1..total
         /\ Fills(f) /\ s = f.job => Filled(s)
         /\ s = f.job /\ f.pc \in {"publish", "park"} => ~Filled(s)'
<1> USE DEF Acts, Turn
<1>1. StackTypeOK /\ StackTypeOK'
  BY DEF JInv
<1>2. Filled(s) <=> \E g \in Frames : Fills(g) /\ g.job = s
  BY <1>1, FilledFrame
<1>3. Filled(s)' <=> \E g \in Frames' : Fills(g) /\ g.job = s
  BY <1>1, NewFilledFrame
<1>4. ASSUME Filled(s), ~Filled(s)'
      PROVE  s = f.job /\ f.pc \in {"publish", "park"}
  <2>1. Fills(f) /\ f.job = s
    BY <1>2, <1>3, <1>4
  <2> QED
    BY <1>3, <1>4, <2>1 DEF Fills, FillPCs, FillMoves
<1>5. ASSUME ~Filled(s), Filled(s)'
      PROVE  f.pc = "alloc" /\ generation'[s] # generation[s]
  <2>1. PICK g \in New : Fills(g) /\ g.job = s
    BY <1>2, <1>3, <1>5
  <2>2. f.pc \in {"fill", "depstatus"} => f \in Frames
    BY BlankFrame
  <2>3. f.pc \in {"fill", "depstatus"} => f.job # s
    BY <1>2, <1>5, <2>2 DEF Fills, FillPCs
  <2> QED
    BY <2>1, <2>3 DEF FillMoves
<1>6. ASSUME generation'[s] # generation[s]
      PROVE  ~Filled(s) /\ Filled(s)'
  BY <1>2, <1>3, <1>6 DEF SlotMoves, Holds, Fills
<1>7. s \in 1..total' => s \in 1..total \/ Filled(s)'
  BY <1>3 DEF SlotMoves
<1>8. Filled(s) => s \in 1..total
  <2> SUFFICES ASSUME Filled(s)
               PROVE  s \in 1..total
    OBVIOUS
  <2>1. PICK g \in Frames : Fills(g) /\ g.job = s
    BY <1>2
  <2>2. g \in Frame /\ FrOK(g)
    BY FramePosition
  <2> QED
    BY <2>1, <2>2 DEF FrOK, HolderOK, Fills
<1>9. Fills(f) /\ s = f.job => Filled(s)
  <2>1. Fills(f) => f \in Frames
    BY BlankFrame DEF Fills, FillPCs
  <2> QED
    BY <1>2, <2>1
<1>10. ASSUME s = f.job, f.pc \in {"publish", "park"}
       PROVE  ~Filled(s)'
  <2>1. Holds(f)
    BY <1>10 DEF Holds, FillPCs
  <2>2. \A g \in K : ~(Fills(g) /\ g.job = s)
    BY <1>10, <2>1 DEF Holds, Fills
  <2>3. \A g \in New : ~Fills(g)
    BY <1>10 DEF FillMoves
  <2> QED
    BY <1>3, <2>2, <2>3
<1> QED
  BY <1>4, <1>5, <1>6, <1>7, <1>8, <1>9, <1>10

LEMMA LinkingMoves ==
  ASSUME NEW K, NEW Old, NEW f, NEW New, Acts(K, Old, f, New), NEW s
  PROVE  /\ ~Linking(s) /\ Linking(s)' => s = f.job /\ f.pc = "park"
         /\ Linking(s) /\ ~Linking(s)' => /\ s = f.job /\ f.pc = "prepend"
                                          /\ f.next = first_dependent[f.cur]
                                          /\ first_dependent'[f.cur] = f.job
                                          /\ next_dependent' = next_dependent
         /\ s = f.job /\ f.pc \in LinkPCs => Linking(s)
         /\ s = f.job /\ f.pc \in LinkPCs /\ (\A g \in New : g.pc \notin LinkPCs) => ~Linking(s)'
<1> USE DEF Acts, Turn
<1>0. f.pc \in LinkPCs => f \in Frames
  BY BlankFrame DEF LinkPCs
<1>1. Linking(s)' <=> \E g \in K \union New : g.pc \in LinkPCs /\ g.job = s
  BY DEF Linking
<1>2. Linking(s) <=> \E g \in K \union Old : g.pc \in LinkPCs /\ g.job = s
  BY DEF Linking
<1>3. s = f.job /\ f.pc \in LinkPCs => Linking(s)
  BY <1>0, <1>2
<1>4. ASSUME ~Linking(s), Linking(s)'
      PROVE  s = f.job /\ f.pc = "park"
  BY <1>1, <1>2, <1>3, <1>4 DEF LinkMoves
<1>5. ASSUME Linking(s), ~Linking(s)'
      PROVE  /\ s = f.job /\ f.pc = "prepend" /\ f.next = first_dependent[f.cur]
             /\ first_dependent'[f.cur] = f.job /\ next_dependent' = next_dependent
  <2>1. f.pc \in LinkPCs /\ f.job = s
    BY <1>1, <1>2, <1>5
  <2> QED
    BY <1>1, <1>5, <2>1 DEF LinkMoves
<1>6. ASSUME s = f.job, f.pc \in LinkPCs, \A g \in New : g.pc \notin LinkPCs
      PROVE  ~Linking(s)'
  <2>1. LinkPCs \subseteq SubmitPCs
    BY DEF LinkPCs, SubmitPCs, ParkedPCs
  <2> QED
    BY <1>1, <1>6, <2>1
<1> QED
  BY <1>3, <1>4, <1>5, <1>6

(* A handle once known stays so, keeps its dependency, and comes to be     *)
(* settled only by the poll that names it.                                 *)
LEMMA HandleMoves ==
  ASSUME NEW K, NEW Old, NEW f, NEW New, Acts(K, Old, f, New), NEW h, Known(h)
  PROVE  /\ Known(h)' /\ h \in Handles /\ h[1] \in Slots /\ dep'[h] = dep[h]
         /\ phase[h] = "done" => phase'[h] = "done"
         /\ Live(h)' => Live(h)
         /\ Settled(h) => Settled(h)'
         /\ ~Settled(h) => /\ h = Now(h[1]) /\ ~Filled(h[1]) /\ h[1] \in 1..total
                           /\ Now(h[1])' = h /\ ~Filled(h[1])'
         /\ ~Settled(h) /\ Settled(h)' => f.pc = "recycle" /\ f.arg = h
<1> USE DEF Acts
<1>0. /\ h \in Handles /\ h[1] \in 1..total /\ h[1] \in Slots /\ h[2] \in Nat
      /\ h = <<h[1], h[2]>> /\ h[2] <= generation[h[1]]
      /\ Filled(h[1]) => h[2] < generation[h[1]]
  BY DEF Known, Handles
<1>1. /\ generation[h[1]] \in Nat /\ generation'[h[1]] \in Nat
      /\ total \in Nat /\ total' \in Nat /\ total <= total'
      /\ generation'[h[1]] = generation[h[1]] \/ generation'[h[1]] = generation[h[1]] + 1
  BY <1>0 DEF SlotMoves, JInv, DataOK
<1>2. Known(h)'
  <2>1. h[1] \in 1..total' /\ h[2] <= generation'[h[1]]
    BY <1>0, <1>1
  <2>2. ASSUME Filled(h[1])'
        PROVE  h[2] < generation'[h[1]]
    <3>1. CASE Filled(h[1])
      BY <1>0, <1>1, <3>1
    <3>2. CASE ~Filled(h[1])
      BY <1>0, <1>1, <2>2, <3>2, FilledMoves
    <3> QED
      BY <3>1, <3>2
  <2> QED
    BY <1>0, <2>1, <2>2 DEF Known
<1>3. ASSUME f.pc = "fill"
      PROVE  f.own # h
  <2>1. Fills(f) /\ FrOK(f) /\ f.own = Now(f.job) /\ f.job \in 1..total
    BY <1>3 DEF Fills, FillPCs, Turn, FrOK, HolderOK
  <2>2. f.own = h => f.job = h[1] /\ h[2] = generation[h[1]]
    BY <1>0, <2>1 DEF Now
  <2>3. f.job = h[1] => Filled(h[1])
    BY <1>0, <2>1, FilledMoves
  <2> QED
    BY <1>0, <1>1, <2>2, <2>3
<1>4. dep'[h] = dep[h] /\ (phase[h] = "done" => phase'[h] = "done")
  BY <1>0, <1>3 DEF GhostMoves
<1>5. Live(h)' => Live(h)
  BY <1>0, <1>1 DEF Live
<1>6. Live(h) => ~Filled(h[1]) /\ h = Now(h[1])
  BY <1>0, <1>1 DEF Live, Now
<1>7. ASSUME Live(h), status[h[1]] = "free"
      PROVE  status'[h[1]] = "free"
  <2>1. f.pc \in {"publish", "park"} => f.job # h[1]
    BY <1>0, <1>6, <1>7, FilledMoves DEF Fills, FillPCs
  <2> QED
    BY <1>0, <1>7, <2>1 DEF StatusMoves
<1>8. Settled(h) => Settled(h)'
  BY <1>5, <1>7 DEF Settled
<1>9. ASSUME ~Settled(h)
      PROVE  /\ h = Now(h[1]) /\ ~Filled(h[1]) /\ h[1] \in 1..total
             /\ Now(h[1])' = h /\ ~Filled(h[1])'
             /\ Settled(h)' => f.pc = "recycle" /\ f.arg = h
  <2>1. Live(h) /\ status[h[1]] # "free"
    BY <1>9 DEF Settled
  <2>2. generation'[h[1]] = generation[h[1]]
    BY <1>0, <2>1 DEF SlotMoves
  <2>3. Now(h[1])' = h /\ Live(h)'
    BY <1>6, <2>1, <2>2 DEF Now, Live
  <2>4. ASSUME Settled(h)'
        PROVE  f.pc = "recycle" /\ f.arg = h
    <3>1. status'[h[1]] = "free"
      BY <2>3, <2>4 DEF Settled
    <3>2. f.pc = "recycle" /\ f.job = h[1]
      BY <1>0, <2>1, <3>1 DEF StatusMoves
    <3>3. Live(f.arg) /\ f.arg # NoHandle /\ f.job = f.arg[1] /\ Known(f.arg)
      BY <3>2 DEF Turn, OrderOK, ReapOK, FrOK, PollOK, FrameOK, Polling
    <3>4. f.arg = Now(f.job)
      BY <3>3, KnownLive
    <3> QED
      BY <1>6, <2>1, <3>2, <3>4
  <2> QED
    BY <1>0, <1>6, <2>1, <2>2, <2>3, <2>4, FilledMoves
<1> QED
  BY <1>0, <1>2, <1>4, <1>5, <1>8, <1>9

(* The lists of a job that is not settled only grow.                       *)
LEMMA ListedMoves ==
  ASSUME NEW K, NEW Old, NEW f, NEW New, Acts(K, Old, f, New), NEW d, Known(d), d # NoHandle,
         ~Settled(d), NEW y, Listed(y, d)
  PROVE  Listed(y, d)' /\ y \in Slots /\ next_dependent'[y] = next_dependent[y]
<1> USE DEF Acts
<1>0. /\ y \in Slots /\ y \in 1..total /\ ~Filled(y) /\ ~Linking(y) /\ dep[Now(y)] = d
      /\ Now(y) \in Handles /\ Known(Now(y)) /\ generation[y] \in Nat
  <2>1. y \in 1..total /\ ~Filled(y) /\ ~Linking(y) /\ dep[Now(y)] = d
    BY DEF Listed
  <2>2. y \in Slots /\ generation[y] \in Nat /\ generation[y] >= 1 /\ Now(y) \in Handles
    BY <2>1, Bounds DEF JInv, SlotsOK, SlotOK
  <2> QED
    BY <2>1, <2>2 DEF Known, Now
<1>1. status[y] # "free"
  <2>1. JobOK(y)
    BY <1>0 DEF OInv, JobsOK
  <2> QED
    BY <1>0, <2>1 DEF JobOK
<1>2. generation'[y] = generation[y] /\ Now(y)' = Now(y)
  BY <1>0, <1>1 DEF SlotMoves, Now
<1>3. ~Filled(y)' /\ y \in 1..total'
  <2>1. ~Filled(y)'
    BY <1>0, <1>1, FilledMoves DEF SlotMoves
  <2>2. total \in Nat /\ total' \in Nat /\ total <= total'
    BY DEF SlotMoves, JInv, DataOK
  <2> QED
    BY <1>0, <2>1, <2>2
<1>4. f.pc \in {"fill", "park"} => f.job # y
  BY <1>0, FilledMoves DEF Fills, FillPCs
<1>5. ~Linking(y)'
  BY <1>0, <1>4, LinkingMoves
<1>6. dep'[Now(y)] = dep[Now(y)]
  BY <1>0, HandleMoves
<1>7. next_dependent'[y] = next_dependent[y]
  <2>1. f.pc \in LinkPCs => f.job # y
    BY <1>0, LinkingMoves
  <2> QED
    BY <1>0, <1>4, <2>1 DEF SlotMoves
<1> QED
  BY <1>0, <1>2, <1>3, <1>5, <1>6, <1>7 DEF Listed

-----------------------------------------------------------------------------
(* Chains.                                                                 *)

ChainIn(N, s) ==
  {x \in Slots : /\ s # Null
                 /\ \A S \in SUBSET Slots :
                      s \in S /\ (\A y \in S : N[y] \in S \union {Null}) => x \in S}

LEMMA ChainStates ==
  /\ \A s : Chain(s) = ChainIn(next_dependent, s)
  /\ \A s : Chain(s)' = ChainIn(next_dependent', s)
BY DEF Chain, ChainIn

Closed(N, S) == \A y \in S : N[y] \in S \union {Null}

LEMMA ChainBasics ==
  ASSUME NEW N \in [Slots -> Slots \union {Null}], NEW s \in Slots
  PROVE  /\ s \in ChainIn(N, s)
         /\ N[s] \in Slots => \A x \in ChainIn(N, N[s]) : x \in ChainIn(N, s)
         /\ \A x \in ChainIn(N, s) : x = s \/ (N[s] \in Slots /\ x \in ChainIn(N, N[s]))
<1>0. s # Null /\ N[s] \in Slots \union {Null} /\ Null \notin Slots
  BY DEF Slots, Null
<1>1. s \in ChainIn(N, s)
  BY <1>0 DEF ChainIn
<1>2. ASSUME N[s] \in Slots, NEW x \in ChainIn(N, N[s])
      PROVE  x \in ChainIn(N, s)
  <2>1. x \in Slots
    BY <1>2 DEF ChainIn
  <2>2. ASSUME NEW S \in SUBSET Slots, s \in S, Closed(N, S)
        PROVE  x \in S
    <3>1. N[s] \in S
      BY <1>0, <1>2, <2>2 DEF Closed
    <3> QED
      BY <1>2, <2>2, <3>1 DEF ChainIn, Closed
  <2> QED
    BY <1>0, <2>1, <2>2 DEF ChainIn, Closed
<1>3. ASSUME NEW x \in ChainIn(N, s), x # s
      PROVE  N[s] \in Slots /\ x \in ChainIn(N, N[s])
  <2>0. x \in Slots
    BY DEF ChainIn
  <2>1. ASSUME NEW S \in SUBSET Slots, S \union {s} \in SUBSET Slots, Closed(N, S \union {s})
        PROVE  x \in S
    <3>1. x \in S \union {s}
      BY <1>0, <1>3, <2>1 DEF ChainIn, Closed
    <3> QED
      BY <1>3, <3>1
  <2>2. N[s] \in Slots
    <3>1. ASSUME N[s] = Null
          PROVE  FALSE
      <4>1. PICK S \in SUBSET Slots : S = {}
        OBVIOUS
      <4>2. S \union {s} \in SUBSET Slots /\ Closed(N, S \union {s})
        BY <3>1, <4>1 DEF Closed
      <4> QED
        BY <2>1, <4>1, <4>2
    <3> QED
      BY <1>0, <3>1
  <2>3. ASSUME NEW S \in SUBSET Slots, N[s] \in S, Closed(N, S)
        PROVE  x \in S
    <3>1. Closed(N, S \union {s})
      BY <2>3 DEF Closed
    <3> QED
      BY <2>1, <2>3, <3>1
  <2>4. N[s] # Null
    BY <1>0, <2>2
  <2> QED
    BY <2>0, <2>2, <2>3, <2>4 DEF ChainIn, Closed
<1> QED
  BY <1>1, <1>2, <1>3

(* A chain of jobs that wait for d is not cut.                             *)
LEMMA ChainMoves ==
  ASSUME NEW K, NEW Old, NEW f, NEW New, Acts(K, Old, f, New), NEW d, Known(d), d # NoHandle,
         ~Settled(d), NEW c, Listed(c, d), NEW x \in Chain(c)
  PROVE  x \in ChainIn(next_dependent', c)
<1> USE DEF Acts
<1>1. x \in Slots /\ c # Null /\ x \in ChainIn(next_dependent, c)
  BY ChainStates DEF ChainIn
<1>2. ASSUME NEW S \in SUBSET Slots, c \in S, \A y \in S : next_dependent'[y] \in S \union {Null}
      PROVE  x \in S
  <2> DEFINE T == {y \in S : Listed(y, d)}
  <2>1. ASSUME NEW y \in T
        PROVE  next_dependent[y] \in T \union {Null}
    <3>1. y \in S /\ Listed(y, d)
      OBVIOUS
    <3>2. next_dependent[y] \in S \union {Null}
      BY <1>2, <3>1, ListedMoves
    <3>3. JobOK(y) /\ dep[Now(y)] = d /\ ~Linking(y)
      BY <3>1 DEF OInv, JobsOK, Listed
    <3>4. next_dependent[y] # Null => Listed(next_dependent[y], d)
      BY <3>3 DEF JobOK
    <3> QED
      BY <3>2, <3>4
  <2>2. T \in SUBSET Slots /\ c \in T
    BY <1>2
  <2> HIDE DEF T
  <2>3. x \in T
    BY <1>1, <2>1, <2>2 DEF ChainIn
  <2> QED
    BY <2>3 DEF T
<1> QED
  BY <1>1, <1>2 DEF ChainIn

(* Nor are the dependents of a job that is not drained.                    *)
LEMMA DependentsMove ==
  ASSUME NEW K, NEW Old, NEW f, NEW New, Acts(K, Old, f, New), NEW x \in 1..total,
         Known(Now(x)), ~Settled(Now(x)), NEW s \in Chain(first_dependent[x])
  PROVE  /\ first_dependent[x] \in Slots /\ Listed(first_dependent[x], Now(x))
         /\ s \in ChainIn(next_dependent', first_dependent[x])
         /\ ~(f.pc = "drain" /\ f.job = x) => s \in ChainIn(next_dependent', first_dependent'[x])
<1> USE DEF Acts
<1>1. /\ x \in Slots /\ first_dependent[x] \in Slots /\ first_dependent[x] # Null
      /\ Now(x) # NoHandle /\ ~Filled(x) /\ status[x] # "free"
  <2>1. x \in Slots /\ Now(x) # NoHandle
    BY Bounds DEF JInv, Now, NoHandle
  <2>2. first_dependent[x] # Null
    BY DEF Chain
  <2>3. status[x] # "free"
    BY DEF Settled, Live, Now
  <2>4. ~Filled(Now(x)[1])
    BY HandleMoves
  <2> QED
    BY <2>1, <2>2, <2>3, <2>4 DEF JInv, DataOK, Now
<1>2. Listed(first_dependent[x], Now(x))
  BY <1>1 DEF OInv, JobsOK, JobOK
<1>3. s \in ChainIn(next_dependent', first_dependent[x])
  BY <1>1, <1>2, ChainMoves
<1>4. ASSUME ~(f.pc = "drain" /\ f.job = x), first_dependent'[x] # first_dependent[x]
      PROVE  s \in ChainIn(next_dependent', first_dependent'[x])
  <2>1. f.pc = "fill" => f.job # x
    BY <1>1, FilledMoves DEF Fills, FillPCs
  <2>2. /\ x = f.cur /\ f.pc = "prepend" /\ first_dependent[x] = f.next
        /\ first_dependent'[x] = f.job /\ \A g \in New : g.pc \notin LinkPCs
    BY <1>1, <1>4, <2>1 DEF SlotMoves
  <2>3. next_dependent' = next_dependent /\ next_dependent[f.job] = f.next
    <3>1. next_dependent' = next_dependent
      BY <2>2 DEF LinkMoves, LinkPCs
    <3>2. next_dependent[f.job] = f.next
      BY <2>2 DEF Turn, OrderOK, SubmitOK
    <3> QED
      BY <3>1, <3>2
  <2>4. f.job \in Slots /\ next_dependent' \in [Slots -> Slots \union {Null}]
    BY <2>2, WorksOn DEF Turn, FillPCs, JobLess, JInv, DataOK
  <2> QED
    BY <1>1, <1>3, <2>2, <2>3, <2>4, ChainBasics
<1> QED
  BY <1>1, <1>2, <1>3, <1>4

-----------------------------------------------------------------------------
(* Frames that stay.                                                       *)

LEMMA KeptFacts ==
  ASSUME NEW K, NEW Old, NEW f, NEW New, Acts(K, Old, f, New), NEW g \in K
  PROVE  /\ g \in Frame /\ g \in Frames /\ FrOK(g) /\ OrderOK(g)
         /\ g.arg # NoHandle => Known(g.arg) /\ g.arg # f.arg
         /\ g.pc \in SubmitPCs /\ f.pc \in SubmitPCs => g.job # f.job
         /\ Holds(g) /\ Holds(f) => g.job # f.job
BY FramePosition DEF Acts, Turn, OInv, FramesOrdered, FrOK, FrameOK

LEMMA NameKept ==
  ASSUME NEW K, NEW Old, NEW f, NEW New, Acts(K, Old, f, New), NEW g,
         OrderOK(g), g.arg # NoHandle, Known(g.arg), f.pc = "recycle" /\ g.arg = f.arg => g.pc \in Polling
  PROVE  NameOK(g)'
<1>1. /\ g.arg \in issued
      /\ g.pc \notin Polling => ~Settled(g.arg)
      /\ g.pc \in Polling /\ dep[g.arg] # NoHandle => Settled(dep[g.arg])
  BY DEF OrderOK, NameOK
<1>2. g.arg \in issued'
  BY <1>1 DEF Acts, GhostMoves
<1>3. g.pc \notin Polling => ~Settled(g.arg)'
  BY <1>1, HandleMoves
<1>4. ASSUME dep[g.arg] # NoHandle, Settled(dep[g.arg])
      PROVE  Settled(dep[g.arg])'
  <2>1. dep'[g.arg] = dep[g.arg] /\ Known(dep[g.arg])
    BY <1>4, HandleMoves DEF Acts, OInv, DepsKnown
  <2>2. PICK d : d = dep[g.arg]
    OBVIOUS
  <2>3. Settled(d)'
    BY <1>4, <2>1, <2>2, HandleMoves
  <2> QED
    BY <2>1, <2>2, <2>3 DEF Settled, Live
<1>5. dep'[g.arg] = dep[g.arg]
  BY HandleMoves
<1> QED
  BY <1>1, <1>2, <1>3, <1>4, <1>5 DEF NameOK

LEMMA ReapKept ==
  ASSUME NEW K, NEW Old, NEW f, NEW New, Acts(K, Old, f, New), NEW g \in K
  PROVE  ReapOK(g)'
<1>1. /\ g \in Frame /\ FrOK(g) /\ ReapOK(g)
      /\ g.arg # NoHandle => Known(g.arg) /\ g.arg # f.arg
  BY KeptFacts DEF OrderOK
<1>2. ASSUME g.pc \in {"pollagain", "recycle"}, status[g.job] = "completed", Live(g.arg)
      PROVE  status'[g.job] = "completed" /\ Live(g.arg)'
  <2>1. g.arg # NoHandle /\ g.job = g.arg[1] /\ Known(g.arg)
    BY <1>1, <1>2 DEF FrOK, PollOK, Polling
  <2>2. g.arg = Now(g.job) /\ g.job \in Slots /\ ~Filled(g.job) /\ g.job \in 1..total
    BY <1>2, <2>1, KnownLive DEF Acts, Born
  <2>3. ASSUME f.pc = "recycle"
        PROVE  f.job # g.job
    <3>1. Live(f.arg) /\ f.arg # NoHandle /\ f.job = f.arg[1] /\ Known(f.arg)
      BY <2>3 DEF Acts, Turn, OrderOK, ReapOK, FrOK, PollOK, FrameOK, Polling
    <3>2. f.arg = Now(f.job)
      BY <3>1, KnownLive DEF Acts
    <3> QED
      BY <1>1, <2>1, <2>2, <3>2
  <2>4. f.pc \in {"publish", "park"} => f.job # g.job
    BY <2>2, FilledMoves DEF Fills, FillPCs
  <2>5. status'[g.job] = "completed"
    BY <1>2, <2>2, <2>3, <2>4 DEF Acts, StatusMoves
  <2>6. generation'[g.job] = generation[g.job]
    BY <1>2, <2>2 DEF Acts, SlotMoves
  <2> QED
    BY <1>2, <2>1, <2>5, <2>6 DEF Live
<1>3. g.pc = "pollagain" /\ Live(g.arg)' => Live(g.arg)
  BY <1>1, HandleMoves DEF FrOK, PollOK, Polling
<1> QED
  BY <1>1, <1>2, <1>3 DEF ReapOK

LEMMA WalkKept ==
  ASSUME NEW K, NEW Old, NEW f, NEW New, Acts(K, Old, f, New), NEW g \in K
  PROVE  WalkOK(g)'
<1>1. g \in Frame /\ FrOK(g) /\ WalkOK(g)
  BY KeptFacts DEF OrderOK
<1>2. ASSUME g.pc \in {"walk", "promote"}
      PROVE  /\ Known(Now(g.job)) /\ Now(g.job) # NoHandle /\ ~Settled(Now(g.job))
             /\ Now(g.job)' = Now(g.job)
  <2>1. status[g.job] = "promoting" /\ Holds(g) /\ ~Fills(g)
    BY <1>1, <1>2 DEF FrOK, HolderOK, Holds, Fills, RunPCs, FillPCs
  <2>2. g.job \in 1..total /\ g.job \in Slots /\ Now(g.job) \in Handles /\ Now(g.job)[1] = g.job
    BY <1>1, <2>1, HolderSlot DEF Acts, JInv
  <2>3. ~Filled(g.job)
    <3>1. ASSUME Filled(g.job)
          PROVE  FALSE
      <4>1. PICK x \in Frames : Fills(x) /\ x.job = g.job
        BY <3>1, FilledFrame DEF Acts, JInv
      <4>2. FrOK(x)
        BY FramePosition DEF Acts
      <4> QED
        BY <2>1, <4>1, <4>2 DEF FrOK, HolderOK, Fills
    <3> QED
      BY <3>1
  <2>4. Known(Now(g.job)) /\ Now(g.job) # NoHandle /\ ~Settled(Now(g.job))
    BY <2>1, <2>2, <2>3, Bounds DEF Known, Now, Settled, Live, NoHandle, Slots, Acts, JInv
  <2> QED
    BY <2>2, <2>4, HandleMoves
<1>3. ASSUME g.pc \in {"walk", "promote"}, NEW y, Listed(y, Now(g.job))
      PROVE  Listed(y, Now(g.job))'
  <2>1. PICK d : d = Now(g.job)
    OBVIOUS
  <2>2. Listed(y, d)' /\ d = Now(g.job)'
    BY <1>2, <1>3, <2>1, ListedMoves
  <2> QED
    BY <2>2 DEF Listed
<1> QED
  BY <1>1, <1>3 DEF WalkOK

(* A submitter's slot and handle are his until the handle is returned.     *)
LEMMA SubmitMoves ==
  ASSUME NEW K, NEW Old, NEW f, NEW New, Acts(K, Old, f, New), NEW g \in Frames, OrderOK(g),
         g.pc \in SubmitPCs,
         f.pc \in SubmitPCs => f.job # g.job \/ (f = g /\ f.pc \notin {"fill", "added"})
  PROVE  /\ g.job \in 1..total /\ g.job \in Slots /\ g.own = Now(g.job) /\ g.own = Now(g.job)'
         /\ g.own \in Handles /\ g.own \notin issued'
         /\ g.pc # "fill" => dep'[g.own] = g.arg /\ priority'[g.job] = g.prio
         /\ g.pc \in ParkedPCs => status'[g.job] # "free"
<1> USE DEF Acts
<1>1. SubmitOK(g) /\ g \in Frame /\ FrOK(g)
  BY FramePosition DEF OrderOK
<1>2. /\ g.job \in 1..total /\ g.job \in Slots /\ g.own = Now(g.job) /\ g.own \notin issued
      /\ g.own \in Handles
  <2>1. g.job \in 1..total
    <3>1. CASE g.pc \in FillPCs
      BY <1>1, <3>1 DEF FrOK, HolderOK
    <3>2. CASE g.pc \in ParkedPCs
      <4>1. g.pc \notin FillPCs /\ g.pc \notin JobLess
        BY <3>2 DEF ParkedPCs, FillPCs, JobLess
      <4> QED
        BY <1>1, <4>1, WorksOn DEF Born
    <3> QED
      BY <3>1, <3>2 DEF SubmitPCs
  <2>2. g.job \in Slots /\ generation[g.job] >= 1
    BY <2>1, Bounds DEF JInv, SlotsOK, SlotOK
  <2>3. Now(g.job) \in Handles
    BY <2>2, Bounds DEF JInv
  <2> QED
    BY <1>1, <2>1, <2>2, <2>3 DEF SubmitOK
<1>3. Holds(g) \/ (g.pc \in ParkedPCs /\ status[g.job] # "free")
  BY <1>1 DEF SubmitOK, SubmitPCs, Holds
<1>4. generation'[g.job] = generation[g.job]
  BY <1>2, <1>3 DEF SlotMoves
<1>5. g.own = Now(g.job)'
  BY <1>2, <1>4 DEF Now
<1>6. f.pc \in {"fill", "added"} => f.job # g.job /\ f.own = Now(f.job)
  BY DEF SubmitPCs, FillPCs, ParkedPCs, Turn, OrderOK, SubmitOK
<1>7. g.own \notin issued'
  BY <1>2, <1>6 DEF GhostMoves, Now
<1>8. g.pc # "fill" => dep'[g.own] = g.arg
  <2>1. g.pc # "fill" => dep[g.own] = g.arg
    BY <1>1 DEF SubmitOK
  <2> QED
    BY <1>2, <1>6, <2>1 DEF GhostMoves, Now
<1>9. ASSUME f.pc \in SetPCs \ {"setgen"} \/ f.pc = "recycle"
      PROVE  f.job # g.job
  <2>1. f.arg # NoHandle /\ f.job = f.arg[1] /\ f.arg \in issued /\ Known(f.arg) /\ Live(f.arg)
    BY <1>9 DEF Turn, OrderOK, SetOK, NameOK, ReapOK, FrOK, PollOK, FrameOK, Settled, SetPCs, Polling
  <2> QED
    BY <1>2, <2>1, KnownLive
<1>10. g.pc # "fill" => priority'[g.job] = g.prio
  <2>1. g.pc # "fill" => priority[g.job] = g.prio
    BY <1>1 DEF SubmitOK
  <2> QED
    BY <1>2, <1>6, <1>9, <2>1 DEF SlotMoves, SetPCs
<1>11. g.pc \in ParkedPCs => status'[g.job] # "free"
  <2>1. g.pc \in ParkedPCs => status[g.job] # "free"
    BY <1>1 DEF SubmitOK
  <2> QED
    BY <1>2, <1>9, <2>1 DEF StatusMoves
<1> QED
  BY <1>2, <1>5, <1>7, <1>8, <1>10, <1>11

(* The name of a call that adds, sets or waits for a job.                  *)
LEMMA NamedSlot ==
  ASSUME JInv, NEW g, OrderOK(g), FrOK(g), g.arg # NoHandle, g.pc \notin Polling
  PROVE  /\ Known(g.arg) /\ ~Settled(g.arg) /\ g.arg = Now(g.arg[1]) /\ ~Filled(g.arg[1])
         /\ g.arg[1] \in 1..total /\ g.arg[1] \in Slots /\ status[g.arg[1]] # "free"
<1>1. Known(g.arg) /\ ~Settled(g.arg)
  BY DEF OrderOK, NameOK, FrOK, FrameOK
<1>2. Live(g.arg) /\ status[g.arg[1]] # "free"
  BY <1>1 DEF Settled
<1> QED
  BY <1>1, <1>2, KnownLive DEF Known

LEMMA SubmitKept ==
  ASSUME NEW K, NEW Old, NEW f, NEW New, Acts(K, Old, f, New), NEW g \in K
  PROVE  SubmitOK(g)'
<1> USE DEF Acts
<1>1. /\ g \in Frame /\ g \in Frames /\ FrOK(g) /\ OrderOK(g) /\ SubmitOK(g)
      /\ g.pc \in SubmitPCs /\ f.pc \in SubmitPCs => g.job # f.job
  BY KeptFacts DEF OrderOK
<1>2. ASSUME g.pc \in SubmitPCs
      PROVE  /\ g.job \in 1..total /\ g.job \in Slots /\ g.own = Now(g.job) /\ g.own = Now(g.job)'
             /\ g.own \in Handles /\ g.own \notin issued'
             /\ g.pc # "fill" => dep'[g.own] = g.arg /\ priority'[g.job] = g.prio
             /\ g.pc \in ParkedPCs => status'[g.job] # "free"
  BY <1>1, <1>2, SubmitMoves
<1>3. ASSUME g.pc \in SubmitPCs, g.arg # NoHandle
      PROVE  /\ Known(g.arg) /\ ~Settled(g.arg) /\ g.arg = Now(g.arg[1]) /\ ~Filled(g.arg[1])
             /\ g.arg[1] \in 1..total /\ g.arg[1] \in Slots /\ status[g.arg[1]] # "free"
             /\ g.cur = g.arg[1]
  <2>1. g.pc \notin Polling
    BY <1>3 DEF SubmitPCs, FillPCs, ParkedPCs, Polling
  <2>2. g.cur = g.arg[1]
    BY <1>1, <1>3 DEF SubmitOK
  <2> QED
    BY <1>1, <1>3, <2>1, <2>2, NamedSlot
<1>4. ASSUME g.pc \in {"depstatus", "publish", "park"}
      PROVE  first_dependent'[g.job] = Null /\ next_dependent'[g.job] = Null
  <2>1. /\ Fills(g) /\ Filled(g.job) /\ g.pc \in SubmitPCs
        /\ first_dependent[g.job] = Null /\ next_dependent[g.job] = Null
    BY <1>1, <1>4, FilledFrame DEF Fills, FillPCs, SubmitPCs, SubmitOK, JInv
  <2>2. f.pc = "prepend" => f.cur # g.job
    <3>1. f.pc = "prepend" => f.pc \notin Polling /\ f.arg # NoHandle /\ f.cur = f.arg[1]
      BY DEF Polling, Turn, OrderOK, SubmitOK, SubmitPCs, ParkedPCs
    <3> QED
      BY <2>1, <3>1, NamedSlot DEF Turn
  <2>3. f.pc \in LinkPCs \union {"fill"} => f.job # g.job
    BY <1>1, <2>1 DEF LinkPCs, SubmitPCs, ParkedPCs, FillPCs
  <2> QED
    BY <1>2, <2>1, <2>2, <2>3 DEF SlotMoves
<1>5. ASSUME g.pc \in {"publish", "selfpromote"}, g.arg # NoHandle
      PROVE  phase'[g.arg] = "done"
  BY <1>1, <1>3, <1>5, HandleMoves DEF SubmitOK, SubmitPCs, FillPCs, ParkedPCs
<1>6. ASSUME g.pc = "prepend"
      PROVE  /\ next_dependent'[g.job] = g.next
             /\ g.next # Null => Listed(g.next, g.arg)'
  <2>1. /\ g.pc \in SubmitPCs /\ g.arg # NoHandle /\ next_dependent[g.job] = g.next
        /\ g.next # Null => Listed(g.next, g.arg)
    BY <1>1, <1>6 DEF SubmitOK, SubmitPCs, ParkedPCs
  <2>2. f.pc \in LinkPCs \union {"fill"} => f.job # g.job
    BY <1>1, <2>1 DEF LinkPCs, SubmitPCs, ParkedPCs, FillPCs
  <2> QED
    BY <1>2, <1>3, <2>1, <2>2, ListedMoves DEF SlotMoves
<1>7. ASSUME g.pc = "recheck"
      PROVE  \/ status'[g.cur] \in Done
             \/ g.job \in ChainIn(next_dependent', first_dependent'[g.cur])
  <2>1. /\ g.pc \in SubmitPCs /\ g.arg # NoHandle
        /\ status[g.cur] \in Done \/ g.job \in Chain(first_dependent[g.cur])
    BY <1>1, <1>7 DEF SubmitOK, SubmitPCs, ParkedPCs
  <2>2. CASE status[g.cur] \in Done
    <3>1. f.pc \in {"publish", "park"} => f.job # g.cur
      BY <1>3, <2>1, FilledMoves DEF Fills, FillPCs
    <3> QED
      BY <1>3, <2>1, <2>2, <3>1 DEF StatusMoves, Done, Finished
  <2>3. CASE g.job \in Chain(first_dependent[g.cur]) /\ status[g.cur] \notin Done
    <3>1. f.pc = "drain" => f.job # g.cur
      BY <2>3 DEF Turn, FrOK, HolderOK, Done
    <3> QED
      BY <1>3, <2>1, <2>3, <3>1, DependentsMove
  <2> QED
    BY <2>1, <2>2, <2>3
<1>f. ASSUME g.pc = "fill"
      PROVE  phase'[g.own] = "none"
  <2>1. g.pc \in SubmitPCs /\ Holds(g) /\ phase[g.own] = "none"
    BY <1>1, <1>f DEF SubmitPCs, FillPCs, Holds, SubmitOK
  <2>2. f.pc \in {"fill", "begin", "body"} => Holds(f) /\ g.job # f.job
    BY <1>1, <2>1 DEF SubmitPCs, FillPCs, RunPCs, Holds, Turn
  <2>3. f.pc = "fill" => f.own = Now(f.job)
    BY DEF Turn, FrOK, HolderOK, FillPCs
  <2> QED
    BY <1>2, <2>1, <2>2, <2>3 DEF GhostMoves, Now
<1>8. /\ g.pc \in SubmitPCs \union {"alloc"} => g.cur = IF g.arg = NoHandle THEN Null ELSE g.arg[1]
      /\ g.pc \in {"depstatus", "park", "link", "prepend", "recheck", "selfpromote"} => g.arg # NoHandle
  BY <1>1 DEF SubmitOK
<1>9. ASSUME g.pc = "recheck"
      PROVE  status'[g.cur] \in Done \/ (g.job \in Chain(first_dependent[g.cur]))'
  BY <1>7, <1>9, ChainStates DEF Chain, ChainIn
<1>10. ParkedPCs \subseteq SubmitPCs
  BY DEF SubmitPCs
<1> HIDE DEF Acts
<1> QED
  BY <1>2, <1>4, <1>5, <1>6, <1>f, <1>8, <1>9, <1>10 DEF SubmitOK

LEMMA KeptOrdered ==
  ASSUME NEW K, NEW Old, NEW f, NEW New, Acts(K, Old, f, New), NEW g \in K
  PROVE  OrderOK(g)'
<1>1. OrderOK(g) /\ (g.arg # NoHandle => Known(g.arg) /\ g.arg # f.arg)
  BY KeptFacts
<1>2. NameOK(g)'
  <2>1. CASE g.arg # NoHandle
    BY <1>1, <2>1, NameKept
  <2> QED
    BY <2>1 DEF NameOK
<1> QED
  BY <1>1, <1>2, ReapKept, SubmitKept, WalkKept DEF OrderOK, SetOK

-----------------------------------------------------------------------------
(* Jobs.                                                                   *)

LEMMA DepsMove ==
  ASSUME NEW K, NEW Old, NEW f, NEW New, Acts(K, Old, f, New)
  PROVE  DepsKnown' /\ OldDone' /\ LevelsOK' /\ DependencyOrder'
<1> USE DEF Acts
<1>0. f \in Frame /\ FrOK(f) /\ OrderOK(f)
  BY DEF Turn
<1>1. DepsKnown'
  <2> SUFFICES ASSUME NEW h \in Handles, dep'[h] # NoHandle
               PROVE  Known(dep[h])'
    BY DEF DepsKnown
  <2>1. Known(dep'[h])
    <3>1. dep'[h] = dep[h] \/ dep'[h] = f.arg
      BY DEF GhostMoves
    <3> QED
      BY <1>0, <3>1 DEF OInv, DepsKnown, FrOK, FrameOK
  <2>2. PICK d : d = dep'[h]
    OBVIOUS
  <2>3. Known(d)'
    BY <2>1, <2>2, HandleMoves
  <2> QED
    BY <2>2, <2>3 DEF Known
<1>2. OldDone'
  <2> SUFFICES ASSUME NEW h \in Handles, h[2] < generation'[h[1]]
               PROVE  phase'[h] = "done"
    BY DEF OldDone
  <2>1. /\ h[1] \in Slots /\ h[2] \in 1..MaxJobs /\ h = <<h[1], h[2]>> /\ MaxJobs \in Nat
        /\ generation[h[1]] \in Nat /\ total \in Nat
        /\ generation'[h[1]] = generation[h[1]] \/ generation'[h[1]] = generation[h[1]] + 1
    BY ConstantsOK DEF Handles, JInv, DataOK, SlotMoves
  <2>2. phase[h] = "done"
    <3>1. CASE h[2] < generation[h[1]]
      BY <3>1 DEF OInv, OldDone
    <3>2. CASE ~(h[2] < generation[h[1]])
      <4>1. h = Now(h[1]) /\ generation'[h[1]] # generation[h[1]] /\ generation[h[1]] # 0
        BY <2>1, <3>2 DEF Now
      <4>2. h[1] \in 1..total
        BY <2>1, <4>1 DEF JInv, SlotsOK, Slots
      <4>3. status[h[1]] = "free" /\ ~Filled(h[1])
        BY <2>1, <4>1, <4>2, FilledMoves DEF SlotMoves
      <4> QED
        BY <4>1, <4>2, <4>3 DEF JInv, SlotsOK, SlotOK
    <3> QED
      BY <3>1, <3>2
  <2>3. f.pc = "fill" => h # f.own
    <3>1. f.pc = "fill" => f.own = Now(f.job) /\ f.job \in Slots /\ generation'[f.job] = generation[f.job]
      BY <1>0, Bounds DEF FrOK, HolderOK, FillPCs, JInv, SlotMoves
    <3>2. h = Now(f.job) => h[1] = f.job /\ h[2] = generation[f.job]
      BY DEF Now
    <3> QED
      BY <2>1, <3>1, <3>2
  <2> QED
    BY <2>2, <2>3 DEF GhostMoves
<1>3. LevelsOK'
  BY <1>0 DEF OInv, LevelsOK, SlotMoves, OrderOK
<1>4. DependencyOrder'
  <2> SUFFICES ASSUME NEW h \in Handles, phase'[h] \notin {"none", "pending"}, dep'[h] # NoHandle
               PROVE  phase'[dep'[h]] = "done"
    BY DEF DependencyOrder
  <2>1. dep'[h] = dep[h]
    BY DEF GhostMoves
  <2>2. phase[h] \in {"none", "pending"} => phase[dep[h]] = "done"
    <3> SUFFICES ASSUME phase[h] \in {"none", "pending"}
                 PROVE  phase[dep[h]] = "done"
      OBVIOUS
    <3>1. f.pc = "begin" /\ h = Now(f.job)
      BY DEF GhostMoves
    <3>2. Holds(f) /\ ~Fills(f) /\ status[f.job] = "claimed" /\ f.job \in 1..total
      BY <1>0, <3>1, HolderSlot DEF Holds, Fills, FillPCs, RunPCs, FrOK, HolderOK, JInv
    <3>3. ~Filled(f.job)
      <4>1. ASSUME NEW x \in Frames, Fills(x), x.job = f.job
            PROVE  FALSE
        BY <3>2, <4>1, FramePosition DEF FrOK, HolderOK, Fills
      <4> QED
        BY <4>1, FilledFrame DEF JInv
    <3>4. JobOK(f.job)
      BY <3>2, <3>3 DEF OInv, JobsOK
    <3> QED
      BY <2>1, <3>1, <3>2, <3>4 DEF JobOK
  <2>3. phase[dep[h]] = "done"
    BY <2>1, <2>2 DEF OInv, DependencyOrder
  <2>4. Known(dep[h])
    BY <2>1 DEF OInv, DepsKnown
  <2> QED
    BY <2>1, <2>3, <2>4, HandleMoves
<1> QED
  BY <1>1, <1>2, <1>3, <1>4

(* Who holds a job that runs does not fill its slot.                       *)
LEMMA RunUnfilled ==
  ASSUME JInv, NEW s, NEW g \in Frame, FrOK(g), g.job = s, g.pc \in RunPCs
  PROVE  ~Filled(s) /\ s \in 1..total /\ s \in Slots /\ Now(s) \in Handles /\ Known(Now(s))
<1>1. Holds(g) /\ s \in 1..total /\ s \in Slots /\ Now(s) \in Handles /\ generation[s] \in Nat
  BY HolderSlot, Bounds DEF Holds, JInv
<1>2. status[s] \in {"claimed", "promoting"}
  BY DEF FrOK, HolderOK, RunPCs
<1>3. ASSUME NEW x \in Frames, Fills(x), x.job = s
      PROVE  FALSE
  BY <1>2, <1>3, FramePosition DEF FrOK, HolderOK, Fills
<1>4. ~Filled(s)
  BY <1>3, FilledFrame DEF JInv
<1> QED
  BY <1>1, <1>4 DEF Known, Now

(* The present job of a slot that is not, or no longer, being filled.      *)
LEMMA SameJob ==
  ASSUME NEW K, NEW Old, NEW f, NEW New, Acts(K, Old, f, New), NEW s \in 1..total', ~Filled(s)'
  PROVE  /\ s \in 1..total /\ s \in Slots /\ Now(s)' = Now(s) /\ Now(s) \in Handles
         /\ Filled(s) => s = f.job /\ f.pc \in {"publish", "park"}
         /\ ~Filled(s) => Known(Now(s))
         /\ dep'[Now(s)] = dep[Now(s)]
         /\ dep[Now(s)] # NoHandle => Known(dep[Now(s)])
<1> USE DEF Acts
<1>1. s \in Slots
  <2>1. CASE s \in 1..total
    BY <2>1, Bounds DEF JInv
  <2>2. CASE s \notin 1..total
    <3>1. PICK g \in New : Fills(g) /\ g.job = s
      BY <2>2 DEF SlotMoves
    <3>2. f.pc \in {"fill", "depstatus"} => f.job \in 1..total
      BY DEF Turn, FrOK, HolderOK, FillPCs
    <3> QED
      BY <2>2, <3>1, <3>2 DEF FillMoves
  <2> QED
    BY <2>1, <2>2
<1>2. s \in 1..total /\ generation'[s] = generation[s]
  BY <1>1, FilledMoves
<1>3. Now(s)' = Now(s) /\ Now(s) \in Handles /\ generation[s] \in Nat
  BY <1>1, <1>2, Bounds DEF Now, JInv, SlotsOK, SlotOK
<1>4. Filled(s) => s = f.job /\ f.pc \in {"publish", "park"}
  BY <1>1, FilledMoves
<1>5. ~Filled(s) => Known(Now(s))
  BY <1>1, <1>2, <1>3 DEF Known, Now
<1>6. dep'[Now(s)] = dep[Now(s)]
  <2>1. CASE Filled(s)
    BY <1>3, <1>4, <2>1 DEF GhostMoves
  <2>2. CASE ~Filled(s)
    BY <1>5, <2>2, HandleMoves
  <2> QED
    BY <2>1, <2>2
<1> QED
  BY <1>1, <1>2, <1>3, <1>4, <1>5, <1>6 DEF OInv, DepsKnown

(* Handles not yet issued are of no job, and a claimed slot has a job.     *)
LEMMA NewMove ==
  ASSUME NEW K, NEW Old, NEW f, NEW New, Acts(K, Old, f, New)
  PROVE  NewNone' /\ ClaimedAdded'
<1> USE DEF Acts
<1>0. FrOK(f)
  BY DEF Turn
<1>1. ASSUME NEW h \in Handles, h[2] > generation'[h[1]]
      PROVE  phase'[h] = "none"
  <2>1. /\ h[1] \in Slots /\ h[2] \in Nat /\ generation[h[1]] \in Nat
        /\ generation'[h[1]] = generation[h[1]] \/ generation'[h[1]] = generation[h[1]] + 1
    BY ConstantsOK DEF Handles, JInv, DataOK, SlotMoves
  <2>2. phase[h] = "none" /\ h # Now(h[1])
    BY <1>1, <2>1 DEF OInv, NewNone, Now
  <2>3. f.pc = "fill" => f.own = Now(f.job)
    BY <1>0 DEF FrOK, HolderOK, FillPCs
  <2>4. h # Now(f.job)
    BY <2>2 DEF Now
  <2> QED
    BY <2>2, <2>3, <2>4 DEF GhostMoves
<1>2. ASSUME NEW s \in 1..total', ~Filled(s)', status'[s] = "claimed"
      PROVE  phase'[Now(s)'] # "none"
  <2>1. /\ s \in 1..total /\ s \in Slots /\ Now(s)' = Now(s) /\ Now(s) \in Handles
        /\ Filled(s) => s = f.job /\ f.pc \in {"publish", "park"}
    BY <1>2, SameJob
  <2>2. ~Filled(s)
    BY <1>2, <2>1 DEF StatusMoves
  <2>3. CASE status[s] = "claimed"
    BY <2>1, <2>2, <2>3 DEF OInv, ClaimedAdded, GhostMoves
  <2>4. CASE status[s] # "claimed"
    <3>1. f.pc \in {"inline", "claim"} /\ status[s] = "not_started"
      BY <1>2, <2>1, <2>4 DEF StatusMoves
    <3>2. phase[Now(s)] = "pending"
      BY <2>1, <2>2, <3>1 DEF JInv, SlotsOK, SlotOK
    <3> QED
      BY <2>1, <3>1, <3>2 DEF GhostMoves
  <2> QED
    BY <2>1, <2>3, <2>4
<1> QED
  BY <1>1, <1>2 DEF NewNone, ClaimedAdded

LEMMA JobsMove ==
  ASSUME NEW K, NEW Old, NEW f, NEW New, Acts(K, Old, f, New)
  PROVE  JobsOK'
<1> USE DEF Acts
<1>0. f \in Frame /\ FrOK(f) /\ OrderOK(f) /\ SubmitOK(f)
  BY DEF Turn, OrderOK
<1> SUFFICES ASSUME NEW s \in 1..total', ~Filled(s)'
             PROVE  JobOK(s)'
  BY DEF JobsOK
<1>1. /\ s \in 1..total /\ s \in Slots /\ Now(s)' = Now(s) /\ Now(s) \in Handles
      /\ Filled(s) => s = f.job /\ f.pc \in {"publish", "park"}
      /\ ~Filled(s) => Known(Now(s))
      /\ dep'[Now(s)] = dep[Now(s)]
      /\ dep[Now(s)] # NoHandle => Known(dep[Now(s)])
  BY SameJob
<1>d. PICK d : d = dep[Now(s)]
  OBVIOUS
<1>2. d # NoHandle => Known(d)
  BY <1>1, <1>d
<1>3. ~Filled(s) => JobOK(s)
  BY <1>1 DEF OInv, JobsOK
<1>4. ASSUME s = f.job, f.pc \in {"publish", "park", "selfpromote"}
      PROVE  /\ f.own = Now(s) /\ d = f.arg
             /\ f.pc # "selfpromote" => first_dependent[s] = Null /\ next_dependent[s] = Null
             /\ f.pc # "park" /\ d # NoHandle => phase[d] = "done"
  BY <1>0, <1>d, <1>4 DEF SubmitOK, SubmitPCs, FillPCs, ParkedPCs
<1>5. ASSUME status'[s] \in {"not_started", "claimed"}, d # NoHandle
      PROVE  phase'[d] = "done"
  <2>1. CASE status'[s] = status[s] /\ ~Filled(s)
    BY <1>2, <1>3, <1>5, <1>d, <2>1, HandleMoves DEF JobOK
  <2>2. CASE s = f.job /\ f.pc \in {"publish", "selfpromote"}
    BY <1>2, <1>4, <1>5, <2>2, HandleMoves
  <2>3. CASE s = f.job /\ f.pc = "park"
    BY <1>5, <2>3 DEF StatusMoves
  <2>4. CASE ~Filled(s) /\ status[s] = "not_started"
    BY <1>2, <1>3, <1>5, <1>d, <2>4, HandleMoves DEF JobOK
  <2>5. CASE s = f.cur /\ f.pc = "promote"
    <3>1. f.pc \in RunPCs /\ status[f.job] = "promoting"
      BY <1>0, <2>5 DEF RunPCs, FrOK, HolderOK
    <3>2. ~Filled(f.job) /\ f.job \in 1..total /\ dep[Now(s)] = Now(f.job)
      BY <1>0, <2>5, <3>1, RunUnfilled DEF OrderOK, WalkOK, Listed
    <3>3. phase[d] = "done"
      BY <1>d, <3>1, <3>2 DEF JInv, SlotsOK, SlotOK
    <3> QED
      BY <1>2, <1>5, <3>3, HandleMoves
  <2> QED
    BY <1>1, <1>5, <2>1, <2>2, <2>3, <2>4, <2>5 DEF StatusMoves
<1>6. ASSUME status'[s] = "free", d # NoHandle
      PROVE  Settled(d)'
  <2>1. f.pc \in {"publish", "park"} => f.job # s
    BY <1>6 DEF StatusMoves
  <2>2. CASE status[s] = "free"
    BY <1>1, <1>2, <1>3, <1>6, <1>d, <2>1, <2>2, HandleMoves DEF JobOK
  <2>3. CASE status[s] # "free"
    <3>1. f.pc = "recycle" /\ f.job = s
      BY <1>1, <1>6, <2>3 DEF StatusMoves
    <3>2. Live(f.arg) /\ f.arg # NoHandle /\ f.job = f.arg[1] /\ Known(f.arg)
      BY <1>0, <3>1 DEF OrderOK, ReapOK, FrOK, PollOK, FrameOK, Polling
    <3>3. f.arg = Now(s)
      BY <3>1, <3>2, KnownLive
    <3>4. Settled(d)
      BY <1>0, <1>6, <1>d, <3>1, <3>2, <3>3 DEF OrderOK, NameOK, Polling
    <3> QED
      BY <1>2, <1>6, <3>4, HandleMoves
  <2> QED
    BY <2>2, <2>3
<1>7. ASSUME status'[s] # "free", first_dependent'[s] # Null, NEW c, c = first_dependent'[s],
             NEW h, h = Now(s)
      PROVE  Listed(c, h)'
  <2>1. CASE Filled(s)
    <3>1. first_dependent[s] = Null /\ f.pc \in {"publish", "park"}
      BY <1>1, <1>4, <2>1
    <3> QED
      BY <1>1, <1>7, <3>1 DEF SlotMoves
  <2>2. CASE ~Filled(s)
    <3>1. f.pc \in {"publish", "park"} => f.job # s
      BY <1>1, <2>2, FilledMoves DEF Fills, FillPCs
    <3>2. status[s] # "free"
      BY <1>1, <1>7, <3>1 DEF StatusMoves
    <3>3. Known(h) /\ ~Settled(h) /\ h # NoHandle /\ h[1] = s
      BY <1>1, <1>7, <2>2, <3>2 DEF Settled, Live, Now, NoHandle, Slots
    <3>4. CASE c = first_dependent[s]
      BY <1>3, <1>7, <2>2, <3>2, <3>3, <3>4, ListedMoves DEF JobOK
    <3>5. CASE c # first_dependent[s]
      <4>1. /\ s = f.cur /\ f.pc = "prepend" /\ c = f.job /\ \A g \in New : g.pc \notin LinkPCs
        BY <1>1, <1>7, <3>5 DEF SlotMoves
      <4>2. f \in Frames /\ f.pc \in SubmitPCs /\ f.pc \in LinkPCs /\ f.pc \notin Polling
        BY <4>1, BlankFrame DEF Turn, SubmitPCs, ParkedPCs, LinkPCs, Polling
      <4>3. /\ c \in 1..total /\ c \in Slots /\ f.own = Now(c) /\ f.own = Now(c)' /\ f.own \in Handles
            /\ dep'[f.own] = f.arg
        BY <1>0, <4>1, <4>2, SubmitMoves
      <4>4. ~Filled(c) /\ ~Filled(c)'
        <5>1. Known(f.own)
          BY <1>0, <4>1 DEF FrOK, FrameOK
        <5>2. ~Filled(c)
          BY <4>3, <5>1 DEF Known, Now, JInv, DataOK
        <5> QED
          BY <4>1, <4>3, <5>2, FilledMoves
      <4>5. ~Linking(c)'
        BY <4>1, <4>2, LinkingMoves
      <4>6. f.arg = h
        <5>1. f.arg # NoHandle /\ f.cur = f.arg[1]
          BY <1>0, <4>1 DEF SubmitOK, SubmitPCs, ParkedPCs
        <5> QED
          BY <1>0, <1>7, <4>1, <4>2, <5>1, NamedSlot
      <4>7. c \in 1..total'
        BY <4>3 DEF SlotMoves, JInv, DataOK
      <4> QED
        BY <4>3, <4>4, <4>5, <4>6, <4>7 DEF Listed
    <3> QED
      BY <3>4, <3>5
  <2> QED
    BY <2>1, <2>2
<1>8. ASSUME d # NoHandle, ~Settled(d)', ~Linking(s)', NEW c, c = next_dependent'[s], c # Null
      PROVE  Listed(c, d)'
  <2>0. ~Settled(d)
    BY <1>2, <1>8, HandleMoves
  <2>1. CASE Filled(s)
    <3>1. next_dependent[s] = Null /\ f.pc \in {"publish", "park"}
      BY <1>1, <1>4, <2>1
    <3> QED
      BY <1>1, <1>8, <3>1 DEF SlotMoves, LinkPCs
  <2>2. CASE ~Filled(s) /\ ~Linking(s)
    <3>1. next_dependent'[s] = next_dependent[s]
      <4>1. f.pc \in LinkPCs \union {"fill"} => f.job # s
        BY <1>1, <2>2, LinkingMoves, FilledMoves DEF Fills, FillPCs
      <4> QED
        BY <1>1, <4>1 DEF SlotMoves
    <3> QED
      BY <1>2, <1>3, <1>8, <1>d, <2>0, <2>2, <3>1, ListedMoves DEF JobOK
  <2>3. CASE Linking(s)
    <3>1. s = f.job /\ f.pc = "prepend" /\ next_dependent' = next_dependent
      BY <1>8, <2>3, LinkingMoves
    <3>2. next_dependent[s] = f.next /\ f.own = Now(s) /\ d = f.arg
          /\ (f.next # Null => Listed(f.next, f.arg))
      BY <1>0, <1>d, <3>1 DEF SubmitOK, SubmitPCs, ParkedPCs
    <3> QED
      BY <1>2, <1>8, <2>0, <3>1, <3>2, ListedMoves
  <2> QED
    BY <2>1, <2>2, <2>3
<1>9. status'[s] # "free" /\ first_dependent'[s] # Null => Listed(first_dependent[s], Now(s))'
  BY <1>1, <1>7 DEF Listed
<1>10. d # NoHandle /\ ~Settled(d)' /\ ~Linking(s)' /\ next_dependent'[s] # Null
         => Listed(next_dependent[s], dep[Now(s)])'
  BY <1>1, <1>8, <1>d DEF Listed
<1>11. dep[Now(s)]' = d
  BY <1>1, <1>d
<1> QED
  BY <1>5, <1>6, <1>9, <1>10, <1>11 DEF JobOK, Settled, Live

-----------------------------------------------------------------------------
(* Jobs that wait.                                                         *)

ParkPCs == {"link", "prepend", "recheck", "selfpromote"}

(* Who takes over from the frame f what it knows of waiting jobs.          *)
WaitMoves(f, New) ==
  /\ f.pc \in {"park", "link", "prepend"} => \E g \in New : g.job = f.job /\ g.pc \in ParkPCs
  /\ f.pc = "recheck" => \/ status[f.cur] \notin Done
                         \/ \E g \in New : g.job = f.job /\ g.pc \in ParkPCs
  /\ f.pc = "body" => \E g \in New : g.job = f.job /\ g.pc = "drain"
  /\ f.pc = "drain" => \E g \in New : /\ g.job = f.job /\ g.pc = "walk"
                                      /\ g.next = first_dependent[f.job]
  /\ f.pc = "walk" /\ f.next # Null =>
       \E g \in New : /\ g.job = f.job /\ g.pc = "promote"
                      /\ g.cur = f.next /\ g.next = next_dependent[f.next]
  /\ f.pc = "promote" => \E g \in New : g.job = f.job /\ g.pc = "walk" /\ g.next = f.next

LEMMA ListKept ==
  ASSUME NEW K, NEW Old, NEW f, NEW New, Acts(K, Old, f, New), WaitMoves(f, New),
         NEW d, Known(d), ~Settled(d), d # NoHandle, NEW s, ByList(s, d[1])
  PROVE  \/ /\ s \in ChainIn(next_dependent', first_dependent'[d[1]])
            /\ \/ status'[d[1]] \in {"not_started", "claimed", "waiting"}
               \/ \E g \in Frames' : g.job = d[1] /\ g.pc = "drain"
         \/ \E g \in Frames' : /\ g.job = d[1] /\ g.pc = "walk"
                               /\ s \in ChainIn(next_dependent', g.next)
<1> USE DEF Acts
<1>0. f \in Frame /\ FrOK(f) /\ OrderOK(f) /\ Frames' = K \union New /\ Frames = K \union Old
      /\ Old \subseteq {f}
  BY DEF Turn
<1>x. PICK x : x = d[1]
  OBVIOUS
<1>1. x \in 1..total /\ x \in Slots /\ d = Now(x) /\ ~Filled(x) /\ status[x] \in Statuses
  BY <1>x, HandleMoves DEF JInv, DataOK
<1>2. s \in Chain(first_dependent[x])
  BY <1>x DEF ByList
<1>3. CASE f.pc = "drain" /\ f.job = x
  <2>1. PICK g \in New : g.job = f.job /\ g.pc = "walk" /\ g.next = first_dependent[f.job]
    BY <1>3 DEF WaitMoves
  <2>2. s \in ChainIn(next_dependent', g.next)
    BY <1>1, <1>2, <1>3, <2>1, DependentsMove
  <2> QED
    BY <1>0, <1>x, <1>3, <2>1, <2>2
<1>4. CASE ~(f.pc = "drain" /\ f.job = x)
  <2>1. s \in ChainIn(next_dependent', first_dependent'[x])
    BY <1>1, <1>2, <1>4, DependentsMove
  <2>2. CASE status[x] \in {"not_started", "claimed", "waiting"}
    <3>1. CASE f.pc = "body" /\ f.job = x
      BY <1>0, <1>x, <2>1, <3>1 DEF WaitMoves
    <3>2. CASE ~(f.pc = "body" /\ f.job = x)
      <4>1. status'[x] \in {"not_started", "claimed", "waiting"}
        BY <1>1, <2>2, <3>2 DEF StatusMoves
      <4> QED
        BY <1>x, <2>1, <4>1
    <3> QED
      BY <3>1, <3>2
  <2>3. CASE \E g \in Frames : g.job = x /\ g.pc = "drain"
    BY <1>0, <1>x, <1>4, <2>1, <2>3
  <2> QED
    BY <1>x, <2>2, <2>3 DEF ByList
<1> QED
  BY <1>3, <1>4

LEMMA PromoterKept ==
  ASSUME NEW K, NEW Old, NEW f, NEW New, Acts(K, Old, f, New), WaitMoves(f, New),
         NEW d, Known(d), Live(d), d # NoHandle, NEW s, status'[s] = "waiting", ByPromoter(s, d[1])
  PROVE  ~Settled(d) /\ \E g \in Frames' : /\ g.job = d[1]
                            /\ \/ g.pc \in {"walk", "promote"} /\ s \in ChainIn(next_dependent', g.next)
                               \/ g.pc = "promote" /\ g.cur = s
<1> USE DEF Acts
<1>0. f \in Frame /\ FrOK(f) /\ OrderOK(f) /\ Frames' = K \union New /\ Frames = K \union Old
      /\ Old \subseteq {f}
  BY DEF Turn
<1>x. PICK x : x = d[1]
  OBVIOUS
<1>1. PICK g \in Frames : /\ g.job = x /\ g.pc \in {"walk", "promote"}
                          /\ \/ s \in Chain(g.next)
                             \/ g.pc = "promote" /\ g.cur = s
  BY <1>x DEF ByPromoter
<1>2. g \in Frame /\ FrOK(g) /\ WalkOK(g) /\ status[x] = "promoting"
  BY <1>1, FramePosition DEF OInv, FramesOrdered, OrderOK, FrOK, HolderOK
<1>3. d = Now(x) /\ ~Settled(d)
  BY <1>x, <1>2, KnownLive DEF Settled
<1>4. ASSUME s \in Chain(g.next)
      PROVE  s \in ChainIn(next_dependent', g.next) /\ g.next # Null /\ g.next \in Slots
             /\ (next_dependent'[g.next] = next_dependent[g.next])
  <2>1. g.next # Null
    BY <1>4 DEF Chain
  <2>2. Listed(g.next, d)
    BY <1>1, <1>2, <1>3, <2>1 DEF WalkOK
  <2> QED
    BY <1>3, <1>4, <2>1, <2>2, ChainMoves, ListedMoves
<1>5. CASE g \in K
  BY <1>0, <1>x, <1>1, <1>3, <1>4, <1>5
<1>6. CASE g = f /\ f.pc = "walk"
  <2>1. s \in ChainIn(next_dependent', f.next) /\ f.next # Null /\ f.next \in Slots
        /\ next_dependent'[f.next] = next_dependent[f.next]
    BY <1>1, <1>4, <1>6
  <2>2. PICK h \in New : /\ h.job = f.job /\ h.pc = "promote"
                         /\ h.cur = f.next /\ h.next = next_dependent[f.next]
    BY <1>6, <2>1 DEF WaitMoves
  <2>3. next_dependent' \in [Slots -> Slots \union {Null}]
    BY DEF JInv, DataOK
  <2>4. s = f.next \/ s \in ChainIn(next_dependent', h.next)
    BY <2>1, <2>2, <2>3, ChainBasics
  <2> QED
    BY <1>0, <1>x, <1>1, <1>3, <1>6, <2>2, <2>4
<1>7. CASE g = f /\ f.pc = "promote"
  <2>1. PICK h \in New : h.job = f.job /\ h.pc = "walk" /\ h.next = f.next
    BY <1>7 DEF WaitMoves
  <2>2. f.cur # s
    BY <1>7 DEF StatusMoves
  <2> QED
    BY <1>0, <1>x, <1>1, <1>3, <1>4, <1>7, <2>1, <2>2
<1> QED
  BY <1>0, <1>1, <1>5, <1>6, <1>7

LEMMA WaitersMove ==
  ASSUME NEW K, NEW Old, NEW f, NEW New, Acts(K, Old, f, New), WaitMoves(f, New)
  PROVE  WaitersHeld'
<1> USE DEF Acts
<1>0. /\ f \in Frame /\ FrOK(f) /\ OrderOK(f) /\ SubmitOK(f)
      /\ Frames' = K \union New /\ Frames = K \union Old /\ Old \subseteq {f}
  BY DEF Turn, OrderOK
<1> SUFFICES ASSUME NEW s \in 1..total', ~Filled(s)', status'[s] = "waiting"
             PROVE  WaitHeld(s)'
  BY DEF WaitersHeld
<1>1. /\ s \in 1..total /\ s \in Slots /\ Now(s)' = Now(s)
      /\ Filled(s) => s = f.job /\ f.pc \in {"publish", "park"}
      /\ dep'[Now(s)] = dep[Now(s)]
      /\ dep[Now(s)] # NoHandle => Known(dep[Now(s)])
  BY SameJob
<1>d. PICK d : d = dep[Now(s)]
  OBVIOUS
<1>2. dep[Now(s)]' = d /\ (d # NoHandle => Known(d))
  BY <1>1, <1>d
<1>3. ASSUME \E g \in Frames' : g.job = s /\ g.pc \in ParkPCs
      PROVE  WaitHeld(s)'
  BY <1>3 DEF WaitHeld, BySubmitter, ParkPCs
<1>4. ASSUME d # NoHandle, ~Settled(d), ByList(s, d[1])
      PROVE  WaitHeld(s)'
  <2>1. Live(d)'
    BY <1>2, <1>4, HandleMoves DEF Live, Now
  <2>2. CASE /\ s \in ChainIn(next_dependent', first_dependent'[d[1]])
             /\ \/ status'[d[1]] \in {"not_started", "claimed", "waiting"}
                \/ \E g \in Frames' : g.job = d[1] /\ g.pc = "drain"
    <3>1. ByList(s, d[1])'
      BY <2>2 DEF ByList, Chain, ChainIn
    <3> QED
      BY <1>2, <1>4, <2>1, <3>1 DEF WaitHeld, Live, ByList, Chain
  <2>3. CASE \E g \in Frames' : g.job = d[1] /\ g.pc = "walk" /\ s \in ChainIn(next_dependent', g.next)
    <3>1. ByPromoter(s, d[1])'
      BY <2>3 DEF ByPromoter, Chain, ChainIn
    <3> QED
      BY <1>2, <1>4, <2>1, <3>1 DEF WaitHeld, Live, ByPromoter, Chain
  <2> QED
    BY <1>2, <1>4, <2>2, <2>3, ListKept
<1>5. ASSUME d # NoHandle, Live(d), ByPromoter(s, d[1])
      PROVE  WaitHeld(s)'
  <2>1. /\ ~Settled(d)
        /\ \E g \in Frames' : /\ g.job = d[1]
                              /\ \/ g.pc \in {"walk", "promote"} /\ s \in ChainIn(next_dependent', g.next)
                                 \/ g.pc = "promote" /\ g.cur = s
    BY <1>2, <1>5, PromoterKept
  <2>2. Live(d)'
    BY <1>2, <1>5, <2>1, HandleMoves DEF Live, Now
  <2>3. ByPromoter(s, d[1])'
    BY <2>1 DEF ByPromoter, Chain, ChainIn
  <2> QED
    BY <1>2, <1>5, <2>2, <2>3 DEF WaitHeld, Live, ByPromoter, Chain
<1>6. CASE status[s] # "waiting"
  <2>1. s = f.job /\ f.pc = "park"
    BY <1>1, <1>6 DEF StatusMoves
  <2> QED
    BY <1>0, <1>3, <2>1 DEF WaitMoves
<1>7. CASE status[s] = "waiting"
  <2>0. ~Filled(s)
    <3>1. ASSUME NEW x \in Frames, Fills(x), x.job = s
          PROVE  FALSE
      BY <1>7, <3>1, FramePosition DEF FrOK, HolderOK, Fills
    <3> QED
      BY <3>1, FilledFrame DEF JInv
  <2>1. WaitHeld(s)
    BY <1>1, <1>7, <2>0 DEF OInv, WaitersHeld
  <2>2. CASE BySubmitter(s)
    <3>1. PICK g \in Frames : g.job = s /\ g.pc \in ParkPCs
      BY <2>2 DEF BySubmitter, ParkPCs
    <3>2. CASE g \in K
      BY <1>0, <1>3, <3>1, <3>2
    <3>3. CASE g = f /\ f.pc \in {"link", "prepend"}
      BY <1>0, <1>3, <3>1, <3>3 DEF WaitMoves
    <3>4. CASE g = f /\ f.pc = "selfpromote"
      BY <3>1, <3>4 DEF StatusMoves
    <3>5. CASE g = f /\ f.pc = "recheck"
      <4>1. CASE \E h \in New : h.job = f.job /\ h.pc \in ParkPCs
        BY <1>0, <1>3, <3>1, <3>5, <4>1
      <4>2. CASE status[f.cur] \notin Done
        <5>1. f.arg # NoHandle /\ f.pc \notin Polling /\ f.own = Now(s) /\ dep[f.own] = f.arg
              /\ f.cur = f.arg[1] /\ s \in Chain(first_dependent[f.cur])
          BY <1>0, <3>1, <3>5, <4>2 DEF SubmitOK, SubmitPCs, ParkedPCs, Polling
        <5>2. d = f.arg /\ Known(d) /\ ~Settled(d) /\ f.cur \in Slots
          BY <1>0, <1>d, <5>1, NamedSlot
        <5>3. status[f.cur] \in {"not_started", "claimed", "waiting"}
          BY <4>2, <5>2 DEF JInv, DataOK, Statuses, Done, Finished, Settled
        <5>4. ByList(s, d[1])
          BY <5>1, <5>2, <5>3 DEF ByList
        <5> QED
          BY <1>4, <5>1, <5>2, <5>4
      <4> QED
        BY <3>5, <4>1, <4>2 DEF WaitMoves
    <3> QED
      BY <1>0, <3>1, <3>2, <3>3, <3>4, <3>5 DEF ParkPCs
  <2>3. CASE d # NoHandle /\ Live(d) /\ ByList(s, d[1])
    <3>1. ~Settled(d)
      <4>1. CASE status[d[1]] \in {"not_started", "claimed", "waiting"}
        BY <2>3, <4>1 DEF Settled
      <4>2. CASE \E g \in Frames : g.job = d[1] /\ g.pc = "drain"
        BY <2>3, <4>2, FramePosition DEF Settled, FrOK, HolderOK
      <4> QED
        BY <2>3, <4>1, <4>2 DEF ByList
    <3> QED
      BY <1>4, <2>3, <3>1
  <2>4. CASE d # NoHandle /\ Live(d) /\ ByPromoter(s, d[1])
    BY <1>5, <2>4
  <2> QED
    BY <1>d, <2>1, <2>2, <2>3, <2>4 DEF WaitHeld
<1> QED
  BY <1>6, <1>7

-----------------------------------------------------------------------------
(* Jobs that are ready.                                                    *)

Hands(New, pc, s, p) == \E g \in New : g.pc = pc /\ g.job = s /\ g.prio = p
InQueue(q, s)        == \E i \in 1..Len(q) : q[i] = s

(* Who takes over from the frame f what it knows of ready jobs.            *)
ReadyMoves(f, New) ==
  /\ f.pc = "publish" => Hands(New, "enqueue", f.job, f.prio)
  /\ f.pc = "selfpromote" => status'[f.job] = status[f.job] \/ Hands(New, "enqueue", f.job, f.prio)
  /\ f.pc = "promote" => \/ status'[f.cur] = status[f.cur]
                         \/ \E g \in New : g.pc = "loadprio" /\ g.job = f.cur
  /\ f.pc = "loadprio" => Hands(New, "enqueue", f.job, priority[f.job])
  /\ f.pc = "enqueue" => (\E g \in New : g.pc = "inline" /\ g.job = f.job) \/ InQueue(queue'[f.prio], f.job)
  /\ f.pc = "match" /\ f.prio = priority[f.job] => Hands(New, "claim", f.job, f.prio)
  /\ f.pc = "setstore" => Hands(New, "setagain", f.job, f.prio) /\ priority'[f.job] = f.prio
  /\ f.pc = "setagain" => status[f.job] # "not_started" \/ Hands(New, "enqueue", f.job, f.prio)
  /\ \A p \in Levels, s \in Slots : InQueue(queue[p], s) =>
       InQueue(queue'[p], s) \/ Hands(New, "match", s, p)

LEMMA ReadyMove ==
  ASSUME NEW K, NEW Old, NEW f, NEW New, Acts(K, Old, f, New), ReadyMoves(f, New)
  PROVE  ReadyOnesHeld'
<1> USE DEF Acts
<1>0. /\ f \in Frame /\ OrderOK(f) /\ SubmitOK(f)
      /\ Frames' = K \union New /\ Frames = K \union Old /\ Old \subseteq {f}
  BY DEF Turn, OrderOK
<1> SUFFICES ASSUME NEW s \in 1..total', ~Filled(s)', status'[s] = "not_started"
             PROVE  ReadyHeld(s)'
  BY DEF ReadyOnesHeld
<1>1. /\ s \in 1..total /\ s \in Slots
      /\ Filled(s) => s = f.job /\ f.pc \in {"publish", "park"}
  BY SameJob
<1>p. PICK p : p = priority'[s]
  OBVIOUS
<1>2. ASSUME NEW g \in Frames', g.job = s,
             \/ g.pc \in {"loadprio", "inline"}
             \/ g.pc \in {"match", "claim", "enqueue", "setagain"} /\ g.prio = p
      PROVE  ReadyHeld(s)'
  BY <1>p, <1>2 DEF ReadyHeld, Holding
<1>3. ASSUME Hands(New, "enqueue", s, p) \/ Hands(New, "match", s, p) \/ Hands(New, "claim", s, p)
             \/ Hands(New, "setagain", s, p)
      PROVE  ReadyHeld(s)'
  BY <1>0, <1>2, <1>3 DEF Hands
<1>4. InQueue(queue'[p], s) => ReadyHeld(s)'
  BY <1>p DEF InQueue, ReadyHeld, Queued
<1>5. CASE f.pc \in {"publish", "selfpromote"} /\ f.job = s /\ (Filled(s) \/ status[s] # "not_started")
  <2>1. priority[s] = f.prio
    BY <1>0, <1>5 DEF SubmitOK, SubmitPCs, FillPCs, ParkedPCs
  <2>2. p = f.prio
    BY <1>1, <1>5, <1>p, <2>1 DEF SlotMoves
  <2> QED
    BY <1>1, <1>3, <1>5, <2>2 DEF ReadyMoves
<1>6. CASE ~Filled(s) /\ status[s] # "not_started" /\ ~(f.pc \in {"publish", "selfpromote"} /\ f.job = s)
  <2>1. f.pc = "promote" /\ s = f.cur
    BY <1>1, <1>6 DEF StatusMoves
  <2>2. PICK g \in New : g.pc = "loadprio" /\ g.job = f.cur
    BY <1>6, <2>1 DEF ReadyMoves
  <2> QED
    BY <1>0, <1>2, <2>1, <2>2
<1>7. CASE ~Filled(s) /\ status[s] = "not_started" /\ f.pc = "setstore" /\ f.job = s
  BY <1>3, <1>7, <1>p DEF ReadyMoves
<1>8. CASE ~Filled(s) /\ status[s] = "not_started" /\ ~(f.pc = "setstore" /\ f.job = s)
  <2>1. f.pc = "fill" => f.job # s
    BY <1>1, <1>8, FilledMoves DEF Fills, FillPCs
  <2>2. p = priority[s] /\ p \in Levels
    BY <1>1, <1>8, <1>p, <2>1 DEF SlotMoves, OInv, LevelsOK
  <2>3. ReadyHeld(s)
    BY <1>1, <1>8 DEF OInv, ReadyOnesHeld
  <2>4. CASE Queued(s)
    <3>1. InQueue(queue[p], s)
      BY <2>2, <2>4 DEF Queued, InQueue
    <3> QED
      BY <1>1, <1>3, <1>4, <2>2, <3>1 DEF ReadyMoves
  <2>5. ASSUME NEW g \in Frames, Holding(g, s)
        PROVE  ReadyHeld(s)'
    <3>1. /\ g.job = s
          /\ \/ g.pc \in {"loadprio", "inline"}
             \/ g.pc \in {"match", "claim", "enqueue", "setagain"} /\ g.prio = p
      BY <2>2, <2>5 DEF Holding
    <3>2. CASE g \in K
      BY <1>0, <1>2, <3>1, <3>2
    <3>3. CASE g = f /\ f.pc \in {"inline", "claim"}
      BY <3>1, <3>3 DEF StatusMoves
    <3>4. CASE g = f /\ f.pc \in {"loadprio", "match", "setagain"}
      BY <1>3, <1>8, <2>2, <3>1, <3>4 DEF ReadyMoves
    <3>5. CASE g = f /\ f.pc = "enqueue"
      <4>1. CASE \E h \in New : h.pc = "inline" /\ h.job = f.job
        BY <1>0, <1>2, <3>1, <3>5, <4>1
      <4> QED
        BY <1>4, <3>1, <3>5, <4>1 DEF ReadyMoves
    <3> QED
      BY <1>0, <3>1, <3>2, <3>3, <3>4, <3>5
  <2> QED
    BY <2>3, <2>4, <2>5 DEF ReadyHeld
<1>9. Filled(s) => s = f.job /\ f.pc = "publish"
  BY <1>1 DEF StatusMoves
<1> QED
  BY <1>5, <1>6, <1>7, <1>8, <1>9

-----------------------------------------------------------------------------
(* A step of the system is a turn.                                         *)

Tables(f, New) ==
  /\ StatusMoves(f) /\ SlotMoves(f, New) /\ GhostMoves(f) /\ FillMoves(f, New) /\ LinkMoves(f, New)
  /\ WaitMoves(f, New) /\ ReadyMoves(f, New)

Moves(K, Old, f, New) == Turn(K, Old, f, New) /\ Tables(f, New) /\ NamesApart' /\ OwnersApart'

LEMMA TurnKeeps ==
  ASSUME JInv, JInv', OInv, NEW K, NEW Old, NEW f, NEW New, Moves(K, Old, f, New),
         \A g \in New : OrderOK(g)'
  PROVE  OInv'
<1>1. Acts(K, Old, f, New)
  BY DEF Moves, Tables, Acts
<1>2. WaitMoves(f, New) /\ ReadyMoves(f, New) /\ Frames' = K \union New
  BY DEF Moves, Tables, Turn
<1>3. FramesOrdered'
  <2>1. ASSUME NEW g \in Frames'
        PROVE  OrderOK(g)'
    BY <1>1, <1>2, KeptOrdered
  <2> QED
    BY <2>1 DEF FramesOrdered
<1>4. NamesApart' /\ OwnersApart'
  BY DEF Moves
<1>5. DepsKnown' /\ OldDone' /\ NewNone' /\ ClaimedAdded' /\ LevelsOK' /\ DependencyOrder'
  BY <1>1, DepsMove, NewMove
<1>6. JobsOK'
  BY <1>1, JobsMove
<1>7. WaitersHeld'
  BY <1>1, <1>2, WaitersMove
<1>8. ReadyOnesHeld'
  BY <1>1, <1>2, ReadyMove
<1> QED
  BY <1>3, <1>4, <1>5, <1>6, <1>7, <1>8 DEF OInv

(* The four ways in which a step changes a stack.                          *)
LEMMA BecomeKeeps ==
  ASSUME JInv, JInv', OInv, NEW t \in Threads, stack[t] # <<>>, NEW f, f = Top(t),
         NEW a \in Frame, Become(t, a), Tables(f, {a}),
         a.arg \in {f.arg, NoHandle}, a.pc \in SubmitPCs => f.pc \in SubmitPCs /\ a.job = f.job,
         \A K : Acts(K, {f}, f, {a}) => OrderOK(a)'
  PROVE  OInv'
<1>1. PICK K : Turn(K, {f}, f, {a}) /\ (Inherits(K, f, a) => NamesApart' /\ OwnersApart')
  BY BecomeTurn
<1>2. Inherits(K, f, a)
  BY DEF Inherits
<1>3. Moves(K, {f}, f, {a}) /\ Acts(K, {f}, f, {a})
  BY <1>1, <1>2 DEF Moves, Tables, Acts
<1>4. \A g \in {a} : OrderOK(g)'
  BY <1>3
<1> QED
  BY <1>3, <1>4, TurnKeeps

LEMMA CallKeeps ==
  ASSUME JInv, JInv', OInv, NEW t \in Threads, stack[t] # <<>>, NEW f, f = Top(t),
         NEW a \in Frame, NEW b \in Frame, Call(t, a, b), Tables(f, {a, b}),
         a.arg = f.arg, a.pc \in SubmitPCs => f.pc \in SubmitPCs /\ a.job = f.job,
         b.pc \in {"enqueue", "loadprio"}, b.arg = NoHandle, b.prio \in Levels,
         \A K : Acts(K, {f}, f, {a, b}) => OrderOK(a)'
  PROVE  OInv'
<1>0. b.pc \notin SubmitPCs /\ OrderOK(b)'
  BY DEF SubmitPCs, FillPCs, ParkedPCs, OrderOK, NameOK, ReapOK, SetOK, SetPCs, SubmitOK, WalkOK
<1>1. PICK K : Turn(K, {f}, f, {a, b}) /\ (Inherits(K, f, a) => NamesApart' /\ OwnersApart')
  BY <1>0, CallTurn
<1>2. Inherits(K, f, a)
  BY DEF Inherits
<1>3. Moves(K, {f}, f, {a, b}) /\ Acts(K, {f}, f, {a, b})
  BY <1>1, <1>2 DEF Moves, Tables, Acts
<1>4. \A g \in {a, b} : OrderOK(g)'
  BY <1>0, <1>3
<1> QED
  BY <1>3, <1>4, TurnKeeps

LEMMA ReturnKeeps ==
  ASSUME JInv, JInv', OInv, NEW t \in Threads, stack[t] # <<>>, NEW f, f = Top(t),
         Return(t), Tables(f, {})
  PROVE  OInv'
<1>1. (\E K : Turn(K, {f}, f, {})) /\ NamesApart' /\ OwnersApart'
  BY ReturnTurn
<1>2. PICK K : Turn(K, {f}, f, {})
  BY <1>1
<1>3. Moves(K, {f}, f, {})
  BY <1>1, <1>2 DEF Moves
<1> QED
  BY <1>3, TurnKeeps

LEMMA EnterKeeps ==
  ASSUME JInv, JInv', OInv, NEW t \in Threads, NEW a \in Frame, Enter(t, a), a.pc \notin SubmitPCs,
         \A g \in Frames : g.arg = a.arg => g.arg = NoHandle,
         Tables(Blank, {a}), OrderOK(a)'
  PROVE  OInv'
<1>1. (\E K : Turn(K, {}, Blank, {a})) /\ NamesApart' /\ OwnersApart'
  BY EnterTurn
<1>2. PICK K : Turn(K, {}, Blank, {a})
  BY <1>1
<1>3. Moves(K, {}, Blank, {a})
  BY <1>1, <1>2 DEF Moves
<1> QED
  BY <1>3, TurnKeeps

(* The tables of a step that reads shared memory and changes none of it.   *)
LEMMA StillMoves ==
  ASSUME JInv, Still, NEW f, NEW New,
         f.pc \notin {"publish", "park", "fill"},
         f.pc = "selfpromote" => status[f.job] # "waiting",
         f.pc = "promote" => status[f.cur] # "waiting",
         f.pc \in {"inline", "claim"} => status[f.job] # "not_started"
  PROVE  StatusMoves(f) /\ SlotMoves(f, New) /\ GhostMoves(f)
<1> USE DEF Still, slotVars, poolVars, ghosts
<1>1. StatusMoves(f)
  BY DEF StatusMoves
<1>2. SlotMoves(f, New)
  BY DEF SlotMoves, JInv, DataOK
<1>3. GhostMoves(f)
  BY DEF GhostMoves
<1> QED
  BY <1>1, <1>2, <1>3

(* The tables about frames, for program counters they do not mention.      *)
PlainPCs == {"depgen", "alloc", "added", "inline", "scan", "claim", "begin",
             "pollgen", "pollstatus", "pollagain", "recycle", "push", "answer",
             "setgen", "setstatus", "setold"}

LEMMA PlainMoves ==
  ASSUME queue' = queue, NEW f, NEW New, f.pc \in PlainPCs,
         \A g \in New : ~Fills(g) /\ g.pc \notin LinkPCs
  PROVE  FillMoves(f, New) /\ LinkMoves(f, New) /\ WaitMoves(f, New) /\ ReadyMoves(f, New)
<1>1. FillMoves(f, New)
  BY DEF FillMoves, PlainPCs
<1>2. LinkMoves(f, New)
  BY DEF LinkMoves, LinkPCs, PlainPCs
<1>3. WaitMoves(f, New)
  BY DEF WaitMoves, PlainPCs
<1>4. ReadyMoves(f, New)
  BY DEF ReadyMoves, PlainPCs
<1> QED
  BY <1>1, <1>2, <1>3, <1>4

(* What the successor of a frame in the same call inherits.                *)
LEMMA HeirNamed ==
  ASSUME NEW K, NEW f, NEW New, Acts(K, {f}, f, New), NEW a, a.arg = f.arg,
         a.pc \in Polling <=> f.pc \in Polling
  PROVE  NameOK(a)'
<1>1. OrderOK(f) /\ (f.arg # NoHandle => Known(f.arg))
  BY DEF Acts, Turn, FrOK, FrameOK
<1>2. f.pc = "recycle" => f.pc \in Polling
  BY DEF Polling
<1>3. NameOK(f)'
  <2>1. CASE f.arg # NoHandle
    BY <1>1, <1>2, <2>1, NameKept
  <2> QED
    BY <2>1 DEF NameOK
<1> QED
  BY <1>3 DEF NameOK, Settled, Live

BusyPCs == SubmitPCs \union (SetPCs \ {"setgen"}) \union {"alloc", "pollagain", "recycle", "walk", "promote"}

LEMMA PlainOrder ==
  ASSUME NEW a, NameOK(a)', a.prio \in Levels, a.pc \notin BusyPCs
  PROVE  OrderOK(a)'
BY DEF BusyPCs, SubmitPCs, FillPCs, ParkedPCs, SetPCs, OrderOK, ReapOK, SetOK, SubmitOK, WalkOK

LEMMA NamelessOrder ==
  ASSUME NEW a, a.arg = NoHandle, a.prio \in Levels, a.pc \notin BusyPCs
  PROVE  OrderOK(a)'
BY PlainOrder DEF NameOK

LEMMA TopFacts ==
  ASSUME JInv, OInv, NEW t \in Threads, stack[t] # <<>>, NEW f, f = Top(t)
  PROVE  /\ f \in Frame /\ f \in Frames /\ FrOK(f) /\ OrderOK(f)
         /\ NameOK(f) /\ ReapOK(f) /\ SetOK(f) /\ SubmitOK(f) /\ WalkOK(f) /\ f.prio \in Levels
         /\ f.arg # NoHandle => Known(f.arg)
<1>1. f \in Frame /\ f \in Frames /\ FrOK(f) /\ OrderOK(f)
  BY TopTurn
<1> QED
  BY <1>1 DEF OrderOK, FrOK, FrameOK

-----------------------------------------------------------------------------
(* fl_jobs_add_*: what a submitter that goes on takes with it.             *)

LEMMA SubmitHeir ==
  ASSUME NEW K, NEW f, NEW New, Acts(K, {f}, f, New), f \in Frames,
         f.pc \in SubmitPCs \ {"fill", "added"},
         NEW a, a.pc \in SubmitPCs \ {"fill"}, a.job = f.job, a.own = f.own, a.arg = f.arg,
         a.prio = f.prio, a.cur = f.cur,
         a.pc \in ParkedPCs => f.pc \in ParkedPCs \/ status'[f.job] # "free",
         a.pc \in {"depstatus", "publish", "park"} =>
           first_dependent'[f.job] = Null /\ next_dependent'[f.job] = Null,
         a.pc \in {"depstatus", "park", "link", "prepend", "recheck", "selfpromote"} =>
           f.arg # NoHandle,
         a.pc \in {"publish", "selfpromote"} /\ f.arg # NoHandle => phase[f.arg] = "done",
         a.pc = "prepend" => /\ next_dependent'[f.job] = a.next
                             /\ a.next # Null => Listed(a.next, f.arg)',
         a.pc = "recheck" => \/ status'[f.cur] \in Done
                             \/ f.job \in ChainIn(next_dependent', first_dependent'[f.cur])
  PROVE  OrderOK(a)'
<1>1. OrderOK(f) /\ SubmitOK(f) /\ (f.arg # NoHandle => Known(f.arg)) /\ f.prio \in Levels
  BY DEF Acts, Turn, FrOK, FrameOK, OrderOK
<1>2. a.pc \notin Polling /\ f.pc \notin Polling
  BY DEF SubmitPCs, FillPCs, ParkedPCs, Polling
<1>3. NameOK(a)'
  BY <1>2, HeirNamed
<1>4. /\ f.own = Now(f.job)' /\ f.own \notin issued'
      /\ dep'[f.own] = f.arg /\ priority'[f.job] = f.prio
      /\ f.pc \in ParkedPCs => status'[f.job] # "free"
  BY <1>1, SubmitMoves
<1>5. f.cur = IF f.arg = NoHandle THEN Null ELSE f.arg[1]
  BY <1>1 DEF SubmitOK
<1>6. a.pc \in {"publish", "selfpromote"} /\ f.arg # NoHandle => phase'[f.arg] = "done"
  BY <1>1, HandleMoves
<1>7. f.job \in ChainIn(next_dependent', first_dependent'[f.cur])
        => (f.job \in Chain(first_dependent[f.cur]))'
  BY DEF Chain, ChainIn
<1>8. SubmitOK(a)'
  <2>1. /\ a.pc \in SubmitPCs \union {"alloc"} => a.cur = IF a.arg = NoHandle THEN Null ELSE a.arg[1]
        /\ a.pc \in SubmitPCs => a.own = Now(a.job)' /\ a.own \notin issued'
        /\ a.pc \in SubmitPCs \ {"fill"} => dep'[a.own] = a.arg /\ priority'[a.job] = a.prio
        /\ a.pc \in ParkedPCs => status'[a.job] # "free"
        /\ a.pc \in {"depstatus", "publish", "park"} =>
             first_dependent'[a.job] = Null /\ next_dependent'[a.job] = Null
        /\ a.pc \in {"depstatus", "park", "link", "prepend", "recheck", "selfpromote"} =>
             a.arg # NoHandle
        /\ a.pc \in {"publish", "selfpromote"} /\ a.arg # NoHandle => phase'[a.arg] = "done"
        /\ a.pc = "prepend" => /\ next_dependent'[a.job] = a.next
                               /\ a.next # Null => Listed(a.next, a.arg)'
    BY <1>4, <1>5, <1>6
  <2>2. a.pc = "recheck" => status'[a.cur] \in Done \/ (a.job \in Chain(first_dependent[a.cur]))'
    BY <1>7 DEF Chain
  <2> QED
    BY <2>1, <2>2 DEF SubmitOK
<1>9. ReapOK(a)' /\ SetOK(a)' /\ WalkOK(a)'
  BY DEF ReapOK, SetOK, WalkOK, SubmitPCs, FillPCs, ParkedPCs, SetPCs
<1> QED
  BY <1>1, <1>3, <1>8, <1>9 DEF OrderOK

LEMMA CheckDependencyOrder ==
  ASSUME JInv, JInv', OInv, NEW t \in Threads, CheckDependency(t)
  PROVE  OInv'
<1>t. PICK f : f = Top(t)
  OBVIOUS
<1>a. PICK a : a = [f EXCEPT !.pc = "alloc", !.cur = f.arg[1]]
  OBVIOUS
<1>1. /\ stack[t] # <<>> /\ f.pc = "depgen" /\ Still /\ f \in Frame /\ FrOK(f) /\ f.prio \in Levels
      /\ f.arg # NoHandle /\ Known(f.arg) /\ ~Settled(f.arg) /\ f.arg[1] \in Slots
  <2>1. stack[t] # <<>> /\ f.pc = "depgen" /\ Still
    BY <1>t DEF CheckDependency, At, Still
  <2>2. f \in Frame /\ FrOK(f) /\ OrderOK(f) /\ f.prio \in Levels /\ f.arg # NoHandle
    BY <1>t, <2>1, TopFacts DEF FrOK, FrameOK
  <2> QED
    BY <2>1, <2>2, NamedSlot DEF Polling
<1>2. Become(t, a)
  BY <1>t, <1>a, <1>1 DEF CheckDependency, Settled
<1>3. /\ a \in Frame /\ a.pc = "alloc" /\ a.cur = f.arg[1]
      /\ a.arg = f.arg /\ a.prio = f.prio
  BY <1>a, <1>1 DEF Frame, PCs
<1>4. Tables(f, {a})
  <2>1. queue' = queue /\ f.pc \in PlainPCs /\ ~Fills(a) /\ a.pc \notin LinkPCs
    BY <1>1, <1>3 DEF Still, PlainPCs, Fills, FillPCs, LinkPCs
  <2> QED
    BY <1>1, <2>1, StillMoves, PlainMoves DEF Tables
<1>5. ASSUME NEW K, Acts(K, {f}, f, {a})
      PROVE  OrderOK(a)'
  <2>1. NameOK(a)'
    BY <1>1, <1>3, <1>5, HeirNamed DEF Polling
  <2> QED
    BY <1>1, <1>3, <2>1 DEF OrderOK, SubmitOK, SubmitPCs, FillPCs, ParkedPCs, ReapOK, SetOK, SetPCs, WalkOK
<1>6. a.pc \notin SubmitPCs
  BY <1>3 DEF SubmitPCs, FillPCs, ParkedPCs
<1> QED
  BY <1>t, <1>1, <1>2, <1>3, <1>4, <1>5, <1>6, BecomeKeeps

LEMMA ReadDependencyStatusOrder ==
  ASSUME JInv, JInv', OInv, NEW t \in Threads, ReadDependencyStatus(t)
  PROVE  OInv'
<1>t. PICK f : f = Top(t)
  OBVIOUS
<1>p. PICK pc \in {"publish", "park"} : pc = IF status[f.cur] \in Done THEN "publish" ELSE "park"
  OBVIOUS
<1>a. PICK a : a = [f EXCEPT !.pc = pc]
  OBVIOUS
<1>1. /\ stack[t] # <<>> /\ f.pc = "depstatus" /\ Still /\ f \in Frame /\ f \in Frames
      /\ FrOK(f) /\ OrderOK(f) /\ SubmitOK(f) /\ Become(t, a)
  BY <1>t, <1>p, <1>a, TopFacts DEF ReadDependencyStatus, At, Still, Goto
<1>2. SameBut(a, f, pc)
  BY <1>a, <1>1, Goes DEF PCs
<1>3. f.pc \in SubmitPCs /\ a.pc \in SubmitPCs \ {"fill"} /\ Fills(a) /\ a.pc \notin ParkedPCs
      /\ a.pc \notin LinkPCs /\ f.pc \notin Polling
  BY <1>1, <1>2 DEF SameBut, SubmitPCs, FillPCs, ParkedPCs, Fills, LinkPCs, Polling
<1>4. Tables(f, {a})
  <2>1. queue' = queue /\ a.job = f.job
    BY <1>1, <1>2 DEF Still, SameBut
  <2>2. FillMoves(f, {a})
    BY <1>1, <1>3, <2>1 DEF FillMoves
  <2>3. LinkMoves(f, {a}) /\ WaitMoves(f, {a}) /\ ReadyMoves(f, {a})
    BY <1>1, <1>3, <2>1 DEF LinkMoves, LinkPCs, WaitMoves, ReadyMoves
  <2> QED
    BY <1>1, <2>2, <2>3, StillMoves DEF Tables
<1>5. f.arg # NoHandle /\ f.cur = f.arg[1]
      /\ first_dependent'[f.job] = Null /\ next_dependent'[f.job] = Null
  BY <1>1, <1>3 DEF SubmitOK, Still, slotVars
<1>6. pc = "publish" => phase[f.arg] = "done"
  <2>1. ~Settled(f.arg) /\ f.arg = Now(f.cur) /\ ~Filled(f.cur) /\ f.cur \in 1..total
    BY <1>1, <1>3, <1>5, NamedSlot
  <2> QED
    BY <1>p, <2>1 DEF JInv, SlotsOK, SlotOK, Done, Finished
<1>7. ASSUME NEW K, Acts(K, {f}, f, {a})
      PROVE  OrderOK(a)'
  <2>1. a.pc \in {"publish", "park"}
    BY <1>2 DEF SameBut
  <2> QED
    BY <1>1, <1>2, <1>3, <1>5, <1>6, <1>7, <2>1, SubmitHeir DEF SameBut
<1> QED
  BY <1>t, <1>1, <1>2, <1>3, <1>4, <1>7, BecomeKeeps DEF SameBut

LEMMA RecheckDependencyOrder ==
  ASSUME JInv, JInv', OInv, NEW t \in Threads, RecheckDependency(t)
  PROVE  OInv'
<1>t. PICK f : f = Top(t)
  OBVIOUS
<1>p. PICK pc \in {"selfpromote", "added"} : pc = IF status[f.cur] \in Done THEN "selfpromote" ELSE "added"
  OBVIOUS
<1>a. PICK a : a = [f EXCEPT !.pc = pc]
  OBVIOUS
<1>1. /\ stack[t] # <<>> /\ f.pc = "recheck" /\ Still /\ f \in Frame /\ f \in Frames
      /\ FrOK(f) /\ OrderOK(f) /\ SubmitOK(f) /\ Become(t, a)
  BY <1>t, <1>p, <1>a, TopFacts DEF RecheckDependency, At, Still, Goto
<1>2. SameBut(a, f, pc)
  BY <1>a, <1>1, Goes DEF PCs
<1>3. f.pc \in SubmitPCs /\ a.pc \in SubmitPCs \ {"fill"} /\ ~Fills(a) /\ f.pc \in ParkedPCs
      /\ a.pc \notin LinkPCs /\ f.pc \notin Polling
  BY <1>1, <1>2 DEF SameBut, SubmitPCs, FillPCs, ParkedPCs, Fills, LinkPCs, Polling
<1>4. Tables(f, {a})
  <2>1. queue' = queue /\ a.job = f.job /\ a.pc = pc
    BY <1>1, <1>2 DEF Still, SameBut
  <2>2. FillMoves(f, {a}) /\ LinkMoves(f, {a}) /\ ReadyMoves(f, {a})
    BY <1>1, <1>3, <2>1 DEF FillMoves, LinkMoves, LinkPCs, ReadyMoves
  <2>3. WaitMoves(f, {a})
    BY <1>p, <1>1, <2>1 DEF WaitMoves, ParkPCs
  <2> QED
    BY <1>1, <2>2, <2>3, StillMoves DEF Tables
<1>5. f.arg # NoHandle /\ f.cur = f.arg[1]
  BY <1>1, <1>3 DEF SubmitOK
<1>6. pc = "selfpromote" => phase[f.arg] = "done"
  <2>1. ~Settled(f.arg) /\ f.arg = Now(f.cur) /\ ~Filled(f.cur) /\ f.cur \in 1..total
    BY <1>1, <1>3, <1>5, NamedSlot
  <2> QED
    BY <1>p, <2>1 DEF JInv, SlotsOK, SlotOK, Done, Finished
<1>7. ASSUME NEW K, Acts(K, {f}, f, {a})
      PROVE  OrderOK(a)'
  <2>1. a.pc \in {"selfpromote", "added"}
    BY <1>2 DEF SameBut
  <2> QED
    BY <1>1, <1>2, <1>3, <1>5, <1>6, <1>7, <2>1, SubmitHeir DEF SameBut
<1> QED
  BY <1>t, <1>1, <1>2, <1>3, <1>4, <1>7, BecomeKeeps DEF SameBut

(* The tables of a step that stores one status.                            *)
LEMMA StatusMove ==
  ASSUME JInv, NEW f, NEW New, f.pc # "fill", NEW s \in Slots, NEW st \in Statuses, StatusOnly(s, st),
         \/ /\ s = f.job
            /\ \/ f.pc = "publish" /\ st = "not_started"
               \/ f.pc = "park" /\ st = "waiting"
               \/ f.pc = "selfpromote" /\ status[s] = "waiting" /\ st = "not_started"
               \/ f.pc \in {"inline", "claim"} /\ status[s] = "not_started" /\ st = "claimed"
               \/ f.pc = "walk" /\ status[s] = "promoting" /\ st = "completed"
               \/ f.pc = "recycle" /\ status[s] = "completed" /\ st = "free"
         \/ /\ s = f.cur /\ f.pc = "promote"
            /\ status[s] = "waiting" /\ st = "not_started"
  PROVE  StatusMoves(f) /\ SlotMoves(f, New) /\ GhostMoves(f) /\ queue' = queue
<1> USE DEF StatusOnly, poolVars, ghosts
<1>1. status' = [status EXCEPT ![s] = st] /\ status'[s] = st
      /\ \A x \in Slots : x # s => status'[x] = status[x]
  BY DEF JInv, DataOK
<1>2. StatusMoves(f)
  BY <1>1 DEF StatusMoves
<1>3. SlotMoves(f, New)
  BY DEF SlotMoves, JInv, DataOK
<1>4. GhostMoves(f)
  BY DEF GhostMoves
<1> QED
  BY <1>2, <1>3, <1>4

LEMMA PublishOrder ==
  ASSUME JInv, JInv', OInv, NEW t \in Threads, Publish(t)
  PROVE  OInv'
<1>t. PICK f : f = Top(t)
  OBVIOUS
<1>a. PICK a : a = [f EXCEPT !.pc = "added"]
  OBVIOUS
<1>b. PICK b : b = Scheduling(f)
  OBVIOUS
<1>1. /\ stack[t] # <<>> /\ f.pc = "publish" /\ StatusOnly(f.job, "not_started")
      /\ f \in Frame /\ f \in Frames /\ FrOK(f) /\ OrderOK(f) /\ SubmitOK(f) /\ f.prio \in Levels
      /\ Call(t, a, b)
  BY <1>t, <1>a, <1>b, TopFacts DEF Publish, At, StatusOnly
<1>2. SameBut(a, f, "added")
  BY <1>a, <1>1, Goes DEF PCs
<1>3. /\ b \in Frame /\ b.pc = "enqueue" /\ b.job = f.job /\ b.prio = f.prio /\ b.arg = NoHandle
  BY <1>b, <1>1, SchedulingFrame
<1>4. f.job \in Slots /\ "not_started" \in Statuses
  BY <1>1, HolderSlot DEF Holds, FillPCs, JInv, Statuses
<1>5. /\ f.pc \in SubmitPCs /\ a.pc \in SubmitPCs \ {"fill"} /\ ~Fills(a) /\ ~Fills(b)
      /\ a.pc \notin LinkPCs /\ b.pc \notin LinkPCs /\ a.job = f.job /\ a.pc = "added"
  BY <1>1, <1>2, <1>3 DEF SameBut, SubmitPCs, FillPCs, ParkedPCs, Fills, LinkPCs
<1>6. Tables(f, {a, b})
  <2>1. StatusMoves(f) /\ SlotMoves(f, {a, b}) /\ GhostMoves(f) /\ queue' = queue
    BY <1>1, <1>4, StatusMove
  <2>2. FillMoves(f, {a, b}) /\ LinkMoves(f, {a, b}) /\ WaitMoves(f, {a, b})
    BY <1>1, <1>5 DEF FillMoves, LinkMoves, LinkPCs, WaitMoves
  <2>3. ReadyMoves(f, {a, b})
    BY <1>1, <1>3, <2>1 DEF ReadyMoves, Hands
  <2> QED
    BY <2>1, <2>2, <2>3 DEF Tables
<1>7. ASSUME NEW K, Acts(K, {f}, f, {a, b})
      PROVE  OrderOK(a)'
  <2>1. status'[f.job] # "free"
    BY <1>1, <1>6 DEF Tables, StatusMoves
  <2> QED
    BY <1>1, <1>2, <1>5, <1>7, <2>1, SubmitHeir DEF SameBut
<1> QED
  BY <1>t, <1>1, <1>2, <1>3, <1>5, <1>6, <1>7, CallKeeps DEF SameBut

LEMMA ParkOrder ==
  ASSUME JInv, JInv', OInv, NEW t \in Threads, Park(t)
  PROVE  OInv'
<1>t. PICK f : f = Top(t)
  OBVIOUS
<1>a. PICK a : a = [f EXCEPT !.pc = "link"]
  OBVIOUS
<1>1. /\ stack[t] # <<>> /\ f.pc = "park" /\ StatusOnly(f.job, "waiting")
      /\ f \in Frame /\ f \in Frames /\ FrOK(f) /\ OrderOK(f) /\ SubmitOK(f)
      /\ Become(t, a)
  BY <1>t, <1>a, TopFacts DEF Park, At, StatusOnly, Goto
<1>2. SameBut(a, f, "link")
  BY <1>a, <1>1, Goes DEF PCs
<1>3. f.job \in Slots /\ "waiting" \in Statuses /\ f.arg # NoHandle
  BY <1>1, HolderSlot DEF Holds, FillPCs, JInv, Statuses, SubmitOK
<1>4. /\ f.pc \in SubmitPCs /\ a.pc \in SubmitPCs \ {"fill"} /\ ~Fills(a)
      /\ a.job = f.job /\ a.pc = "link"
  BY <1>1, <1>2 DEF SameBut, SubmitPCs, FillPCs, ParkedPCs, Fills
<1>5. Tables(f, {a})
  <2>1. StatusMoves(f) /\ SlotMoves(f, {a}) /\ GhostMoves(f) /\ queue' = queue
    BY <1>1, <1>3, StatusMove
  <2>2. FillMoves(f, {a}) /\ LinkMoves(f, {a}) /\ ReadyMoves(f, {a})
    BY <1>1, <1>4, <2>1 DEF FillMoves, LinkMoves, LinkPCs, ReadyMoves
  <2>3. WaitMoves(f, {a})
    BY <1>1, <1>4 DEF WaitMoves, ParkPCs
  <2> QED
    BY <2>1, <2>2, <2>3 DEF Tables
<1>6. ASSUME NEW K, Acts(K, {f}, f, {a})
      PROVE  OrderOK(a)'
  <2>1. status'[f.job] # "free"
    BY <1>1, <1>5 DEF Tables, StatusMoves
  <2> QED
    BY <1>1, <1>2, <1>3, <1>4, <1>6, <2>1, SubmitHeir DEF SameBut
<1> QED
  BY <1>t, <1>1, <1>2, <1>4, <1>5, <1>6, BecomeKeeps DEF SameBut

(* The head of the list that a submitter adds to.                          *)
LEMMA HeadListed ==
  ASSUME NEW K, NEW f, NEW New, Acts(K, {f}, f, New), f \in Frames, f.pc \in LinkPCs,
         NEW head, head = first_dependent[f.cur], head # Null
  PROVE  Listed(head, f.arg)'
<1> USE DEF Acts
<1>1. FrOK(f) /\ OrderOK(f) /\ SubmitOK(f) /\ f.pc \in SubmitPCs /\ f.pc \notin Polling
  BY DEF Turn, OrderOK, LinkPCs, SubmitPCs, ParkedPCs, Polling
<1>2. f.arg # NoHandle /\ f.cur = f.arg[1]
  BY <1>1 DEF SubmitOK, LinkPCs
<1>3. /\ Known(f.arg) /\ ~Settled(f.arg) /\ f.arg = Now(f.cur) /\ ~Filled(f.cur) /\ f.cur \in 1..total
      /\ status[f.cur] # "free"
  BY <1>1, <1>2, NamedSlot
<1>4. Listed(head, f.arg)
  BY <1>3 DEF OInv, JobsOK, JobOK
<1> QED
  BY <1>2, <1>3, <1>4, ListedMoves

LEMMA LinkOrder ==
  ASSUME JInv, JInv', OInv, NEW t \in Threads, Link(t)
  PROVE  OInv'
<1>t. PICK f : f = Top(t)
  OBVIOUS
<1>h. PICK head : head = first_dependent[f.cur]
  OBVIOUS
<1>a. PICK a : a = [f EXCEPT !.pc = "prepend", !.next = head]
  OBVIOUS
<1> USE DEF poolVars, ghosts
<1>1. /\ stack[t] # <<>> /\ f.pc = "link" /\ next_dependent' = [next_dependent EXCEPT ![f.job] = head]
      /\ UNCHANGED <<status, generation, function, first_dependent, priority, poolVars, queue,
                     issued, ghosts>>
      /\ f \in Frame /\ f \in Frames /\ FrOK(f) /\ OrderOK(f) /\ SubmitOK(f)
      /\ Become(t, a)
  BY <1>t, <1>h, <1>a, TopFacts DEF Link, At
<1>2. f.job \in Slots /\ f.cur \in Slots /\ head \in Slots \union {Null}
  <2>1. f.job \in Slots /\ f.cur \in Slots
    BY <1>1, WorksOn DEF FillPCs, JobLess, FrOK, FrameOK, Frame
  <2> QED
    BY <1>h, <2>1 DEF JInv, DataOK
<1>3. /\ a \in Frame /\ a.pc = "prepend" /\ a.next = head /\ a.job = f.job /\ a.own = f.own
      /\ a.arg = f.arg /\ a.prio = f.prio /\ a.cur = f.cur
  BY <1>a, <1>1, <1>2 DEF Frame, PCs
<1>4. next_dependent'[f.job] = head /\ \A x \in Slots : x # f.job => next_dependent'[x] = next_dependent[x]
  BY <1>1, <1>2 DEF JInv, DataOK
<1>5. /\ f.pc \in SubmitPCs /\ f.pc \in ParkedPCs /\ f.pc \in LinkPCs /\ a.pc \in LinkPCs
      /\ a.pc \in SubmitPCs \ {"fill"} /\ ~Fills(a)
  BY <1>1, <1>3 DEF SubmitPCs, FillPCs, ParkedPCs, Fills, LinkPCs
<1>6. Tables(f, {a})
  <2>1. StatusMoves(f) /\ GhostMoves(f)
    BY <1>1 DEF StatusMoves, GhostMoves
  <2>2. SlotMoves(f, {a})
    BY <1>1, <1>4, <1>5 DEF SlotMoves, JInv, DataOK
  <2>3. FillMoves(f, {a}) /\ LinkMoves(f, {a}) /\ ReadyMoves(f, {a})
    BY <1>1, <1>3, <1>5 DEF FillMoves, LinkMoves, ReadyMoves
  <2>4. WaitMoves(f, {a})
    BY <1>1, <1>3 DEF WaitMoves, ParkPCs
  <2> QED
    BY <2>1, <2>2, <2>3, <2>4 DEF Tables
<1>7. ASSUME NEW K, Acts(K, {f}, f, {a})
      PROVE  OrderOK(a)'
  <2>1. f.arg # NoHandle
    BY <1>1 DEF SubmitOK
  <2>2. head # Null => Listed(head, f.arg)'
    BY <1>1, <1>h, <1>5, <1>7, HeadListed
  <2> QED
    BY <1>1, <1>3, <1>4, <1>5, <1>7, <2>1, <2>2, SubmitHeir
<1> QED
  BY <1>t, <1>1, <1>3, <1>5, <1>6, <1>7, BecomeKeeps

LEMMA PrependOrder ==
  ASSUME JInv, JInv', OInv, NEW t \in Threads, Prepend(t)
  PROVE  OInv'
<1>t. PICK f : f = Top(t)
  OBVIOUS
<1>h. PICK head : head = first_dependent[f.cur]
  OBVIOUS
<1> USE DEF poolVars, ghosts
<1>1. /\ stack[t] # <<>> /\ f.pc = "prepend"
      /\ UNCHANGED <<status, generation, function, priority, poolVars, queue, issued, ghosts>>
      /\ f \in Frame /\ f \in Frames /\ FrOK(f) /\ OrderOK(f) /\ SubmitOK(f)
  BY <1>t, TopFacts DEF Prepend, At
<1>2. f.job \in Slots /\ f.cur \in Slots /\ head \in Slots \union {Null} /\ f.arg # NoHandle
  <2>1. f.job \in Slots /\ f.cur \in Slots /\ f.arg # NoHandle
    BY <1>1, WorksOn DEF FillPCs, JobLess, FrOK, FrameOK, Frame, SubmitOK
  <2> QED
    BY <1>h, <2>1 DEF JInv, DataOK
<1>3. f.pc \in SubmitPCs /\ f.pc \in ParkedPCs /\ f.pc \in LinkPCs
  BY <1>1 DEF SubmitPCs, ParkedPCs, LinkPCs
<1>4. StatusMoves(f) /\ GhostMoves(f)
  BY <1>1 DEF StatusMoves, GhostMoves
<1>5. CASE head = f.next
  <2>a. PICK a : a = [f EXCEPT !.pc = "recheck"]
    OBVIOUS
  <2>1. /\ first_dependent' = [first_dependent EXCEPT ![f.cur] = f.job]
        /\ next_dependent' = next_dependent /\ Become(t, a)
    BY <1>t, <1>h, <1>5, <2>a DEF Prepend, Goto
  <2>2. SameBut(a, f, "recheck")
    BY <1>1, <2>a, Goes DEF PCs
  <2>3. /\ a \in Frame /\ a.job = f.job /\ a.pc = "recheck" /\ a.pc \in SubmitPCs \ {"fill"}
        /\ a.pc \notin LinkPCs /\ ~Fills(a) /\ a.arg = f.arg
    BY <2>2 DEF SameBut, SubmitPCs, ParkedPCs, FillPCs, Fills, LinkPCs
  <2>4. first_dependent'[f.cur] = f.job
        /\ \A x \in Slots : x # f.cur => first_dependent'[x] = first_dependent[x]
    BY <1>2, <2>1 DEF JInv, DataOK
  <2>5. Tables(f, {a})
    <3>1. SlotMoves(f, {a})
      <4>1. first_dependent[f.cur] = f.next /\ \A g \in {a} : g.pc \notin LinkPCs
        BY <1>h, <1>5, <2>3
      <4>2. /\ total' = total /\ generation' = generation /\ priority' = priority /\ total \in Nat
            /\ next_dependent' = next_dependent
        BY <1>1, <2>1 DEF JInv, DataOK
      <4> QED
        BY <1>1, <2>4, <4>1, <4>2 DEF SlotMoves
    <3>2. FillMoves(f, {a}) /\ ReadyMoves(f, {a})
      BY <1>1, <2>3 DEF FillMoves, ReadyMoves
    <3>3. LinkMoves(f, {a})
      BY <1>1, <1>h, <1>5, <2>1, <2>3, <2>4 DEF LinkMoves
    <3>4. WaitMoves(f, {a})
      BY <1>1, <2>3 DEF WaitMoves, ParkPCs
    <3> QED
      BY <1>4, <3>1, <3>2, <3>3, <3>4 DEF Tables
  <2>6. ASSUME NEW K, Acts(K, {f}, f, {a})
        PROVE  OrderOK(a)'
    <3>1. next_dependent' \in [Slots -> Slots \union {Null}]
      BY DEF JInv, DataOK
    <3>2. f.job \in ChainIn(next_dependent', first_dependent'[f.cur])
      BY <1>2, <2>4, <3>1, ChainBasics
    <3> QED
      BY <1>1, <1>2, <1>3, <2>2, <2>3, <2>6, <3>2, SubmitHeir DEF SameBut
  <2> QED
    BY <1>t, <1>1, <1>3, <2>1, <2>3, <2>5, <2>6, BecomeKeeps
<1>6. CASE head # f.next
  <2>a. PICK a : a = [f EXCEPT !.next = head]
    OBVIOUS
  <2>1. /\ next_dependent' = [next_dependent EXCEPT ![f.job] = head]
        /\ first_dependent' = first_dependent /\ Become(t, a)
    BY <1>t, <1>h, <1>6, <2>a DEF Prepend
  <2>2. /\ a \in Frame /\ a.pc = "prepend" /\ a.next = head /\ a.job = f.job /\ a.own = f.own
        /\ a.arg = f.arg /\ a.prio = f.prio /\ a.cur = f.cur
    BY <2>a, <1>1, <1>2 DEF Frame
  <2>3. a.pc \in SubmitPCs \ {"fill"} /\ a.pc \in LinkPCs /\ ~Fills(a)
    BY <2>2 DEF SubmitPCs, ParkedPCs, FillPCs, Fills, LinkPCs
  <2>4. next_dependent'[f.job] = head
        /\ \A x \in Slots : x # f.job => next_dependent'[x] = next_dependent[x]
    BY <1>2, <2>1 DEF JInv, DataOK
  <2>5. Tables(f, {a})
    <3>1. SlotMoves(f, {a})
      BY <1>1, <1>3, <2>1, <2>4 DEF SlotMoves, JInv, DataOK
    <3>2. FillMoves(f, {a}) /\ LinkMoves(f, {a}) /\ ReadyMoves(f, {a})
      BY <1>1, <1>3, <2>2, <2>3 DEF FillMoves, LinkMoves, ReadyMoves
    <3>3. WaitMoves(f, {a})
      BY <1>1, <2>2 DEF WaitMoves, ParkPCs
    <3> QED
      BY <1>4, <3>1, <3>2, <3>3 DEF Tables
  <2>6. ASSUME NEW K, Acts(K, {f}, f, {a})
        PROVE  OrderOK(a)'
    <3>1. head # Null => Listed(head, f.arg)'
      BY <1>1, <1>h, <1>3, <2>6, HeadListed
    <3> QED
      BY <1>1, <1>2, <1>3, <2>2, <2>3, <2>4, <2>6, <3>1, SubmitHeir
  <2> QED
    BY <1>t, <1>1, <1>3, <2>1, <2>2, <2>5, <2>6, BecomeKeeps
<1> QED
  BY <1>5, <1>6

LEMMA SelfPromoteOrder ==
  ASSUME JInv, JInv', OInv, NEW t \in Threads, SelfPromote(t)
  PROVE  OInv'
<1>t. PICK f : f = Top(t)
  OBVIOUS
<1>a. PICK a : a = [f EXCEPT !.pc = "added"]
  OBVIOUS
<1>b. PICK b : b = Scheduling(f)
  OBVIOUS
<1>1. /\ stack[t] # <<>> /\ f.pc = "selfpromote"
      /\ f \in Frame /\ f \in Frames /\ FrOK(f) /\ OrderOK(f) /\ SubmitOK(f) /\ f.prio \in Levels
  BY <1>t, TopFacts DEF SelfPromote, At
<1>2. SameBut(a, f, "added")
  BY <1>a, <1>1, Goes DEF PCs
<1>3. /\ b \in Frame /\ b.pc = "enqueue" /\ b.job = f.job /\ b.prio = f.prio /\ b.arg = NoHandle
  BY <1>b, <1>1, SchedulingFrame
<1>4. f.job \in Slots /\ "not_started" \in Statuses
  BY <1>1, WorksOn DEF FillPCs, JobLess, Statuses
<1>5. /\ f.pc \in SubmitPCs /\ f.pc \in ParkedPCs /\ a.pc \in SubmitPCs \ {"fill"} /\ ~Fills(a) /\ ~Fills(b)
      /\ a.pc \notin LinkPCs /\ b.pc \notin LinkPCs /\ a.job = f.job /\ a.pc = "added" /\ a \in Frame
      /\ a.arg = f.arg
  BY <1>1, <1>2, <1>3 DEF SameBut, SubmitPCs, FillPCs, ParkedPCs, Fills, LinkPCs
<1>6. ASSUME NEW K, NEW New, Acts(K, {f}, f, New)
      PROVE  OrderOK(a)'
  BY <1>1, <1>2, <1>5, <1>6, SubmitHeir DEF SameBut
<1>7. CASE status[f.job] = "waiting"
  <2>1. StatusOnly(f.job, "not_started") /\ Call(t, a, b)
    BY <1>t, <1>a, <1>b, <1>7 DEF SelfPromote, StatusOnly
  <2>2. Tables(f, {a, b})
    <3>1. StatusMoves(f) /\ SlotMoves(f, {a, b}) /\ GhostMoves(f) /\ queue' = queue
      BY <1>1, <1>4, <1>7, <2>1, StatusMove
    <3>2. FillMoves(f, {a, b}) /\ LinkMoves(f, {a, b}) /\ WaitMoves(f, {a, b})
      BY <1>1, <1>5 DEF FillMoves, LinkMoves, LinkPCs, WaitMoves
    <3>3. ReadyMoves(f, {a, b})
      BY <1>1, <1>3, <3>1 DEF ReadyMoves, Hands
    <3> QED
      BY <3>1, <3>2, <3>3 DEF Tables
  <2> QED
    BY <1>t, <1>1, <1>3, <1>5, <1>6, <2>1, <2>2, CallKeeps
<1>8. CASE status[f.job] # "waiting"
  <2>1. Still /\ Become(t, a)
    BY <1>t, <1>a, <1>8 DEF SelfPromote, Goto, Still, slotVars
  <2>2. Tables(f, {a})
    <3>1. queue' = queue /\ status' = status
      BY <2>1 DEF Still, slotVars
    <3>2. FillMoves(f, {a}) /\ LinkMoves(f, {a}) /\ WaitMoves(f, {a}) /\ ReadyMoves(f, {a})
      BY <1>1, <1>5, <3>1 DEF FillMoves, LinkMoves, LinkPCs, WaitMoves, ReadyMoves
    <3> QED
      BY <1>1, <1>8, <2>1, <3>2, StillMoves DEF Tables
  <2> QED
    BY <1>t, <1>1, <1>5, <1>6, <2>1, <2>2, BecomeKeeps
<1> QED
  BY <1>7, <1>8

LEMMA ReturnHandleOrder ==
  ASSUME JInv, JInv', OInv, NEW t \in Threads, ReturnHandle(t)
  PROVE  OInv'
<1>t. PICK f : f = Top(t)
  OBVIOUS
<1> USE DEF slotVars, poolVars, ghosts
<1>1. /\ stack[t] # <<>> /\ f.pc = "added" /\ Return(t) /\ issued' = issued \union {f.own}
      /\ UNCHANGED <<slotVars, poolVars, queue, ghosts>>
  BY <1>t, TopFacts DEF ReturnHandle, At
<1>2. StatusMoves(f) /\ GhostMoves(f)
  BY <1>1 DEF StatusMoves, GhostMoves
<1>3. SlotMoves(f, {})
  BY <1>1 DEF SlotMoves, JInv, DataOK
<1>4. FillMoves(f, {}) /\ LinkMoves(f, {}) /\ WaitMoves(f, {}) /\ ReadyMoves(f, {})
  BY <1>1, PlainMoves DEF PlainPCs
<1> QED
  BY <1>t, <1>1, <1>2, <1>3, <1>4, ReturnKeeps DEF Tables

LEMMA FillOrder ==
  ASSUME JInv, JInv', OInv, NEW t \in Threads, Fill(t)
  PROVE  OInv'
<1>t. PICK f : f = Top(t)
  OBVIOUS
<1>p. PICK pc \in {"publish", "depstatus"} : pc = IF f.cur = Null THEN "publish" ELSE "depstatus"
  OBVIOUS
<1>a. PICK a : a = [f EXCEPT !.pc = pc]
  OBVIOUS
<1>0. /\ first_dependent' = [first_dependent EXCEPT ![f.job] = Null]
      /\ next_dependent' = [next_dependent EXCEPT ![f.job] = Null]
      /\ priority' = [priority EXCEPT ![f.job] = f.prio]
      /\ phase' = [phase EXCEPT ![f.own] = "pending"]
      /\ dep' = [dep EXCEPT ![f.own] = f.arg]
      /\ UNCHANGED <<status, generation, freeList, total, queue, issued>>
  BY <1>t DEF Fill, poolVars
<1>1. /\ stack[t] # <<>> /\ f.pc = "fill" /\ Become(t, a)
      /\ f \in Frame /\ f \in Frames /\ FrOK(f) /\ OrderOK(f) /\ SubmitOK(f)
      /\ f.prio \in Levels /\ (f.arg # NoHandle => Known(f.arg))
  BY <1>t, <1>p, <1>a, TopFacts DEF Fill, At, Goto
<1>2. SameBut(a, f, pc)
  BY <1>a, <1>1, Goes DEF PCs
<1>3. /\ f.pc \in SubmitPCs /\ a.pc \in SubmitPCs /\ a.pc \notin LinkPCs /\ Fills(a) /\ a.job = f.job
      /\ a.pc \notin Polling /\ f.pc \notin Polling /\ a.pc = pc /\ a.arg = f.arg /\ a.own = f.own
      /\ a.cur = f.cur /\ a.prio = f.prio
  BY <1>1, <1>2 DEF SameBut, SubmitPCs, FillPCs, LinkPCs, Fills, Polling
<1>4. f.job \in Slots /\ f.own = Now(f.job) /\ f.own \in Handles
  BY <1>1, HolderSlot DEF Holds, FillPCs, FrOK, HolderOK, JInv
<1>5. /\ first_dependent'[f.job] = Null /\ next_dependent'[f.job] = Null /\ priority'[f.job] = f.prio
      /\ \A x \in Slots : x # f.job => /\ first_dependent'[x] = first_dependent[x]
                                       /\ next_dependent'[x] = next_dependent[x]
                                       /\ priority'[x] = priority[x]
      /\ phase'[f.own] = "pending" /\ dep'[f.own] = f.arg
      /\ \A h \in Handles : h # f.own => phase'[h] = phase[h] /\ dep'[h] = dep[h]
  BY <1>0, <1>4 DEF JInv, DataOK
<1>6. Tables(f, {a})
  <2>1. StatusMoves(f)
    BY <1>0, <1>1 DEF StatusMoves
  <2>2. SlotMoves(f, {a})
    BY <1>0, <1>1, <1>5 DEF SlotMoves, JInv, DataOK
  <2>3. GhostMoves(f)
    BY <1>0, <1>1, <1>5 DEF GhostMoves
  <2>4. FillMoves(f, {a}) /\ LinkMoves(f, {a}) /\ WaitMoves(f, {a}) /\ ReadyMoves(f, {a})
    BY <1>0, <1>1, <1>3 DEF FillMoves, LinkMoves, LinkPCs, WaitMoves, ReadyMoves
  <2> QED
    BY <2>1, <2>2, <2>3, <2>4 DEF Tables
<1>7. ASSUME NEW K, Acts(K, {f}, f, {a})
      PROVE  OrderOK(a)'
  <2>1. NameOK(a)'
    BY <1>3, <1>7, HeirNamed
  <2>2. f.own = Now(f.job)' /\ f.own \notin issued' /\ f.cur = IF f.arg = NoHandle THEN Null ELSE f.arg[1]
    BY <1>0, <1>1, <1>3, <1>4 DEF Now, SubmitOK
  <2>3. f.arg # NoHandle => f.arg[1] # Null
    BY <1>1 DEF Known, Null
  <2>4. (pc = "depstatus" => f.arg # NoHandle) /\ (pc = "publish" => f.arg = NoHandle)
    BY <1>p, <2>2, <2>3
  <2>5. SubmitOK(a)'
    BY <1>3, <1>5, <2>2, <2>4 DEF SubmitOK, SubmitPCs, FillPCs, ParkedPCs
  <2>6. ReapOK(a)' /\ SetOK(a)' /\ WalkOK(a)'
    BY <1>3 DEF ReapOK, SetOK, WalkOK, SetPCs
  <2> QED
    BY <1>1, <1>3, <2>1, <2>5, <2>6 DEF OrderOK
<1> QED
  BY <1>t, <1>1, <1>2, <1>3, <1>6, <1>7, BecomeKeeps DEF SameBut

LEMMA AllocateOrder ==
  ASSUME JInv, JInv', OInv, NEW t \in Threads, Allocate(t)
  PROVE  OInv'
<1>t. PICK f : f = Top(t)
  OBVIOUS
<1>s. PICK s : s = IF freeList # <<>> THEN Head(freeList) ELSE total + 1
  OBVIOUS
<1>g. PICK g : g = generation[s] + 1
  OBVIOUS
<1>a. PICK a : a = [f EXCEPT !.pc = "fill", !.job = s, !.own = <<s, g>>]
  OBVIOUS
<1>1. /\ stack[t] # <<>> /\ f.pc = "alloc" /\ Become(t, a)
      /\ f \in Frame /\ f \in Frames /\ FrOK(f) /\ OrderOK(f) /\ SubmitOK(f) /\ f.prio \in Levels
      /\ t \in Allocating
      /\ generation' = [generation EXCEPT ![s] = g]
      /\ \/ freeList # <<>> /\ total' = total
         \/ freeList = <<>> /\ total' = total + 1
      /\ UNCHANGED <<status, first_dependent, next_dependent, priority, queue, issued, phase, dep>>
  BY <1>t, <1>s, <1>g, <1>a, TopFacts, TopFrame DEF Allocate, At, AllocPCs, ghosts
<1>2. /\ total \in Nat /\ total + 1 <= MaxJobs /\ MaxJobs \in Nat /\ 1..total \subseteq Slots
      /\ \A x \in Slots : generation[x] \in Nat /\ generation[x] + 1 <= MaxJobs
  BY <1>1, Bounds DEF JInv
<1>3. /\ s \in Slots
      /\ \/ s \in 1..total /\ status[s] = "free" /\ total' = total
         \/ s = total + 1 /\ total' = total + 1
      /\ \A x \in Frames : Holds(x) => x.job # s
  <2>1. CASE freeList # <<>>
    <3>1. /\ freeList \in Seq(Slots) /\ s = freeList[1] /\ 1 \in 1..Len(freeList)
      BY <1>s, <2>1, EmptySeq, LenProperties DEF JInv, DataOK
    <3>2. s \in 1..total /\ status[s] = "free"
      BY <3>1 DEF JInv, FreeOK
    <3>3. ASSUME NEW x \in Frames, Holds(x)
          PROVE  x.job # s
      BY <3>1, <3>3, FramePosition DEF JInv, FreeOK
    <3> QED
      BY <1>1, <1>2, <2>1, <3>2, <3>3
  <2>2. CASE freeList = <<>>
    <3>1. s = total + 1 /\ s \in Slots
      BY <1>s, <1>2, <2>2 DEF Slots
    <3>2. ASSUME NEW x \in Frames, Holds(x)
          PROVE  x.job # s
      <4>1. x.job \in 1..total
        BY <3>2, FramePosition, HolderSlot DEF JInv
      <4> QED
        BY <1>2, <3>1, <4>1
    <3> QED
      BY <1>1, <2>2, <3>1, <3>2
  <2> QED
    BY <2>1, <2>2
<1>4. /\ g \in 1..MaxJobs /\ generation'[s] = g /\ g = generation[s] + 1 /\ generation[s] \in Nat
      /\ \A x \in Slots : x # s => generation'[x] = generation[x]
      /\ <<s, g>> \in Handles
  BY <1>1, <1>2, <1>3, <1>g DEF JInv, DataOK, Handles
<1>5. /\ a \in Frame /\ a.pc = "fill" /\ a.job = s /\ a.own = <<s, g>> /\ a.arg = f.arg
      /\ a.cur = f.cur /\ a.prio = f.prio /\ Fills(a) /\ a.pc \notin LinkPCs /\ a.pc \in SubmitPCs
      /\ a.pc \notin Polling /\ f.pc \notin Polling
  BY <1>a, <1>1, <1>3, <1>4 DEF Frame, PCs, Fills, FillPCs, LinkPCs, SubmitPCs, Polling
<1>6. ASSUME NEW x \in Frames, x.pc \in SubmitPCs
      PROVE  x.job # s
  <2>1. x \in Frame /\ FrOK(x) /\ SubmitOK(x)
    BY FramePosition DEF OInv, FramesOrdered, OrderOK
  <2>2. CASE x.pc \in FillPCs
    BY <1>3, <2>2 DEF Holds
  <2>3. CASE x.pc \in ParkedPCs
    <3>1. status[x.job] # "free" /\ Born(x.job)
      BY <2>1, <2>3, WorksOn DEF SubmitOK, ParkedPCs, FillPCs, JobLess
    <3> QED
      BY <1>2, <1>3, <3>1 DEF Born
  <2> QED
    BY <1>6, <2>2, <2>3 DEF SubmitPCs
<1>7. Tables(f, {a})
  <2>1. StatusMoves(f) /\ GhostMoves(f)
    BY <1>1 DEF StatusMoves, GhostMoves
  <2>2. SlotMoves(f, {a})
    <3>1. total' >= total /\ \A x \in 1..total' : x \in 1..total \/ x = s
      BY <1>2, <1>3
    <3>2. s \in 1..total => status[s] = "free"
      BY <1>2, <1>3
    <3> QED
      BY <1>1, <1>3, <1>4, <1>5, <3>1, <3>2 DEF SlotMoves
  <2>3. FillMoves(f, {a})
    BY <1>1, <1>3, <1>4, <1>5 DEF FillMoves
  <2>4. LinkMoves(f, {a}) /\ WaitMoves(f, {a}) /\ ReadyMoves(f, {a})
    BY <1>1, <1>5 DEF LinkMoves, LinkPCs, WaitMoves, ReadyMoves
  <2> QED
    BY <2>1, <2>2, <2>3, <2>4 DEF Tables
<1>8. ASSUME NEW K, Acts(K, {f}, f, {a})
      PROVE  OrderOK(a)'
  <2>1. NameOK(a)'
    BY <1>5, <1>8, HeirNamed
  <2>2. a.own = Now(a.job)' /\ a.own \notin issued'
    <3>1. ~Known(<<s, g>>)
      BY <1>4 DEF Known
    <3> QED
      BY <1>1, <1>4, <1>5, <3>1 DEF Now, JInv, RefsOK
  <2>3. a.cur = IF a.arg = NoHandle THEN Null ELSE a.arg[1]
    BY <1>1, <1>5 DEF SubmitOK
  <2>n. phase'[a.own] = "none"
    BY <1>1, <1>3, <1>4, <1>5 DEF OInv, NewNone
  <2>4. SubmitOK(a)'
    BY <1>5, <2>2, <2>3, <2>n DEF SubmitOK, SubmitPCs, FillPCs, ParkedPCs
  <2>5. ReapOK(a)' /\ SetOK(a)' /\ WalkOK(a)'
    BY <1>5 DEF ReapOK, SetOK, WalkOK, SetPCs
  <2> QED
    BY <1>1, <1>5, <2>1, <2>4, <2>5 DEF OrderOK
<1>9. PICK K : Turn(K, {f}, f, {a}) /\ (Inherits(K, f, a) => NamesApart' /\ OwnersApart')
  BY <1>t, <1>1, <1>5, BecomeTurn
<1>10. Inherits(K, f, a)
  BY <1>5, <1>6, <1>9 DEF Inherits, Turn
<1>11. Moves(K, {f}, f, {a}) /\ Acts(K, {f}, f, {a})
  BY <1>7, <1>9, <1>10 DEF Moves, Tables, Acts
<1>12. \A x \in {a} : OrderOK(x)'
  BY <1>8, <1>11
<1> QED
  BY <1>11, <1>12, TurnKeeps

-----------------------------------------------------------------------------
(* schedule_job, schedule_job_with_priority.                               *)

LEMMA LoadPriorityOrder ==
  ASSUME JInv, JInv', OInv, NEW t \in Threads, LoadPriority(t)
  PROVE  OInv'
<1>t. PICK f : f = Top(t)
  OBVIOUS
<1>a. PICK a : a = [f EXCEPT !.pc = "enqueue", !.prio = priority[f.job]]
  OBVIOUS
<1>1. /\ stack[t] # <<>> /\ f.pc = "loadprio" /\ Still /\ Become(t, a) /\ f \in Frame /\ FrOK(f)
      /\ queue' = queue
  BY <1>t, <1>a, TopFacts DEF LoadPriority, At, Still
<1>2. f.job \in Slots /\ priority[f.job] \in Levels /\ priority[f.job] \in Nat
  <2>1. f.job \in Slots
    BY <1>1, WorksOn DEF FillPCs, JobLess
  <2> QED
    BY <2>1 DEF OInv, LevelsOK, JInv, DataOK
<1>3. /\ a \in Frame /\ a.pc = "enqueue" /\ a.job = f.job /\ a.arg = f.arg /\ a.prio = priority[f.job]
  BY <1>a, <1>1, <1>2 DEF Frame, PCs
<1>4. a.pc \notin SubmitPCs /\ a.pc \notin LinkPCs /\ ~Fills(a) /\ a.pc \notin BusyPCs
      /\ a.pc \notin Polling /\ f.pc \notin Polling
  BY <1>1, <1>3 DEF SubmitPCs, ParkedPCs, FillPCs, LinkPCs, Fills, BusyPCs, SetPCs, Polling
<1>5. Tables(f, {a})
  <2>1. FillMoves(f, {a}) /\ LinkMoves(f, {a}) /\ WaitMoves(f, {a}) /\ ReadyMoves(f, {a})
    BY <1>1, <1>3, <1>4 DEF FillMoves, LinkMoves, LinkPCs, WaitMoves, ReadyMoves, Hands
  <2> QED
    BY <1>1, <2>1, StillMoves DEF Tables
<1>6. ASSUME NEW K, Acts(K, {f}, f, {a})
      PROVE  OrderOK(a)'
  BY <1>2, <1>3, <1>4, <1>6, HeirNamed, PlainOrder
<1> QED
  BY <1>t, <1>1, <1>3, <1>4, <1>5, <1>6, BecomeKeeps

LEMMA EnqueueOrder ==
  ASSUME JInv, JInv', OInv, NEW t \in Threads, Enqueue(t)
  PROVE  OInv'
<1>t. PICK f : f = Top(t)
  OBVIOUS
<1>a. PICK a : a = [f EXCEPT !.pc = "inline"]
  OBVIOUS
<1>1. /\ stack[t] # <<>> /\ f.pc = "enqueue" /\ f \in Frame /\ FrOK(f) /\ OrderOK(f) /\ f.prio \in Levels
  BY <1>t, TopFacts DEF Enqueue, At
<1>p. QueueOf(f.prio) = f.prio
  BY <1>1 DEF QueueOf
<1>2. CASE queue' = [queue EXCEPT ![f.prio] = Append(@, f.job)] /\ Return(t)
  <2> USE DEF slotVars, poolVars, ghosts
  <2>1. UNCHANGED <<slotVars, poolVars, issued, ghosts>>
    BY DEF Enqueue
  <2>2. f.job \in Slots
    BY <1>1, WorksOn DEF FillPCs, JobLess
  <2>3. /\ Len(queue[f.prio]) \in Nat
        /\ Len(Append(queue[f.prio], f.job)) = Len(queue[f.prio]) + 1
        /\ \A i \in 1..Len(queue[f.prio]) : Append(queue[f.prio], f.job)[i] = queue[f.prio][i]
        /\ Append(queue[f.prio], f.job)[Len(queue[f.prio]) + 1] = f.job
    BY <1>1, <2>2, AppendProperties, LenProperties DEF JInv, DataOK
  <2>4. /\ queue'[f.prio] = Append(queue[f.prio], f.job)
        /\ \A p \in Levels : p # f.prio => queue'[p] = queue[p]
    BY <1>1, <1>2 DEF JInv, DataOK
  <2>5. InQueue(queue'[f.prio], f.job)
    BY <2>3, <2>4 DEF InQueue
  <2>6. \A p \in Levels, s \in Slots : InQueue(queue[p], s) => InQueue(queue'[p], s)
    BY <2>3, <2>4 DEF InQueue
  <2>7. ReadyMoves(f, {})
    BY <1>1, <2>5, <2>6 DEF ReadyMoves
  <2>8. StatusMoves(f) /\ GhostMoves(f) /\ SlotMoves(f, {})
    BY <1>1, <2>1 DEF StatusMoves, GhostMoves, SlotMoves, JInv, DataOK
  <2>9. FillMoves(f, {}) /\ LinkMoves(f, {}) /\ WaitMoves(f, {})
    BY <1>1 DEF FillMoves, LinkMoves, LinkPCs, WaitMoves
  <2> QED
    BY <1>t, <1>1, <1>2, <2>7, <2>8, <2>9, ReturnKeeps DEF Tables
<1>3. CASE Goto(t, "inline") /\ queue' = queue
  <2>1. Still /\ Become(t, a)
    BY <1>t, <1>a, <1>3 DEF Enqueue, Still, Goto
  <2>2. SameBut(a, f, "inline")
    BY <1>1, <1>a, Goes DEF PCs
  <2>3. /\ a \in Frame /\ a.pc = "inline" /\ a.job = f.job /\ a.arg = f.arg /\ a.prio = f.prio
        /\ a.pc \notin SubmitPCs /\ a.pc \notin LinkPCs /\ ~Fills(a) /\ a.pc \notin BusyPCs
        /\ a.pc \notin Polling /\ f.pc \notin Polling
    BY <1>1, <2>2 DEF SameBut, SubmitPCs, ParkedPCs, FillPCs, LinkPCs, Fills, BusyPCs, SetPCs, Polling
  <2>4. Tables(f, {a})
    <3>1. FillMoves(f, {a}) /\ LinkMoves(f, {a}) /\ WaitMoves(f, {a}) /\ ReadyMoves(f, {a})
      BY <1>1, <1>3, <2>3 DEF FillMoves, LinkMoves, LinkPCs, WaitMoves, ReadyMoves
    <3> QED
      BY <1>1, <2>1, <3>1, StillMoves DEF Tables
  <2>5. ASSUME NEW K, Acts(K, {f}, f, {a})
        PROVE  OrderOK(a)'
    BY <1>1, <2>3, <2>5, HeirNamed, PlainOrder
  <2> QED
    BY <1>t, <1>1, <2>1, <2>3, <2>4, <2>5, BecomeKeeps
<1> QED
  BY <1>t, <1>p, <1>2, <1>3 DEF Enqueue

(* A frame that goes on in a call with nothing to remember.                *)
LEMMA PlainGoto ==
  ASSUME JInv, JInv', OInv, NEW t \in Threads, stack[t] # <<>>, NEW f, f = Top(t), NEW a \in Frame,
         Become(t, a), a.arg = f.arg, a.prio \in Levels, a.pc \in Polling <=> f.pc \in Polling,
         a.pc \notin BusyPCs, Tables(f, {a})
  PROVE  OInv'
<1>1. ASSUME NEW K, Acts(K, {f}, f, {a})
      PROVE  OrderOK(a)'
  BY <1>1, HeirNamed, PlainOrder
<1>2. a.pc \notin SubmitPCs
  BY DEF BusyPCs
<1> QED
  BY <1>1, <1>2, BecomeKeeps

(* A call that ends without having changed anything.                       *)
LEMMA PlainReturn ==
  ASSUME JInv, JInv', OInv, NEW t \in Threads, stack[t] # <<>>, NEW f, f = Top(t), Return(t), Still,
         f.pc \in PlainPCs, f.pc \in {"inline", "claim"} => status[f.job] # "not_started"
  PROVE  OInv'
<1>1. queue' = queue /\ \A g \in {} : ~Fills(g) /\ g.pc \notin LinkPCs
  BY DEF Still
<1>2. FillMoves(f, {}) /\ LinkMoves(f, {}) /\ WaitMoves(f, {}) /\ ReadyMoves(f, {})
  BY <1>1, PlainMoves
<1>3. StatusMoves(f) /\ SlotMoves(f, {}) /\ GhostMoves(f)
  BY StillMoves DEF PlainPCs
<1> QED
  BY <1>2, <1>3, ReturnKeeps DEF Tables

LEMMA ClaimInlineOrder ==
  ASSUME JInv, JInv', OInv, NEW t \in Threads, ClaimInline(t)
  PROVE  OInv'
<1>t. PICK f : f = Top(t)
  OBVIOUS
<1>a. PICK a : a = [f EXCEPT !.pc = "begin"]
  OBVIOUS
<1>1. /\ stack[t] # <<>> /\ f.pc = "inline" /\ f \in Frame /\ FrOK(f) /\ f.prio \in Levels
      /\ f.pc \in PlainPCs
  BY <1>t, TopFacts DEF ClaimInline, At, PlainPCs
<1>2. f.job \in Slots /\ "claimed" \in Statuses
  BY <1>1, WorksOn DEF FillPCs, JobLess, Statuses
<1>3. SameBut(a, f, "begin")
  BY <1>1, <1>a, Goes DEF PCs
<1>4. /\ a \in Frame /\ a.arg = f.arg /\ a.prio = f.prio
      /\ a.pc \notin LinkPCs /\ ~Fills(a) /\ a.pc \notin BusyPCs /\ a.pc \notin Polling /\ f.pc \notin Polling
  BY <1>1, <1>3 DEF SameBut, SubmitPCs, ParkedPCs, FillPCs, LinkPCs, Fills, BusyPCs, SetPCs, Polling
<1>5. CASE ClaimStatus(f.job) /\ Goto(t, "begin")
  <2>1. StatusOnly(f.job, "claimed") /\ status[f.job] = "not_started" /\ Become(t, a)
    BY <1>t, <1>a, <1>5 DEF ClaimInline, ClaimStatus, StatusOnly, Goto
  <2>2. StatusMoves(f) /\ SlotMoves(f, {a}) /\ GhostMoves(f) /\ queue' = queue
    BY <1>1, <1>2, <2>1, StatusMove
  <2>3. Tables(f, {a})
    BY <1>1, <1>4, <2>2, PlainMoves DEF Tables
  <2> QED
    BY <1>t, <1>1, <1>4, <2>1, <2>3, PlainGoto
<1>6. CASE status[f.job] # "not_started" /\ Return(t) /\ UNCHANGED status
  <2>1. Still
    BY <1>6 DEF ClaimInline, Still, slotVars
  <2> QED
    BY <1>t, <1>1, <1>6, <2>1, PlainReturn
<1> QED
  BY <1>t, <1>5, <1>6 DEF ClaimInline

-----------------------------------------------------------------------------
(* try_dequeue_prioritized.                                                *)

LEMMA StartScanOrder ==
  ASSUME JInv, JInv', OInv, NEW t \in Threads, StartScan(t)
  PROVE  OInv'
<1>a. PICK a : a = [Blank EXCEPT !.pc = "scan", !.prio = High]
  OBVIOUS
<1>1. Enter(t, a) /\ Still /\ queue' = queue /\ Blank.pc \in PlainPCs /\ Blank.pc = "scan"
  BY <1>a, BlankFrame DEF StartScan, Still, PlainPCs
<1>2. High \in Levels /\ High \in Nat
  BY ConstantsOK DEF High, Levels
<1>3. /\ a \in Frame /\ a.arg = NoHandle /\ a.prio \in Levels
      /\ a.pc \notin LinkPCs /\ ~Fills(a) /\ a.pc \notin BusyPCs /\ a.pc \notin SubmitPCs
  BY <1>a, <1>2, BlankFrame
     DEF Frame, PCs, SubmitPCs, ParkedPCs, FillPCs, LinkPCs, Fills, BusyPCs, SetPCs
<1>4. Tables(Blank, {a})
  <2>1. FillMoves(Blank, {a}) /\ LinkMoves(Blank, {a}) /\ WaitMoves(Blank, {a}) /\ ReadyMoves(Blank, {a})
    BY <1>1, <1>3, PlainMoves
  <2>2. StatusMoves(Blank) /\ SlotMoves(Blank, {a}) /\ GhostMoves(Blank)
    BY <1>1, StillMoves
  <2> QED
    BY <2>1, <2>2 DEF Tables
<1>5. OrderOK(a)'
  BY <1>3, NamelessOrder
<1> QED
  BY <1>1, <1>3, <1>4, <1>5, EnterKeeps

LEMMA ScanOrder ==
  ASSUME JInv, JInv', OInv, NEW t \in Threads, Scan(t)
  PROVE  OInv'
<1>t. PICK f : f = Top(t)
  OBVIOUS
<1>p. PICK p : p = f.prio
  OBVIOUS
<1> USE DEF slotVars, poolVars, ghosts
<1>1. /\ stack[t] # <<>> /\ f.pc = "scan" /\ f \in Frame /\ FrOK(f) /\ p \in Levels
      /\ UNCHANGED <<slotVars, poolVars, issued, ghosts>> /\ f.pc \in PlainPCs
  BY <1>t, <1>p, TopFacts DEF Scan, At, PlainPCs
<1>2. CASE queue[p] # <<>>
  <2>s. PICK s : s = Head(queue[p])
    OBVIOUS
  <2>a. PICK a : a = [f EXCEPT !.pc = "match", !.job = s]
    OBVIOUS
  <2>1. queue' = [queue EXCEPT ![p] = Tail(@)] /\ Become(t, a)
    BY <1>t, <1>p, <1>2, <2>s, <2>a DEF Scan
  <2>2. /\ queue[p] \in Seq(Slots) /\ Len(queue[p]) \in Nat /\ Len(queue[p]) >= 1 /\ s = queue[p][1]
        /\ s \in Slots /\ Len(Tail(queue[p])) = Len(queue[p]) - 1
        /\ \A i \in 1..Len(Tail(queue[p])) : Tail(queue[p])[i] = queue[p][i + 1]
    <3>1. queue[p] \in Seq(Slots)
      BY <1>1 DEF JInv, DataOK
    <3>2. Len(queue[p]) \in Nat /\ Len(queue[p]) >= 1
      BY <1>2, <3>1, EmptySeq, LenProperties
    <3>3. s = queue[p][1] /\ s \in Slots
      BY <2>s, <3>1, <3>2, ElementOfSeq
    <3> QED
      BY <1>2, <3>1, <3>2, <3>3, HeadTailProperties
  <2>3. /\ a \in Frame /\ a.pc = "match" /\ a.job = s /\ a.arg = f.arg /\ a.prio = p
        /\ a.pc \notin LinkPCs /\ ~Fills(a) /\ a.pc \notin BusyPCs /\ a.pc \notin Polling /\ f.pc \notin Polling
    BY <1>1, <1>p, <2>2, <2>a
       DEF Frame, PCs, SubmitPCs, ParkedPCs, FillPCs, LinkPCs, Fills, BusyPCs, SetPCs, Polling
  <2>4. queue'[p] = Tail(queue[p]) /\ \A q \in Levels : q # p => queue'[q] = queue[q]
    BY <1>1, <2>1 DEF JInv, DataOK
  <2>5. ASSUME NEW q \in Levels, NEW x \in Slots, InQueue(queue[q], x)
        PROVE  InQueue(queue'[q], x) \/ Hands({a}, "match", x, q)
    <3>1. CASE q # p
      BY <2>4, <2>5, <3>1
    <3>2. CASE q = p
      <4>1. PICK i \in 1..Len(queue[p]) : queue[p][i] = x
        BY <2>5, <3>2 DEF InQueue
      <4>2. CASE i = 1
        BY <2>2, <2>3, <3>2, <4>1, <4>2 DEF Hands
      <4>3. CASE i # 1
        <5>1. i - 1 \in 1..Len(Tail(queue[p])) /\ (i - 1) + 1 = i
          BY <2>2, <4>3
        <5>2. Tail(queue[p])[i - 1] = x
          BY <2>2, <4>1, <5>1
        <5> QED
          BY <2>4, <3>2, <5>1, <5>2 DEF InQueue
      <4> QED
        BY <4>2, <4>3
    <3> QED
      BY <3>1, <3>2
  <2>6. Tables(f, {a})
    <3>1. StatusMoves(f) /\ GhostMoves(f) /\ SlotMoves(f, {a})
      BY <1>1 DEF StatusMoves, GhostMoves, SlotMoves, JInv, DataOK
    <3>2. FillMoves(f, {a}) /\ LinkMoves(f, {a}) /\ WaitMoves(f, {a})
      BY <1>1, <2>3 DEF FillMoves, LinkMoves, LinkPCs, WaitMoves
    <3>3. ReadyMoves(f, {a})
      BY <1>1, <2>5 DEF ReadyMoves
    <3> QED
      BY <3>1, <3>2, <3>3 DEF Tables
  <2> QED
    BY <1>t, <1>1, <2>1, <2>3, <2>6, PlainGoto
<1>3. CASE queue[p] = <<>> /\ p = 0
  <2>1. Return(t) /\ Still
    BY <1>t, <1>p, <1>1, <1>3 DEF Scan, Still
  <2> QED
    BY <1>t, <1>1, <2>1, PlainReturn
<1>4. CASE queue[p] = <<>> /\ p # 0
  <2>a. PICK a : a = [f EXCEPT !.prio = p - 1]
    OBVIOUS
  <2>1. Become(t, a) /\ Still /\ queue' = queue
    BY <1>t, <1>p, <1>1, <1>4, <2>a DEF Scan, Still
  <2>2. p - 1 \in Levels /\ p - 1 \in Nat
    BY <1>1, <1>4, ConstantsOK DEF Levels
  <2>3. /\ a \in Frame /\ a.pc = "scan" /\ a.arg = f.arg /\ a.prio = p - 1
        /\ a.pc \notin LinkPCs /\ ~Fills(a) /\ a.pc \notin BusyPCs /\ a.pc \notin Polling /\ f.pc \notin Polling
    BY <1>1, <2>2, <2>a
       DEF Frame, SubmitPCs, ParkedPCs, FillPCs, LinkPCs, Fills, BusyPCs, SetPCs, Polling
  <2>4. Tables(f, {a})
    BY <1>1, <2>1, <2>3, StillMoves, PlainMoves DEF Tables
  <2> QED
    BY <1>t, <1>1, <2>1, <2>2, <2>3, <2>4, PlainGoto
<1> QED
  BY <1>2, <1>3, <1>4

(* A frame that goes on in its call, having changed nothing.               *)
LEMMA PlainStep ==
  ASSUME JInv, JInv', OInv, NEW t \in Threads, stack[t] # <<>>, NEW f, f = Top(t), NEW a \in Frame,
         Become(t, a), a.arg = f.arg, a.prio \in Levels, a.pc \in Polling <=> f.pc \in Polling,
         a.pc \notin BusyPCs, Still,
         f.pc \in PlainPCs, f.pc \in {"inline", "claim"} => status[f.job] # "not_started"
  PROVE  OInv'
<1>1. queue' = queue /\ \A g \in {a} : ~Fills(g) /\ g.pc \notin LinkPCs
  BY DEF Still, BusyPCs, SubmitPCs, ParkedPCs, LinkPCs, Fills
<1>2. FillMoves(f, {a}) /\ LinkMoves(f, {a}) /\ WaitMoves(f, {a}) /\ ReadyMoves(f, {a})
  BY <1>1, PlainMoves
<1>3. StatusMoves(f) /\ SlotMoves(f, {a}) /\ GhostMoves(f)
  BY StillMoves DEF PlainPCs
<1>4. Tables(f, {a})
  BY <1>2, <1>3 DEF Tables
<1> QED
  BY <1>4, PlainGoto

LEMMA MatchOrder ==
  ASSUME JInv, JInv', OInv, NEW t \in Threads, Match(t)
  PROVE  OInv'
<1>t. PICK f : f = Top(t)
  OBVIOUS
<1>p. PICK pc \in {"claim", "scan"} : pc = IF priority[f.job] = f.prio THEN "claim" ELSE "scan"
  OBVIOUS
<1>a. PICK a : a = [f EXCEPT !.pc = pc]
  OBVIOUS
<1>1. /\ stack[t] # <<>> /\ f.pc = "match" /\ f \in Frame /\ f.prio \in Levels
      /\ Become(t, a) /\ Still /\ queue' = queue
  BY <1>t, <1>p, <1>a, TopFacts DEF Match, At, Still, Goto
<1>2. SameBut(a, f, pc)
  BY <1>1, <1>a, Goes DEF PCs
<1>3. /\ a \in Frame /\ a.arg = f.arg /\ a.prio = f.prio /\ a.pc = pc /\ a.job = f.job
      /\ a.pc \notin LinkPCs /\ ~Fills(a) /\ a.pc \notin BusyPCs /\ a.pc \notin Polling /\ f.pc \notin Polling
  BY <1>1, <1>2 DEF SameBut, SubmitPCs, ParkedPCs, FillPCs, LinkPCs, Fills, BusyPCs, SetPCs, Polling
<1>4. Tables(f, {a})
  <2>1. StatusMoves(f) /\ SlotMoves(f, {a}) /\ GhostMoves(f)
    BY <1>1, StillMoves
  <2>2. FillMoves(f, {a}) /\ LinkMoves(f, {a}) /\ WaitMoves(f, {a})
    BY <1>1, <1>3 DEF FillMoves, LinkMoves, LinkPCs, WaitMoves
  <2>3. ReadyMoves(f, {a})
    BY <1>p, <1>1, <1>3 DEF ReadyMoves, Hands
  <2> QED
    BY <2>1, <2>2, <2>3 DEF Tables
<1> QED
  BY <1>t, <1>1, <1>3, <1>4, PlainGoto

LEMMA ClaimOrder ==
  ASSUME JInv, JInv', OInv, NEW t \in Threads, Claim(t)
  PROVE  OInv'
<1>t. PICK f : f = Top(t)
  OBVIOUS
<1>p. PICK pc \in {"begin", "scan"} : pc = IF status[f.job] = "not_started" THEN "begin" ELSE "scan"
  OBVIOUS
<1>a. PICK a : a = [f EXCEPT !.pc = pc]
  OBVIOUS
<1>1. /\ stack[t] # <<>> /\ f.pc = "claim" /\ f \in Frame /\ FrOK(f) /\ f.prio \in Levels
      /\ f.pc \in PlainPCs
  BY <1>t, TopFacts DEF Claim, At, PlainPCs
<1>2. f.job \in Slots /\ "claimed" \in Statuses
  BY <1>1, WorksOn DEF FillPCs, JobLess, Statuses
<1>3. SameBut(a, f, pc)
  BY <1>1, <1>a, Goes DEF PCs
<1>4. /\ a \in Frame /\ a.arg = f.arg /\ a.prio = f.prio
      /\ a.pc \notin LinkPCs /\ ~Fills(a) /\ a.pc \notin BusyPCs /\ a.pc \notin Polling /\ f.pc \notin Polling
  BY <1>1, <1>3 DEF SameBut, SubmitPCs, ParkedPCs, FillPCs, LinkPCs, Fills, BusyPCs, SetPCs, Polling
<1>5. CASE status[f.job] = "not_started"
  <2>1. StatusOnly(f.job, "claimed") /\ Become(t, a)
    BY <1>t, <1>p, <1>a, <1>5 DEF Claim, ClaimStatus, StatusOnly, Goto
  <2>2. StatusMoves(f) /\ SlotMoves(f, {a}) /\ GhostMoves(f) /\ queue' = queue
    BY <1>1, <1>2, <1>5, <2>1, StatusMove
  <2>3. Tables(f, {a})
    BY <1>1, <1>4, <2>2, PlainMoves DEF Tables
  <2> QED
    BY <1>t, <1>1, <1>4, <2>1, <2>3, PlainGoto
<1>6. CASE status[f.job] # "not_started"
  <2>1. Still /\ Become(t, a)
    BY <1>t, <1>p, <1>a, <1>6 DEF Claim, ClaimStatus, Goto, Still, slotVars
  <2> QED
    BY <1>t, <1>1, <1>4, <1>6, <2>1, PlainStep
<1> QED
  BY <1>5, <1>6

-----------------------------------------------------------------------------
(* execute_job and promote_dependent_jobs.                                 *)

LEMMA BeginOrder ==
  ASSUME JInv, JInv', OInv, NEW t \in Threads, Begin(t)
  PROVE  OInv'
<1>t. PICK f : f = Top(t)
  OBVIOUS
<1>h. PICK h : h = function[f.job]
  OBVIOUS
<1>a. PICK a : a = [f EXCEPT !.pc = "body", !.own = h]
  OBVIOUS
<1> USE DEF slotVars, poolVars
<1>1. /\ stack[t] # <<>> /\ f.pc = "begin" /\ f \in Frame /\ FrOK(f) /\ f.prio \in Levels /\ f.pc \in PlainPCs
      /\ UNCHANGED <<slotVars, poolVars, queue, issued, dep>>
      /\ phase' = [phase EXCEPT ![h] = IF @ = "pending" THEN "running" ELSE "again"]
      /\ Become(t, a)
  BY <1>t, <1>h, <1>a, TopFacts DEF Begin, At, PlainPCs
<1>2. /\ f.job \in 1..total /\ ~Filled(f.job) /\ Now(f.job) \in Handles
      /\ phase[Now(f.job)] = "pending"
  BY <1>1, RunUnfilled DEF RunPCs, FrOK, HolderOK
<1>3. h = Now(f.job)
  BY <1>h, <1>2 DEF JInv, SlotsOK, SlotOK
<1>4. /\ a \in Frame /\ a.arg = f.arg /\ a.prio = f.prio
      /\ a.pc \notin LinkPCs /\ ~Fills(a) /\ a.pc \notin BusyPCs /\ a.pc \notin Polling /\ f.pc \notin Polling
  BY <1>a, <1>1, <1>2, <1>3
     DEF Frame, PCs, SubmitPCs, ParkedPCs, FillPCs, LinkPCs, Fills, BusyPCs, SetPCs, Polling
<1>5. Tables(f, {a})
  <2>1. StatusMoves(f) /\ SlotMoves(f, {a})
    BY <1>1 DEF StatusMoves, SlotMoves, JInv, DataOK
  <2>2. \A x \in Handles : phase'[x] # phase[x] => x = h
    BY <1>1, <1>2, <1>3 DEF JInv, DataOK
  <2>3. GhostMoves(f)
    BY <1>1, <1>2, <1>3, <2>2 DEF GhostMoves
  <2>4. FillMoves(f, {a}) /\ LinkMoves(f, {a}) /\ WaitMoves(f, {a}) /\ ReadyMoves(f, {a})
    BY <1>1, <1>4, PlainMoves
  <2> QED
    BY <2>1, <2>3, <2>4 DEF Tables
<1> QED
  BY <1>t, <1>1, <1>4, <1>5, PlainGoto

LEMMA FinishBodyOrder ==
  ASSUME JInv, JInv', OInv, NEW t \in Threads, FinishBody(t)
  PROVE  OInv'
<1>t. PICK f : f = Top(t)
  OBVIOUS
<1>a. PICK a : a = [f EXCEPT !.pc = "drain"]
  OBVIOUS
<1> USE DEF poolVars
<1>1. /\ stack[t] # <<>> /\ f.pc = "body" /\ f \in Frame /\ FrOK(f) /\ f.prio \in Levels
      /\ UNCHANGED <<generation, function, first_dependent, next_dependent, priority,
                     poolVars, queue, issued, dep>>
      /\ phase' = [phase EXCEPT ![f.own] = IF @ = "running" THEN "done" ELSE "again"]
      /\ status' = [status EXCEPT ![f.job] = "promoting"]
      /\ Become(t, a)
  BY <1>t, <1>a, TopFacts DEF FinishBody, At, Goto
<1>2. /\ f.job \in Slots /\ Now(f.job) \in Handles /\ f.own = Now(f.job)
      /\ phase[f.own] = "running" /\ status[f.job] = "claimed"
  BY <1>1, RunUnfilled DEF RunPCs, FrOK, HolderOK
<1>3. SameBut(a, f, "drain")
  BY <1>1, <1>a, Goes DEF PCs
<1>4. /\ a \in Frame /\ a.arg = f.arg /\ a.prio = f.prio /\ a.pc = "drain" /\ a.job = f.job
      /\ a.pc \notin LinkPCs /\ ~Fills(a) /\ a.pc \notin BusyPCs /\ a.pc \notin Polling /\ f.pc \notin Polling
  BY <1>1, <1>3 DEF SameBut, SubmitPCs, ParkedPCs, FillPCs, LinkPCs, Fills, BusyPCs, SetPCs, Polling
<1>5. Tables(f, {a})
  <2>1. /\ status'[f.job] = "promoting" /\ \A s \in Slots : s # f.job => status'[s] = status[s]
        /\ \A x \in Handles : x # f.own => phase'[x] = phase[x]
    BY <1>1, <1>2 DEF JInv, DataOK
  <2>2. StatusMoves(f) /\ SlotMoves(f, {a})
    BY <1>1, <1>2, <2>1 DEF StatusMoves, SlotMoves, JInv, DataOK
  <2>3. GhostMoves(f)
    BY <1>1, <1>2, <2>1 DEF GhostMoves
  <2>4. FillMoves(f, {a}) /\ LinkMoves(f, {a}) /\ ReadyMoves(f, {a})
    BY <1>1, <1>4 DEF FillMoves, LinkMoves, LinkPCs, ReadyMoves
  <2>5. WaitMoves(f, {a})
    BY <1>1, <1>4 DEF WaitMoves
  <2> QED
    BY <2>2, <2>3, <2>4, <2>5 DEF Tables
<1> QED
  BY <1>t, <1>1, <1>4, <1>5, PlainGoto

(* What a promoter knows of the job whose list it goes over.               *)
LEMMA RunnerMoves ==
  ASSUME NEW K, NEW f, NEW New, Acts(K, {f}, f, New), f.pc \in {"drain", "walk", "promote"},
         NEW d, d = Now(f.job)
  PROVE  /\ Known(d) /\ d # NoHandle /\ ~Settled(d) /\ d = Now(f.job)'
         /\ f.job \in 1..total /\ ~Filled(f.job) /\ status[f.job] = "promoting"
         /\ \A y : Listed(y, d) => Listed(y, d)'
         /\ \A y : Listed(y, d) /\ next_dependent[y] # Null => Listed(next_dependent[y], d)
<1> USE DEF Acts
<1>1. f \in Frame /\ FrOK(f) /\ status[f.job] = "promoting" /\ f.pc \in RunPCs
  BY DEF Turn, FrOK, HolderOK, RunPCs
<1>2. ~Filled(f.job) /\ f.job \in 1..total /\ f.job \in Slots /\ Known(d) /\ d[1] = f.job
  BY <1>1, RunUnfilled DEF Now
<1>3. d # NoHandle /\ ~Settled(d)
  BY <1>1, <1>2 DEF Settled, Live, Now, NoHandle, Slots
<1>4. d = Now(f.job)'
  BY <1>2, <1>3, HandleMoves
<1>5. \A y : Listed(y, d) => Listed(y, d)'
  BY <1>2, <1>3, ListedMoves
<1>6. ASSUME NEW y, Listed(y, d), next_dependent[y] # Null
      PROVE  Listed(next_dependent[y], d)
  <2>1. y \in 1..total /\ ~Filled(y) /\ ~Linking(y) /\ dep[Now(y)] = d
    BY <1>6 DEF Listed
  <2>2. JobOK(y)
    BY <2>1 DEF OInv, JobsOK
  <2> QED
    BY <1>3, <1>6, <2>1, <2>2 DEF JobOK
<1> QED
  BY <1>1, <1>2, <1>3, <1>4, <1>5, <1>6

LEMMA WalkHeir ==
  ASSUME NEW K, NEW f, NEW New, Acts(K, {f}, f, New), f.pc \in {"drain", "walk", "promote"},
         NEW a, a.pc \in {"walk", "promote"}, a.job = f.job, a.arg = f.arg, a.prio = f.prio,
         a.next # Null => Listed(a.next, Now(f.job)),
         a.pc = "promote" => Listed(a.cur, Now(f.job))
  PROVE  OrderOK(a)'
<1>d. PICK d : d = Now(f.job)
  OBVIOUS
<1>1. d = Now(f.job)' /\ \A y : Listed(y, d) => Listed(y, d)'
  BY <1>d, RunnerMoves
<1>2. /\ a.next # Null => Listed(a.next, d)'
      /\ a.pc = "promote" => Listed(a.cur, d)'
  BY <1>d, <1>1
<1>3. WalkOK(a)'
  BY <1>1, <1>2 DEF WalkOK, Listed
<1>4. a.pc \notin Polling /\ f.pc \notin Polling
  BY DEF Polling
<1>5. NameOK(a)'
  BY <1>4, HeirNamed
<1>6. ReapOK(a)' /\ SetOK(a)' /\ SubmitOK(a)'
  BY DEF ReapOK, SetOK, SetPCs, SubmitOK, SubmitPCs, FillPCs, ParkedPCs
<1>7. f.prio \in Levels
  BY DEF Acts, Turn, OrderOK
<1> QED
  BY <1>3, <1>5, <1>6, <1>7 DEF OrderOK

LEMMA DrainOrder ==
  ASSUME JInv, JInv', OInv, NEW t \in Threads, Drain(t)
  PROVE  OInv'
<1>t. PICK f : f = Top(t)
  OBVIOUS
<1>a. PICK a : a = [f EXCEPT !.pc = "walk", !.next = first_dependent[f.job]]
  OBVIOUS
<1> USE DEF poolVars, ghosts
<1>1. /\ stack[t] # <<>> /\ f.pc = "drain" /\ f \in Frame /\ FrOK(f) /\ f.prio \in Levels
      /\ first_dependent' = [first_dependent EXCEPT ![f.job] = Null]
      /\ UNCHANGED <<status, generation, function, next_dependent, priority,
                     poolVars, queue, issued, ghosts>>
      /\ Become(t, a)
  BY <1>t, <1>a, TopFacts DEF Drain, At
<1>2. f.job \in Slots /\ first_dependent[f.job] \in Slots \union {Null}
  BY <1>1, WorksOn DEF FillPCs, JobLess, JInv, DataOK
<1>3. /\ a \in Frame /\ a.arg = f.arg /\ a.prio = f.prio /\ a.pc = "walk" /\ a.job = f.job
      /\ a.next = first_dependent[f.job] /\ a.pc \notin SubmitPCs /\ ~Fills(a)
  BY <1>1, <1>2, <1>a DEF Frame, PCs, SubmitPCs, ParkedPCs, FillPCs, Fills
<1>4. Tables(f, {a})
  <2>1. StatusMoves(f) /\ GhostMoves(f)
    BY <1>1 DEF StatusMoves, GhostMoves
  <2>2. /\ first_dependent'[f.job] = Null
        /\ \A x \in Slots : x # f.job => first_dependent'[x] = first_dependent[x]
    BY <1>1, <1>2 DEF JInv, DataOK
  <2>3. SlotMoves(f, {a})
    BY <1>1, <2>2 DEF SlotMoves, JInv, DataOK
  <2>4. FillMoves(f, {a}) /\ LinkMoves(f, {a}) /\ WaitMoves(f, {a}) /\ ReadyMoves(f, {a})
    BY <1>1, <1>3 DEF FillMoves, LinkMoves, LinkPCs, WaitMoves, ReadyMoves
  <2> QED
    BY <2>1, <2>3, <2>4 DEF Tables
<1>5. ASSUME NEW K, Acts(K, {f}, f, {a})
      PROVE  OrderOK(a)'
  <2>1. f.job \in 1..total /\ ~Filled(f.job) /\ status[f.job] = "promoting"
    BY <1>1, <1>5, RunnerMoves
  <2>2. JobOK(f.job)
    BY <2>1 DEF OInv, JobsOK
  <2>3. first_dependent[f.job] # Null => Listed(first_dependent[f.job], Now(f.job))
    BY <2>1, <2>2 DEF JobOK
  <2> QED
    BY <1>1, <1>3, <1>5, <2>3, WalkHeir
<1> QED
  BY <1>t, <1>1, <1>3, <1>4, <1>5, BecomeKeeps

LEMMA WalkOrder ==
  ASSUME JInv, JInv', OInv, NEW t \in Threads, Walk(t)
  PROVE  OInv'
<1>t. PICK f : f = Top(t)
  OBVIOUS
<1>1. /\ stack[t] # <<>> /\ f.pc = "walk" /\ f \in Frame /\ FrOK(f) /\ WalkOK(f)
  BY <1>t, TopFacts DEF Walk, At
<1>2. CASE f.next # Null
  <2>a. PICK a : a = [f EXCEPT !.pc = "promote", !.cur = f.next, !.next = next_dependent[f.next]]
    OBVIOUS
  <2>1. Become(t, a) /\ Still /\ queue' = queue
    BY <1>t, <1>2, <2>a DEF Walk, Still, slotVars
  <2>2. f.next \in Slots /\ next_dependent[f.next] \in Slots \union {Null}
    BY <1>1, <1>2 DEF Frame, JInv, DataOK
  <2>3. /\ a \in Frame /\ a.arg = f.arg /\ a.prio = f.prio /\ a.pc = "promote" /\ a.job = f.job
        /\ a.cur = f.next /\ a.next = next_dependent[f.next] /\ a.pc \notin SubmitPCs /\ ~Fills(a)
    BY <1>1, <2>2, <2>a DEF Frame, PCs, SubmitPCs, ParkedPCs, FillPCs, Fills
  <2>4. Tables(f, {a})
    <3>1. StatusMoves(f) /\ SlotMoves(f, {a}) /\ GhostMoves(f)
      BY <1>1, <2>1, StillMoves
    <3>2. FillMoves(f, {a}) /\ LinkMoves(f, {a}) /\ WaitMoves(f, {a}) /\ ReadyMoves(f, {a})
      BY <1>1, <2>1, <2>3 DEF FillMoves, LinkMoves, LinkPCs, WaitMoves, ReadyMoves
    <3> QED
      BY <3>1, <3>2 DEF Tables
  <2>5. ASSUME NEW K, Acts(K, {f}, f, {a})
        PROVE  OrderOK(a)'
    <3>1. Listed(f.next, Now(f.job))
      BY <1>1, <1>2 DEF WalkOK
    <3>2. next_dependent[f.next] # Null => Listed(next_dependent[f.next], Now(f.job))
      BY <1>1, <2>5, <3>1, RunnerMoves
    <3> QED
      BY <1>1, <2>3, <2>5, <3>1, <3>2, WalkHeir
  <2> QED
    BY <1>t, <1>1, <2>1, <2>3, <2>4, <2>5, BecomeKeeps
<1>3. CASE f.next = Null
  <2>1. StatusOnly(f.job, "completed") /\ Return(t)
    BY <1>t, <1>3 DEF Walk, StatusOnly
  <2>2. f.job \in Slots /\ "completed" \in Statuses /\ status[f.job] = "promoting"
    BY <1>1, WorksOn DEF FillPCs, JobLess, Statuses, FrOK, HolderOK
  <2>3. StatusMoves(f) /\ SlotMoves(f, {}) /\ GhostMoves(f) /\ queue' = queue
    BY <1>1, <2>1, <2>2, StatusMove
  <2>4. FillMoves(f, {}) /\ LinkMoves(f, {}) /\ WaitMoves(f, {}) /\ ReadyMoves(f, {})
    BY <1>1, <1>3, <2>3 DEF FillMoves, LinkMoves, LinkPCs, WaitMoves, ReadyMoves
  <2> QED
    BY <1>t, <1>1, <2>1, <2>3, <2>4, ReturnKeeps DEF Tables
<1> QED
  BY <1>2, <1>3

LEMMA PromoteOrder ==
  ASSUME JInv, JInv', OInv, NEW t \in Threads, Promote(t)
  PROVE  OInv'
<1>t. PICK f : f = Top(t)
  OBVIOUS
<1>a. PICK a : a = [f EXCEPT !.pc = "walk"]
  OBVIOUS
<1>1. /\ stack[t] # <<>> /\ f.pc = "promote" /\ f \in Frame /\ FrOK(f) /\ WalkOK(f)
  BY <1>t, TopFacts DEF Promote, At
<1>2. SameBut(a, f, "walk")
  BY <1>1, <1>a, Goes DEF PCs
<1>3. /\ a \in Frame /\ a.arg = f.arg /\ a.prio = f.prio /\ a.pc = "walk" /\ a.job = f.job
      /\ a.next = f.next /\ a.pc \notin SubmitPCs /\ a.pc \notin LinkPCs /\ ~Fills(a)
  BY <1>2 DEF SameBut, SubmitPCs, ParkedPCs, FillPCs, Fills, LinkPCs
<1>4. ASSUME NEW K, NEW New, Acts(K, {f}, f, New)
      PROVE  OrderOK(a)'
  BY <1>1, <1>3, <1>4, WalkHeir DEF WalkOK
<1>5. CASE status[f.cur] = "waiting"
  <2>b. PICK b : b = [Blank EXCEPT !.pc = "loadprio", !.job = f.cur]
    OBVIOUS
  <2>1. StatusOnly(f.cur, "not_started") /\ Call(t, a, b)
    BY <1>t, <1>5, <1>a, <2>b DEF Promote, StatusOnly
  <2>2. f.cur \in Slots /\ "not_started" \in Statuses /\ 0 \in Levels
    BY <1>1, ConstantsOK DEF FrOK, FrameOK, Frame, Statuses, Levels
  <2>3. /\ b \in Frame /\ b.pc = "loadprio" /\ b.job = f.cur /\ b.arg = NoHandle /\ b.prio = 0
        /\ b.pc \notin LinkPCs /\ ~Fills(b)
    BY <2>2, <2>b, BlankFrame DEF Frame, PCs, LinkPCs, Fills, FillPCs
  <2>4. Tables(f, {a, b})
    <3>1. StatusMoves(f) /\ SlotMoves(f, {a, b}) /\ GhostMoves(f) /\ queue' = queue
      BY <1>1, <1>5, <2>1, <2>2, StatusMove
    <3>2. FillMoves(f, {a, b}) /\ LinkMoves(f, {a, b})
      BY <1>1, <1>3, <2>3 DEF FillMoves, LinkMoves, LinkPCs
    <3>3. WaitMoves(f, {a, b})
      BY <1>1, <1>3 DEF WaitMoves
    <3>4. ReadyMoves(f, {a, b})
      BY <1>1, <2>3, <3>1 DEF ReadyMoves
    <3> QED
      BY <3>1, <3>2, <3>3, <3>4 DEF Tables
  <2> QED
    BY <1>t, <1>1, <1>3, <1>4, <2>1, <2>2, <2>3, <2>4, CallKeeps
<1>6. CASE status[f.cur] # "waiting"
  <2>1. Still /\ Become(t, a) /\ queue' = queue /\ status' = status
    BY <1>t, <1>a, <1>6 DEF Promote, Goto, Still, slotVars
  <2>2. Tables(f, {a})
    <3>1. StatusMoves(f) /\ SlotMoves(f, {a}) /\ GhostMoves(f)
      BY <1>1, <1>6, <2>1, StillMoves
    <3>2. FillMoves(f, {a}) /\ LinkMoves(f, {a}) /\ WaitMoves(f, {a}) /\ ReadyMoves(f, {a})
      BY <1>1, <1>3, <2>1 DEF FillMoves, LinkMoves, LinkPCs, WaitMoves, ReadyMoves
    <3> QED
      BY <3>1, <3>2 DEF Tables
  <2> QED
    BY <1>t, <1>1, <1>3, <1>4, <2>1, <2>2, BecomeKeeps
<1> QED
  BY <1>5, <1>6

-----------------------------------------------------------------------------
(* fl_jobs_is_finished and fl_jobs_wait.                                   *)

LEMMA PollGenerationOrder ==
  ASSUME JInv, JInv', OInv, NEW t \in Threads, PollGeneration(t)
  PROVE  OInv'
<1>t. PICK f : f = Top(t)
  OBVIOUS
<1>1. /\ stack[t] # <<>> /\ f.pc = "pollgen" /\ f \in Frame /\ FrOK(f) /\ f.prio \in Levels
      /\ Still /\ f.pc \in PlainPCs
  BY <1>t, TopFacts DEF PollGeneration, At, Still, PlainPCs
<1>2. CASE Live(f.arg)
  <2>a. PICK a : a = [f EXCEPT !.pc = "pollstatus", !.job = f.arg[1]]
    OBVIOUS
  <2>1. Become(t, a)
    BY <1>t, <1>2, <2>a DEF PollGeneration
  <2>2. f.arg[1] \in Slots
    BY <1>1, <1>2, KnownLive DEF FrOK, FrameOK, PollOK, Polling
  <2>3. /\ a \in Frame /\ a.arg = f.arg /\ a.prio = f.prio /\ a.pc \notin BusyPCs
        /\ a.pc \in Polling /\ f.pc \in Polling
    BY <1>1, <2>a, <2>2
       DEF Frame, PCs, SubmitPCs, ParkedPCs, FillPCs, BusyPCs, SetPCs, Polling
  <2> QED
    BY <1>t, <1>1, <2>1, <2>3, PlainStep
<1>3. CASE ~Live(f.arg)
  <2>1. Return(t)
    BY <1>t, <1>3 DEF PollGeneration
  <2> QED
    BY <1>t, <1>1, <2>1, PlainReturn
<1> QED
  BY <1>2, <1>3

(* The successor of a poll that does not recycle or that may.              *)
LEMMA PollHeir ==
  ASSUME JInv, JInv', OInv, NEW t \in Threads, stack[t] # <<>>, NEW f, f = Top(t), NEW a \in Frame,
         Become(t, a), Still, a.arg = f.arg, a.prio = f.prio, ReapOK(a)',
         f.pc \in {"pollstatus", "pollagain"}, a.pc \in {"pollagain", "recycle"}
  PROVE  OInv'
<1>1. /\ f.pc \in PlainPCs /\ f.pc \in Polling /\ a.pc \in Polling /\ ~Fills(a) /\ a.pc \notin LinkPCs
      /\ a.pc \notin SubmitPCs \union SetPCs /\ a.pc \notin {"alloc", "walk", "promote"}
      /\ queue' = queue
  BY DEF PlainPCs, Polling, Fills, LinkPCs, SubmitPCs, FillPCs, ParkedPCs, SetPCs, Still
<1>2. Tables(f, {a})
  <2>1. StatusMoves(f) /\ SlotMoves(f, {a}) /\ GhostMoves(f)
    BY StillMoves
  <2>2. FillMoves(f, {a}) /\ LinkMoves(f, {a}) /\ WaitMoves(f, {a}) /\ ReadyMoves(f, {a})
    BY <1>1, PlainMoves
  <2> QED
    BY <2>1, <2>2 DEF Tables
<1>3. f.prio \in Levels
  BY TopFacts
<1>4. ASSUME NEW K, Acts(K, {f}, f, {a})
      PROVE  OrderOK(a)'
  <2>1. NameOK(a)'
    BY <1>1, <1>4, HeirNamed
  <2>2. SetOK(a)' /\ SubmitOK(a)' /\ WalkOK(a)'
    BY <1>1 DEF SetOK, SubmitOK, WalkOK, SubmitPCs, ParkedPCs, FillPCs
  <2> QED
    BY <1>3, <2>1, <2>2 DEF OrderOK
<1> QED
  BY <1>1, <1>2, <1>4, BecomeKeeps

LEMMA PollStatusOrder ==
  ASSUME JInv, JInv', OInv, NEW t \in Threads, PollStatus(t)
  PROVE  OInv'
<1>t. PICK f : f = Top(t)
  OBVIOUS
<1>a. PICK a : a = [f EXCEPT !.pc = "pollagain", !.seen = status[f.job]]
  OBVIOUS
<1>1. /\ stack[t] # <<>> /\ f.pc = "pollstatus" /\ f \in Frame /\ FrOK(f)
      /\ Still /\ status' = status /\ Become(t, a)
  BY <1>t, <1>a, TopFacts DEF PollStatus, At, Still, slotVars
<1>2. f.job \in Slots /\ status[f.job] \in Statuses
  BY <1>1, WorksOn DEF FillPCs, JobLess, JInv, DataOK
<1>3. /\ a \in Frame /\ a.arg = f.arg /\ a.prio = f.prio /\ a.pc = "pollagain" /\ a.job = f.job
      /\ a.seen = status[f.job]
  BY <1>1, <1>2, <1>a DEF Frame, PCs
<1>4. ReapOK(a)'
  BY <1>1, <1>3 DEF ReapOK
<1> QED
  BY <1>t, <1>1, <1>3, <1>4, PollHeir

LEMMA PollGenerationAgainOrder ==
  ASSUME JInv, JInv', OInv, NEW t \in Threads, PollGenerationAgain(t)
  PROVE  OInv'
<1>t. PICK f : f = Top(t)
  OBVIOUS
<1>p. PICK pc \in {"recycle", "answer"} : pc = IF f.seen = "completed" THEN "recycle" ELSE "answer"
  OBVIOUS
<1>a. PICK a : a = [f EXCEPT !.pc = pc]
  OBVIOUS
<1>1. /\ stack[t] # <<>> /\ f.pc = "pollagain" /\ f \in Frame /\ FrOK(f) /\ f.prio \in Levels
      /\ ReapOK(f) /\ f.pc \in PlainPCs /\ Still /\ status' = status /\ generation' = generation
  BY <1>t, TopFacts DEF PollGenerationAgain, At, Still, slotVars, PlainPCs
<1>2. SameBut(a, f, pc)
  BY <1>p, <1>1, <1>a, Goes DEF PCs
<1>3. a \in Frame /\ a.arg = f.arg /\ a.prio = f.prio /\ a.pc = pc /\ a.job = f.job
  BY <1>2 DEF SameBut
<1>4. CASE Live(f.arg) /\ pc = "recycle"
  <2>1. Become(t, a)
    BY <1>t, <1>p, <1>a, <1>4 DEF PollGenerationAgain, Goto
  <2>2. f.seen = "completed"
    BY <1>p, <1>4
  <2>3. status[f.job] = "completed"
    BY <1>1, <1>4, <2>2 DEF ReapOK
  <2>4. ReapOK(a)'
    BY <1>1, <1>3, <1>4, <2>3 DEF ReapOK, Live
  <2> QED
    BY <1>t, <1>1, <1>3, <1>4, <2>1, <2>4, PollHeir
<1>5. CASE Live(f.arg) /\ pc = "answer"
  <2>1. Become(t, a)
    BY <1>t, <1>p, <1>a, <1>5 DEF PollGenerationAgain, Goto
  <2>2. a.pc \notin BusyPCs /\ a.pc \in Polling /\ f.pc \in Polling
    BY <1>1, <1>3, <1>5 DEF SubmitPCs, ParkedPCs, FillPCs, BusyPCs, SetPCs, Polling
  <2> QED
    BY <1>t, <1>1, <1>3, <2>1, <2>2, PlainStep
<1>6. CASE ~Live(f.arg)
  <2>1. Return(t)
    BY <1>t, <1>6 DEF PollGenerationAgain
  <2> QED
    BY <1>t, <1>1, <2>1, PlainReturn
<1> QED
  BY <1>4, <1>5, <1>6

LEMMA RecycleOrder ==
  ASSUME JInv, JInv', OInv, NEW t \in Threads, Recycle(t)
  PROVE  OInv'
<1>t. PICK f : f = Top(t)
  OBVIOUS
<1>p. PICK pc \in {"push", "answer"} : pc = IF status[f.job] = "completed" THEN "push" ELSE "answer"
  OBVIOUS
<1>a. PICK a : a = [f EXCEPT !.pc = pc]
  OBVIOUS
<1>1. /\ stack[t] # <<>> /\ f.pc = "recycle" /\ f \in Frame /\ FrOK(f) /\ f.prio \in Levels
      /\ f.pc \in PlainPCs
  BY <1>t, TopFacts DEF Recycle, At, PlainPCs
<1>2. SameBut(a, f, pc)
  BY <1>p, <1>1, <1>a, Goes DEF PCs
<1>3. /\ a \in Frame /\ a.arg = f.arg /\ a.prio = f.prio /\ a.pc \notin LinkPCs /\ ~Fills(a)
      /\ a.pc \notin BusyPCs /\ a.pc \in Polling /\ f.pc \in Polling
  BY <1>1, <1>2 DEF SameBut, SubmitPCs, ParkedPCs, FillPCs, LinkPCs, Fills, BusyPCs, SetPCs, Polling
<1>4. CASE status[f.job] = "completed"
  <2>1. StatusOnly(f.job, "free") /\ Become(t, a)
    BY <1>t, <1>p, <1>a, <1>4 DEF Recycle, StatusOnly, Goto
  <2>2. f.job \in Slots /\ "free" \in Statuses
    BY <1>1, WorksOn DEF FillPCs, JobLess, Statuses
  <2>3. StatusMoves(f) /\ SlotMoves(f, {a}) /\ GhostMoves(f) /\ queue' = queue
    BY <1>1, <1>4, <2>1, <2>2, StatusMove
  <2>4. Tables(f, {a})
    BY <1>1, <1>3, <2>3, PlainMoves DEF Tables
  <2> QED
    BY <1>t, <1>1, <1>3, <2>1, <2>4, PlainGoto
<1>5. CASE status[f.job] # "completed"
  <2>1. Still /\ Become(t, a)
    BY <1>t, <1>p, <1>a, <1>5 DEF Recycle, Goto, Still, slotVars
  <2> QED
    BY <1>t, <1>1, <1>3, <2>1, PlainStep
<1> QED
  BY <1>4, <1>5

LEMMA PushFreeOrder ==
  ASSUME JInv, JInv', OInv, NEW t \in Threads, PushFree(t)
  PROVE  OInv'
<1>t. PICK f : f = Top(t)
  OBVIOUS
<1>a. PICK a : a = [f EXCEPT !.pc = "answer"]
  OBVIOUS
<1> USE DEF slotVars, ghosts
<1>1. /\ stack[t] # <<>> /\ f.pc = "push" /\ f \in Frame /\ f.prio \in Levels /\ f.pc \in PlainPCs
      /\ UNCHANGED <<slotVars, total, queue, issued, ghosts>> /\ Become(t, a)
  BY <1>t, <1>a, TopFacts DEF PushFree, At, PlainPCs, Goto
<1>2. SameBut(a, f, "answer")
  BY <1>1, <1>a, Goes DEF PCs
<1>3. /\ a \in Frame /\ a.arg = f.arg /\ a.prio = f.prio /\ a.pc \notin LinkPCs /\ ~Fills(a)
      /\ a.pc \notin BusyPCs /\ a.pc \in Polling /\ f.pc \in Polling
  BY <1>1, <1>2 DEF SameBut, SubmitPCs, ParkedPCs, FillPCs, LinkPCs, Fills, BusyPCs, SetPCs, Polling
<1>4. Tables(f, {a})
  <2>1. StatusMoves(f) /\ GhostMoves(f)
    BY <1>1 DEF StatusMoves, GhostMoves
  <2>2. SlotMoves(f, {a})
    BY <1>1 DEF SlotMoves, JInv, DataOK
  <2>3. FillMoves(f, {a}) /\ LinkMoves(f, {a}) /\ WaitMoves(f, {a}) /\ ReadyMoves(f, {a})
    BY <1>1, <1>3, PlainMoves
  <2> QED
    BY <2>1, <2>2, <2>3 DEF Tables
<1> QED
  BY <1>t, <1>1, <1>3, <1>4, PlainGoto

LEMMA AnswerOrder ==
  ASSUME JInv, JInv', OInv, NEW t \in Threads, Answer(t)
  PROVE  OInv'
<1>t. PICK f : f = Top(t)
  OBVIOUS
<1>1. /\ stack[t] # <<>> /\ f.pc = "answer" /\ f \in Frame /\ FrOK(f) /\ f.prio \in Levels
      /\ Still /\ f.pc \in PlainPCs
  BY <1>t, TopFacts DEF Answer, At, Still, PlainPCs
<1>2. CASE f.wait /\ SaysNotFinished(f)
  <2>e. PICK e \in BOOLEAN : e = (~Live(f.arg) \/ status[f.arg[1]] \in Finished)
    OBVIOUS
  <2>a. PICK a : a = [f EXCEPT !.pc = "pollgen", !.late = e]
    OBVIOUS
  <2>1. Become(t, a)
    BY <1>t, <1>2, <2>e, <2>a DEF Answer
  <2>2. /\ a \in Frame /\ a.arg = f.arg /\ a.prio = f.prio /\ a.pc \notin BusyPCs
        /\ a.pc \in Polling /\ f.pc \in Polling
    BY <1>1, <2>a DEF Frame, PCs, SubmitPCs, ParkedPCs, FillPCs, BusyPCs, SetPCs, Polling
  <2> QED
    BY <1>t, <1>1, <2>1, <2>2, PlainStep
<1>3. CASE ~(f.wait /\ SaysNotFinished(f))
  <2>1. Return(t)
    BY <1>t, <1>3 DEF Answer
  <2> QED
    BY <1>t, <1>1, <2>1, PlainReturn
<1> QED
  BY <1>2, <1>3

-----------------------------------------------------------------------------
(* fl_jobs_set_priority.                                                   *)

LEMMA SetHeir ==
  ASSUME JInv, JInv', OInv, NEW t \in Threads, stack[t] # <<>>, NEW f, f = Top(t), NEW a \in Frame,
         Become(t, a), Tables(f, {a}), a.arg = f.arg, a.prio = f.prio,
         f.arg # NoHandle, a.job = f.arg[1], f.pc \in SetPCs, a.pc \in SetPCs \ {"setgen"}
  PROVE  OInv'
<1>1. f.prio \in Levels
  BY TopFacts
<1>2. /\ f.pc \notin Polling /\ a.pc \notin Polling /\ a.pc \notin SubmitPCs
      /\ a.pc \notin {"alloc", "walk", "promote"}
  BY DEF SetPCs, Polling, SubmitPCs, ParkedPCs, FillPCs
<1>3. ASSUME NEW K, Acts(K, {f}, f, {a})
      PROVE  OrderOK(a)'
  <2>1. NameOK(a)'
    BY <1>2, <1>3, HeirNamed
  <2>2. ReapOK(a)' /\ SetOK(a)' /\ SubmitOK(a)' /\ WalkOK(a)'
    BY <1>2 DEF ReapOK, SetOK, SubmitOK, WalkOK, Polling, SubmitPCs, ParkedPCs, FillPCs
  <2> QED
    BY <1>1, <2>1, <2>2 DEF OrderOK
<1> QED
  BY <1>2, <1>3, BecomeKeeps

LEMMA SetLookupOrder ==
  ASSUME JInv, JInv', OInv, NEW t \in Threads, SetLookup(t)
  PROVE  OInv'
<1>t. PICK f : f = Top(t)
  OBVIOUS
<1>1. /\ stack[t] # <<>> /\ f.pc = "setgen" /\ f \in Frame /\ FrOK(f) /\ Still /\ queue' = queue
      /\ f.pc \in PlainPCs /\ f.pc \in SetPCs /\ f.arg # NoHandle
  BY <1>t, TopFacts DEF SetLookup, At, Still, PlainPCs, SetPCs, FrOK, FrameOK
<1>2. CASE Live(f.arg)
  <2>a. PICK a : a = [f EXCEPT !.pc = "setstatus", !.job = f.arg[1]]
    OBVIOUS
  <2>1. Become(t, a)
    BY <1>t, <1>2, <2>a DEF SetLookup
  <2>2. f.arg[1] \in Slots
    BY <1>1, <1>2, KnownLive DEF FrOK, FrameOK
  <2>3. /\ a \in Frame /\ a.arg = f.arg /\ a.prio = f.prio /\ a.job = f.arg[1] /\ a.pc = "setstatus"
        /\ ~Fills(a) /\ a.pc \notin LinkPCs /\ a.pc \in SetPCs \ {"setgen"}
    BY <1>1, <2>a, <2>2 DEF Frame, PCs, Fills, FillPCs, LinkPCs, SetPCs
  <2>4. Tables(f, {a})
    BY <1>1, <2>3, StillMoves, PlainMoves DEF Tables
  <2> QED
    BY <1>t, <1>1, <2>1, <2>3, <2>4, SetHeir
<1>3. CASE ~Live(f.arg)
  <2>1. Return(t)
    BY <1>t, <1>3 DEF SetLookup
  <2> QED
    BY <1>t, <1>1, <2>1, PlainReturn
<1> QED
  BY <1>2, <1>3

LEMMA SetStatusOrder ==
  ASSUME JInv, JInv', OInv, NEW t \in Threads, SetStatus(t) \/ SetOld(t)
  PROVE  OInv'
<1>t. PICK f : f = Top(t)
  OBVIOUS
<1>1. /\ stack[t] # <<>> /\ f.pc \in {"setstatus", "setold"} /\ f \in Frame /\ Still /\ queue' = queue
      /\ f.pc \in PlainPCs /\ f.pc \in SetPCs /\ SetOK(f)
  BY <1>t, TopFacts DEF SetStatus, SetOld, At, Still, PlainPCs, SetPCs
<1>2. f.arg # NoHandle /\ f.job = f.arg[1]
  BY <1>1 DEF SetOK
<1>3. CASE \E pc \in {"setold", "setstore"} : Goto(t, pc)
  <2>p. PICK pc \in {"setold", "setstore"} : Goto(t, pc)
    BY <1>3
  <2>a. PICK a : a = [f EXCEPT !.pc = pc]
    OBVIOUS
  <2>1. Become(t, a) /\ SameBut(a, f, pc)
    BY <1>t, <1>1, <2>p, <2>a, Goes DEF Goto, PCs
  <2>2. /\ a \in Frame /\ a.arg = f.arg /\ a.prio = f.prio /\ a.job = f.arg[1]
        /\ ~Fills(a) /\ a.pc \notin LinkPCs /\ a.pc \in SetPCs \ {"setgen"}
    BY <1>2, <2>1 DEF SameBut, Fills, FillPCs, LinkPCs, SetPCs
  <2>3. Tables(f, {a})
    BY <1>1, <2>2, StillMoves, PlainMoves DEF Tables
  <2> QED
    BY <1>t, <1>1, <1>2, <2>1, <2>2, <2>3, SetHeir
<1>4. CASE Return(t)
  BY <1>t, <1>1, <1>4, PlainReturn
<1> QED
  BY <1>3, <1>4 DEF SetStatus, SetOld

LEMMA SetStoreOrder ==
  ASSUME JInv, JInv', OInv, NEW t \in Threads, SetStore(t)
  PROVE  OInv'
<1>t. PICK f : f = Top(t)
  OBVIOUS
<1>a. PICK a : a = [f EXCEPT !.pc = "setagain"]
  OBVIOUS
<1> USE DEF poolVars, ghosts
<1>1. /\ stack[t] # <<>> /\ f.pc = "setstore" /\ f \in Frame /\ FrOK(f) /\ SetOK(f) /\ f.pc \in SetPCs
      /\ priority' = [priority EXCEPT ![f.job] = f.prio] /\ Become(t, a)
      /\ UNCHANGED <<status, generation, first_dependent, next_dependent, total, queue, issued, ghosts>>
  BY <1>t, <1>a, TopFacts DEF SetStore, At, Goto, SetPCs
<1>2. f.arg # NoHandle /\ f.job = f.arg[1] /\ f.job \in Slots
  BY <1>1, WorksOn DEF SetOK, SetPCs, FillPCs, JobLess
<1>3. SameBut(a, f, "setagain")
  BY <1>1, <1>a, Goes DEF PCs
<1>4. /\ a \in Frame /\ a.arg = f.arg /\ a.prio = f.prio /\ a.job = f.job /\ a.pc = "setagain"
      /\ ~Fills(a) /\ a.pc \in SetPCs \ {"setgen"}
  BY <1>3 DEF SameBut, Fills, FillPCs, SetPCs
<1>5. Tables(f, {a})
  <2>1. StatusMoves(f) /\ GhostMoves(f)
    BY <1>1 DEF StatusMoves, GhostMoves
  <2>2. priority'[f.job] = f.prio /\ \A x \in Slots : x # f.job => priority'[x] = priority[x]
    BY <1>1, <1>2 DEF JInv, DataOK
  <2>3. SlotMoves(f, {a})
    BY <1>1, <2>2 DEF SlotMoves, JInv, DataOK
  <2>4. FillMoves(f, {a}) /\ LinkMoves(f, {a}) /\ WaitMoves(f, {a})
    BY <1>1, <1>4 DEF FillMoves, LinkMoves, LinkPCs, WaitMoves
  <2>5. ReadyMoves(f, {a})
    BY <1>1, <1>4, <2>2 DEF ReadyMoves, Hands
  <2> QED
    BY <2>1, <2>3, <2>4, <2>5 DEF Tables
<1> QED
  BY <1>t, <1>1, <1>2, <1>4, <1>5, SetHeir

LEMMA SetRecheckOrder ==
  ASSUME JInv, JInv', OInv, NEW t \in Threads, SetRecheck(t)
  PROVE  OInv'
<1>t. PICK f : f = Top(t)
  OBVIOUS
<1>b. PICK b : b = Scheduling(f)
  OBVIOUS
<1>1. /\ stack[t] # <<>> /\ f.pc = "setagain" /\ f \in Frame /\ f.prio \in Levels
      /\ Still /\ queue' = queue
  BY <1>t, TopFacts DEF SetRecheck, At, Still
<1>2. ASSUME NEW New, \A g \in New : ~Fills(g) /\ g.pc \notin LinkPCs,
             status[f.job] # "not_started" \/ Hands(New, "enqueue", f.job, f.prio)
      PROVE  Tables(f, New)
  <2>1. StatusMoves(f) /\ SlotMoves(f, New) /\ GhostMoves(f)
    BY <1>1, StillMoves
  <2>2. FillMoves(f, New) /\ LinkMoves(f, New) /\ WaitMoves(f, New)
    BY <1>1, <1>2 DEF FillMoves, LinkMoves, LinkPCs, WaitMoves
  <2>3. ReadyMoves(f, New)
    BY <1>1, <1>2 DEF ReadyMoves
  <2> QED
    BY <2>1, <2>2, <2>3 DEF Tables
<1>3. CASE status[f.job] = "not_started"
  <2>1. Become(t, b)
    BY <1>t, <1>b, <1>3 DEF SetRecheck
  <2>2. /\ b \in Frame /\ b.pc = "enqueue" /\ b.arg = NoHandle /\ b.job = f.job /\ b.prio = f.prio
    BY <1>b, <1>1, SchedulingFrame
  <2>3. ~Fills(b) /\ b.pc \notin LinkPCs /\ b.pc \notin BusyPCs /\ b.pc \notin SubmitPCs
    BY <2>2 DEF Fills, FillPCs, LinkPCs, BusyPCs, SubmitPCs, ParkedPCs, SetPCs
  <2>4. Tables(f, {b})
    <3>1. Hands({b}, "enqueue", f.job, f.prio)
      BY <2>2 DEF Hands
    <3> QED
      BY <1>2, <2>3, <3>1
  <2>5. OrderOK(b)'
    BY <1>1, <2>2, <2>3, NamelessOrder
  <2> QED
    BY <1>t, <1>1, <2>1, <2>2, <2>3, <2>4, <2>5, BecomeKeeps
<1>4. CASE status[f.job] # "not_started"
  <2>1. Return(t)
    BY <1>t, <1>4 DEF SetRecheck
  <2>2. \A g \in {} : ~Fills(g) /\ g.pc \notin LinkPCs
    OBVIOUS
  <2>3. Tables(f, {})
    BY <1>2, <1>4, <2>2
  <2> QED
    BY <1>t, <1>1, <2>1, <2>3, ReturnKeeps
<1> QED
  BY <1>3, <1>4

-----------------------------------------------------------------------------
(* New calls, which keep the disciplines.                                  *)

LEMMA CallEntered ==
  ASSUME JInv, JInv', OInv, NEW t \in Threads, NEW a \in Frame, Enter(t, a), Still,
         a.pc \in {"alloc", "depgen", "pollgen", "setgen"}, a.prio \in Levels, NameOK(a),
         \A g \in Frames : g.arg = a.arg => g.arg = NoHandle,
         a.pc = "alloc" => a.arg = NoHandle /\ a.cur = Null
  PROVE  OInv'
<1> USE DEF Still, slotVars, poolVars, ghosts
<1>1. /\ Blank.pc = "scan" /\ Blank.pc \in PlainPCs /\ a.pc \notin SubmitPCs
      /\ ~Fills(a) /\ a.pc \notin LinkPCs /\ queue' = queue
  BY BlankFrame DEF PlainPCs, SubmitPCs, FillPCs, ParkedPCs, Fills, LinkPCs
<1>2. Tables(Blank, {a})
  BY <1>1, StillMoves, PlainMoves DEF Tables
<1>3. NameOK(a)'
  BY DEF NameOK, Settled, Live
<1>4. ReapOK(a)' /\ SetOK(a)' /\ SubmitOK(a)' /\ WalkOK(a)'
  BY DEF ReapOK, SetOK, SetPCs, SubmitOK, SubmitPCs, FillPCs, ParkedPCs, WalkOK
<1>5. OrderOK(a)'
  BY <1>3, <1>4 DEF OrderOK
<1> QED
  BY <1>1, <1>2, <1>5, EnterKeeps

LEMMA AddJobOrder ==
  ASSUME Disciplined, JInv, JInv', OInv, NEW t \in Threads, NEW p \in Priorities, AddJob(t, p)
  PROVE  OInv'
<1>a. PICK a : a = [Blank EXCEPT !.pc = "alloc", !.prio = p]
  OBVIOUS
<1>1. Enter(t, a) /\ Still /\ p \in Levels /\ p \in Nat
  BY <1>a, ConstantsOK DEF AddJob, Still, Disciplined
<1>2. a \in Frame /\ a.pc = "alloc" /\ a.arg = NoHandle /\ a.cur = Null /\ a.prio = p
  BY <1>a, <1>1, BlankFrame DEF Frame, PCs
<1>3. NameOK(a)
  BY <1>2 DEF NameOK
<1> QED
  BY <1>1, <1>2, <1>3, CallEntered

LEMMA AddJobAfterOrder ==
  ASSUME Disciplined, JInv, JInv', OInv, NEW t \in Threads, NEW h \in issued, NEW p \in Priorities,
         AddJobAfter(t, p, h)
  PROVE  OInv'
<1>a. PICK a : a = [Blank EXCEPT !.pc = "depgen", !.prio = p, !.arg = h]
  OBVIOUS
<1>0. h \in Handles /\ h # NoHandle
  BY IssuedKnown
<1>1. Enter(t, a) /\ Still /\ p \in Levels /\ p \in Nat /\ MayName(h)
  BY <1>a, ConstantsOK DEF AddJobAfter, Still, Disciplined
<1>2. a \in Frame /\ a.pc = "depgen" /\ a.arg = h /\ a.prio = p
  BY <1>a, <1>0, <1>1, BlankFrame DEF Frame, PCs
<1>3. (\A g \in Frames : g.arg # h) /\ ~Settled(h)
  BY <1>1 DEF MayName, Naming, Disciplined
<1>4. NameOK(a)
  BY <1>2, <1>3 DEF NameOK, Polling
<1> QED
  BY <1>1, <1>2, <1>3, <1>4, CallEntered

LEMMA SetPriorityOrder ==
  ASSUME Disciplined, JInv, JInv', OInv, NEW t \in Threads, NEW h \in issued, NEW p \in Priorities,
         SetPriority(t, h, p)
  PROVE  OInv'
<1>a. PICK a : a = [Blank EXCEPT !.pc = "setgen", !.arg = h, !.prio = p]
  OBVIOUS
<1>0. h \in Handles /\ h # NoHandle
  BY IssuedKnown
<1>1. Enter(t, a) /\ Still /\ p \in Levels /\ p \in Nat /\ MayName(h)
  BY <1>a, ConstantsOK DEF SetPriority, Still, Disciplined
<1>2. a \in Frame /\ a.pc = "setgen" /\ a.arg = h /\ a.prio = p
  BY <1>a, <1>0, <1>1, BlankFrame DEF Frame, PCs
<1>3. (\A g \in Frames : g.arg # h) /\ ~Settled(h)
  BY <1>1 DEF MayName, Naming, Disciplined
<1>4. NameOK(a)
  BY <1>2, <1>3 DEF NameOK, Polling
<1> QED
  BY <1>1, <1>2, <1>3, <1>4, CallEntered

LEMMA PollOrder ==
  ASSUME Disciplined, JInv, JInv', OInv, NEW t \in Threads, NEW h \in issued,
         NEW call \in {"poll", "reap", "wait"}, Poll(t, h, call)
  PROVE  OInv'
<1>w. PICK w \in BOOLEAN : w = (call = "wait")
  OBVIOUS
<1>e. PICK e \in BOOLEAN : e = (~Live(h) \/ status[h[1]] \in Finished)
  OBVIOUS
<1>a. PICK a : a = [Blank EXCEPT !.pc = "pollgen", !.arg = h, !.wait = w, !.late = e]
  OBVIOUS
<1>0. h \in Handles /\ h # NoHandle
  BY IssuedKnown
<1>1. Enter(t, a) /\ Still /\ MayPoll(h) /\ 0 \in Levels
  BY <1>w, <1>e, <1>a, ConstantsOK DEF Poll, Still, Levels
<1>2. a \in Frame /\ a.pc = "pollgen" /\ a.arg = h /\ a.prio = 0
  <2>1. h \in Handles \union {NoHandle} /\ "pollgen" \in PCs
    BY <1>0 DEF PCs
  <2> QED
    BY <1>a, <2>1, BlankFrame DEF Frame
<1>3. (\A g \in Frames : g.arg # h) /\ (dep[h] # NoHandle => Settled(dep[h]))
  BY <1>1 DEF MayPoll, Naming, Disciplined
<1>4. NameOK(a)
  BY <1>2, <1>3 DEF NameOK, Polling
<1> QED
  BY <1>1, <1>2, <1>3, <1>4, CallEntered

-----------------------------------------------------------------------------
(* The invariant holds.                                                    *)

LEMMA InitOrder ==
  ASSUME Init
  PROVE  OInv
<1>1. Frames = {} /\ \A t \in Threads : Depth(t) = 0
  BY DEF Init, Frames, Depth
<1>2. FramesOrdered /\ NamesApart /\ OwnersApart
  BY <1>1 DEF FramesOrdered, NamesApart, OwnersApart
<1>3. JobsOK /\ WaitersHeld /\ ReadyOnesHeld
  BY DEF Init, JobsOK, WaitersHeld, ReadyOnesHeld
<1>4. DepsKnown /\ NewNone /\ ClaimedAdded /\ DependencyOrder
  BY DEF Init, DepsKnown, NewNone, ClaimedAdded, DependencyOrder
<1>5. OldDone
  <2>1. \A h \in Handles : ~(h[2] < generation[h[1]])
    BY DEF Init, Handles, Slots
  <2> QED
    BY <2>1 DEF OldDone
<1>6. LevelsOK
  BY ConstantsOK DEF Init, LevelsOK, Levels
<1> QED
  BY <1>2, <1>3, <1>4, <1>5, <1>6 DEF OInv

LEMMA StutterOrder ==
  ASSUME JInv, JInv', OInv, UNCHANGED vars
  PROVE  OInv'
<1> USE DEF vars, slotVars, poolVars, ghosts
<1>1. /\ Frames' = Frames /\ \A t \in Threads : Depth(t)' = Depth(t)
      /\ \A t, k : Fr(t, k)' = Fr(t, k)
  BY DEF Frames, Depth, Fr
<1>2. /\ \A s : Filled(s)' <=> Filled(s)
      /\ \A s : Linking(s)' <=> Linking(s)
      /\ \A s : Now(s)' = Now(s)
      /\ \A h : Settled(h)' <=> Settled(h)
      /\ \A h : Live(h)' <=> Live(h)
      /\ \A s : Chain(s)' = Chain(s)
  BY <1>1 DEF Filled, Fills, Linking, Now, Settled, Live, Chain
<1>3. /\ \A y, d : Listed(y, d)' <=> Listed(y, d)
      /\ \A h : Known(h)' <=> Known(h)
  BY <1>2 DEF Listed, Known
<1>4. \A f : NameOK(f)' <=> NameOK(f)
  BY <1>2 DEF NameOK
<1>5. \A f : ReapOK(f)' <=> ReapOK(f)
  BY <1>2 DEF ReapOK
<1>6. \A f : SubmitOK(f)' <=> SubmitOK(f)
  BY <1>2, <1>3 DEF SubmitOK
<1>7. \A f : WalkOK(f)' <=> WalkOK(f)
  BY <1>2, <1>3 DEF WalkOK
<1>8. FramesOrdered'
  BY <1>1, <1>4, <1>5, <1>6, <1>7 DEF OInv, FramesOrdered, OrderOK, SetOK
<1>9. NamesApart' /\ OwnersApart'
  BY <1>1 DEF OInv, NamesApart, OwnersApart
<1>10. JobsOK'
  BY <1>2, <1>3 DEF OInv, JobsOK, JobOK
<1>11. WaitersHeld'
  BY <1>1, <1>2 DEF OInv, WaitersHeld, WaitHeld, BySubmitter, ByList, ByPromoter
<1>12. ReadyOnesHeld'
  BY <1>1, <1>2 DEF OInv, ReadyOnesHeld, ReadyHeld, Queued, Holding
<1>13. DepsKnown' /\ OldDone' /\ NewNone' /\ ClaimedAdded' /\ LevelsOK' /\ DependencyOrder'
  BY <1>2, <1>3 DEF OInv, DepsKnown, OldDone, NewNone, ClaimedAdded, LevelsOK, DependencyOrder
<1> QED
  BY <1>8, <1>9, <1>10, <1>11, <1>12, <1>13 DEF OInv

LEMMA StepOrder ==
  ASSUME Disciplined, JInv, OInv, [Next]_vars
  PROVE  OInv'
<1>0. JInv'
  BY StepInvariant
<1>1. ASSUME NEW t \in Threads, AddStep(t)
      PROVE  OInv'
  BY <1>0, <1>1, CheckDependencyOrder, AllocateOrder, FillOrder, ReadDependencyStatusOrder,
     PublishOrder, ParkOrder, LinkOrder, PrependOrder, RecheckDependencyOrder, SelfPromoteOrder,
     ReturnHandleOrder DEF AddStep
<1>2. ASSUME NEW t \in Threads, ScheduleStep(t)
      PROVE  OInv'
  BY <1>0, <1>2, LoadPriorityOrder, EnqueueOrder, ClaimInlineOrder DEF ScheduleStep
<1>3. ASSUME NEW t \in Threads, RunStep(t)
      PROVE  OInv'
  BY <1>0, <1>3, StartScanOrder, ScanOrder, MatchOrder, ClaimOrder, BeginOrder, FinishBodyOrder,
     DrainOrder, WalkOrder, PromoteOrder DEF RunStep
<1>4. ASSUME NEW t \in Threads, PollStep(t)
      PROVE  OInv'
  BY <1>0, <1>4, PollGenerationOrder, PollStatusOrder, PollGenerationAgainOrder, RecycleOrder,
     PushFreeOrder, AnswerOrder DEF PollStep
<1>5. ASSUME NEW t \in Threads, SetStep(t)
      PROVE  OInv'
  BY <1>0, <1>5, SetLookupOrder, SetStatusOrder, SetStoreOrder, SetRecheckOrder DEF SetStep
<1>6. ASSUME NEW t \in Threads, NewCall(t)
      PROVE  OInv'
  BY <1>0, <1>6, AddJobOrder, AddJobAfterOrder, PollOrder, SetPriorityOrder DEF NewCall
<1>7. CASE UNCHANGED vars
  BY <1>0, <1>7, StutterOrder
<1> QED
  BY <1>1, <1>2, <1>3, <1>4, <1>5, <1>6, <1>7 DEF Next, Step

(* The ordering invariant holds in every behaviour of callers that keep    *)
(* the disciplines: who holds a handle, a list and an entry of a queue     *)
(* (fl_jobs_*, promote_dependent_jobs, schedule_job*, jobsys.c).           *)
THEOREM OrderAlways == Disciplined => (SafeSpec => [](JInv /\ OInv))
<1> SUFFICES ASSUME Disciplined
             PROVE  SafeSpec => [](JInv /\ OInv)
  OBVIOUS
<1>1. Init => JInv /\ OInv
  BY InitInvariant, InitOrder
<1>2. (JInv /\ OInv) /\ [Next]_vars => (JInv /\ OInv)'
  BY StepInvariant, StepOrder
<1> QED
  BY <1>1, <1>2, PTL DEF SafeSpec

(* A job starts only after the one that it depends on is done, however     *)
(* submitter, promoter and recycler interleave                             *)
(* (fl_jobs_add_job_with_priority_and_dependency).                         *)
THEOREM DependencyOrderAlways == Disciplined => (SafeSpec => []DependencyOrder)
<1> SUFFICES ASSUME Disciplined
             PROVE  SafeSpec => []DependencyOrder
  OBVIOUS
<1>1. SafeSpec => [](JInv /\ OInv)
  BY OrderAlways
<1>2. JInv /\ OInv => DependencyOrder
  BY DEF OInv
<1> QED
  BY <1>1, <1>2, PTL

LEMMA FillingSlots ==
  ASSUME JInv
  PROVE  \A s : s \in Filling <=> Filled(s)
<1>1. \A x : x \in Frames <=> \E t \in Threads : \E k \in 1..Depth(t) : Fr(t, k) = x
  BY FrameSet DEF JInv
<1> QED
  BY <1>1 DEF Filling, Filled, Fills, FillPCs

(* A job that waits for another is never forgotten: it is on the list of   *)
(* one that has yet to finish, or some thread has it in hand               *)
(* (fl_jobs_add_job_with_priority_and_dependency, promote_dependent_jobs). *)
THEOREM WaitingJobIsHeldAlways == Disciplined => (SafeSpec => []WaitingJobIsHeld)
<1> SUFFICES ASSUME Disciplined
             PROVE  SafeSpec => []WaitingJobIsHeld
  OBVIOUS
<1>1. SafeSpec => [](JInv /\ OInv)
  BY OrderAlways
<1>2. JInv /\ OInv => WaitingJobIsHeld
  <2> SUFFICES ASSUME JInv, OInv, NEW s \in 1..total, ~Filled(s), status[s] = "waiting"
               PROVE  \/ \E x \in 1..total : WillDrain(x) /\ s \in Chain(first_dependent[x])
                      \/ \E f \in Frames : f.job = s /\ f.pc \in {"link", "prepend", "recheck", "selfpromote"}
                      \/ \E f \in Frames : f.pc \in {"walk", "promote"} /\ s \in Chain(f.next)
                      \/ \E f \in Frames : f.pc = "promote" /\ f.cur = s
    BY FillingSlots DEF WaitingJobIsHeld
  <2>d. PICK d : d = dep[Now(s)]
    OBVIOUS
  <2>1. WaitHeld(s)
    BY DEF OInv, WaitersHeld
  <2>2. CASE BySubmitter(s)
    BY <2>2 DEF BySubmitter
  <2>3. CASE d # NoHandle /\ Live(d) /\ ByList(s, d[1])
    <3>1. generation[s] >= 1 /\ generation[s] <= MaxJobs /\ s \in Slots
      BY Bounds DEF JInv, SlotsOK, SlotOK
    <3>2. Now(s) \in Handles
      BY <3>1, ConstantsOK DEF Now, Handles, JInv, DataOK
    <3>3. Known(d)
      BY <2>3, <2>d, <3>2 DEF OInv, DepsKnown
    <3>4. d[1] \in 1..total /\ ~Filled(d[1])
      <4>1. d[1] \in 1..total /\ generation[d[1]] \in Nat
        BY <3>3, Bounds DEF JInv, Known
      <4> QED
        BY <2>3, <3>3, <4>1 DEF Known, Live
    <3>5. WillDrain(d[1]) /\ s \in Chain(first_dependent[d[1]])
      BY <2>3, <3>4, FillingSlots DEF ByList, WillDrain
    <3> QED
      BY <3>4, <3>5
  <2>4. CASE d # NoHandle /\ Live(d) /\ ByPromoter(s, d[1])
    BY <2>4 DEF ByPromoter
  <2> QED
    BY <2>d, <2>1, <2>2, <2>3, <2>4 DEF WaitHeld
<1> QED
  BY <1>1, <1>2, PTL

(* A job that is ready is never forgotten, whatever becomes of its         *)
(* priority: the queue of its present priority has an entry for it, or     *)
(* some thread is about to enqueue or to claim it (schedule_job*,          *)
(* try_dequeue_prioritized, fl_jobs_set_priority).                         *)
THEOREM ReadyJobIsHeldAlways == Disciplined => (SafeSpec => []ReadyJobIsHeld)
<1> SUFFICES ASSUME Disciplined
             PROVE  SafeSpec => []ReadyJobIsHeld
  OBVIOUS
<1>1. SafeSpec => [](JInv /\ OInv)
  BY OrderAlways
<1>2. JInv /\ OInv => ReadyJobIsHeld
  <2> SUFFICES ASSUME JInv, OInv, NEW s \in 1..total, ~Filled(s), status[s] = "not_started"
               PROVE  \/ \E i \in DOMAIN queue[QueueOf(priority[s])] : queue[QueueOf(priority[s])][i] = s
                      \/ \E f \in Frames : f.job = s /\ f.pc \in {"loadprio", "inline"}
                      \/ \E f \in Frames : /\ f.job = s /\ f.prio = priority[s]
                                           /\ f.pc \in {"match", "claim", "enqueue", "setagain"}
    BY FillingSlots DEF ReadyJobIsHeld
  <2>1. s \in Slots
    BY Bounds DEF JInv
  <2>2. priority[s] \in Levels /\ QueueOf(priority[s]) = priority[s]
    BY <2>1 DEF OInv, LevelsOK, QueueOf
  <2>3. DOMAIN queue[priority[s]] = 1..Len(queue[priority[s]])
    BY <2>2, LenProperties DEF JInv, DataOK
  <2>4. ReadyHeld(s)
    BY DEF OInv, ReadyOnesHeld
  <2> QED
    BY <2>2, <2>3, <2>4 DEF ReadyHeld, Queued, Holding
<1> QED
  BY <1>1, <1>2, PTL

-----------------------------------------------------------------------------
(* The job system implements JobsAbstract: each action that adds, starts   *)
(* or ends a job is that step there, and the others are none.              *)

(* A handle that callers know is of a job that has been added.             *)
LEMMA KnownAdded ==
  ASSUME JInv, OInv, NEW h, Known(h)
  PROVE  phase[h] # "none"
<1> PICK s : s = h[1]
  OBVIOUS
<1>1. /\ h \in Handles /\ s \in 1..total /\ h[2] \in Nat /\ h = <<s, h[2]>>
      /\ h[2] <= generation[s] /\ (Filled(s) => h[2] < generation[s])
  BY DEF Known, Handles
<1>2. s \in Slots /\ generation[s] \in Nat /\ status[s] \in Statuses
  BY <1>1 DEF Handles, JInv, DataOK
<1>3. CASE h[2] < generation[s]
  BY <1>1, <1>3 DEF OInv, OldDone
<1>4. CASE h[2] = generation[s]
  <2>1. ~Filled(s) /\ h = Now(s)
    BY <1>1, <1>2, <1>4 DEF Now
  <2>2. CASE status[s] = "claimed"
    BY <1>1, <2>1, <2>2 DEF OInv, ClaimedAdded
  <2>3. CASE status[s] # "claimed"
    BY <1>1, <1>2, <2>1, <2>3 DEF JInv, SlotsOK, SlotOK, Statuses
  <2> QED
    BY <2>2, <2>3
<1> QED
  BY <1>1, <1>2, <1>3, <1>4

LEMMA FillSubmits ==
  ASSUME JInv, OInv, NEW t \in Threads, Fill(t)
  PROVE  Abstract!Next
<1>t. PICK f : f = Top(t)
  OBVIOUS
<1>1. /\ stack[t] # <<>> /\ f.pc = "fill"
      /\ phase' = [phase EXCEPT ![f.own] = "pending"] /\ dep' = [dep EXCEPT ![f.own] = f.arg]
  BY <1>t DEF Fill, At
<1>2. f \in Frame /\ FrOK(f) /\ SubmitOK(f) /\ (f.arg # NoHandle => Known(f.arg))
  BY <1>t, <1>1, TopFacts
<1>3. f.own \in Handles /\ phase[f.own] = "none"
  BY <1>1, <1>2, HolderSlot DEF Holds, FillPCs, FrOK, HolderOK, JInv, SubmitOK
<1>4. f.arg \in Handles \union {NoHandle} /\ (f.arg = NoHandle \/ phase[f.arg] # "none")
  BY <1>2, KnownAdded DEF Known
<1> QED
  BY <1>1, <1>3, <1>4 DEF Abstract!Next, Abstract!Submit

LEMMA BeginStarts ==
  ASSUME JInv, OInv, NEW t \in Threads, Begin(t)
  PROVE  Abstract!Next
<1>t. PICK f : f = Top(t)
  OBVIOUS
<1>h. PICK h : h = Now(f.job)
  OBVIOUS
<1>1. stack[t] # <<>> /\ f.pc = "begin" /\ dep' = dep
  BY <1>t DEF Begin, At
<1>2. f \in Frame /\ FrOK(f) /\ f.pc \in RunPCs
  BY <1>t, <1>1, TopFacts DEF RunPCs
<1>3. /\ ~Filled(f.job) /\ f.job \in 1..total /\ h \in Handles
      /\ status[f.job] = "claimed" /\ phase[h] = "pending"
  BY <1>h, <1>1, <1>2, RunUnfilled DEF FrOK, HolderOK
<1>4. function[f.job] = h
  BY <1>h, <1>3 DEF JInv, SlotsOK, SlotOK
<1>5. phase' = [phase EXCEPT ![h] = "running"]
  BY <1>t, <1>3, <1>4 DEF Begin
<1>6. dep[h] = NoHandle \/ phase[dep[h]] = "done"
  BY <1>h, <1>3 DEF OInv, JobsOK, JobOK
<1> QED
  BY <1>1, <1>3, <1>5, <1>6 DEF Abstract!Next, Abstract!Start, Abstract!Satisfied

LEMMA FinishBodyFinishes ==
  ASSUME JInv, OInv, NEW t \in Threads, FinishBody(t)
  PROVE  Abstract!Next
<1>t. PICK f : f = Top(t)
  OBVIOUS
<1>1. stack[t] # <<>> /\ f.pc = "body" /\ dep' = dep
  BY <1>t DEF FinishBody, At
<1>2. f \in Frame /\ FrOK(f) /\ f.pc \in RunPCs
  BY <1>t, <1>1, TopFacts DEF RunPCs
<1>3. f.own \in Handles /\ phase[f.own] = "running"
  BY <1>1, <1>2, RunUnfilled DEF FrOK, HolderOK
<1>4. phase' = [phase EXCEPT ![f.own] = "done"]
  BY <1>t, <1>3 DEF FinishBody
<1> QED
  BY <1>1, <1>3, <1>4 DEF Abstract!Next, Abstract!Finish

LEMMA StepImplements ==
  ASSUME JInv, OInv, [Next]_vars
  PROVE  [Abstract!Next]_ghosts
<1> USE DEF ghosts
<1>1. ASSUME NEW t \in Threads, AddStep(t)
      PROVE  Abstract!Next \/ UNCHANGED ghosts
  BY <1>1, FillSubmits DEF AddStep, CheckDependency, Allocate, ReadDependencyStatus, Publish, Park,
     Link, Prepend, RecheckDependency, SelfPromote, ReturnHandle
<1>2. ASSUME NEW t \in Threads, ScheduleStep(t)
      PROVE  UNCHANGED ghosts
  BY <1>2 DEF ScheduleStep, LoadPriority, Enqueue, ClaimInline
<1>3. ASSUME NEW t \in Threads, RunStep(t)
      PROVE  Abstract!Next \/ UNCHANGED ghosts
  BY <1>3, BeginStarts, FinishBodyFinishes DEF RunStep, StartScan, Scan, Match, Claim, Drain, Walk, Promote
<1>4. ASSUME NEW t \in Threads, PollStep(t)
      PROVE  UNCHANGED ghosts
  BY <1>4 DEF PollStep, PollGeneration, PollStatus, PollGenerationAgain, Recycle, PushFree, Answer
<1>5. ASSUME NEW t \in Threads, SetStep(t)
      PROVE  UNCHANGED ghosts
  BY <1>5 DEF SetStep, SetLookup, SetStatus, SetOld, SetStore, SetRecheck
<1>6. ASSUME NEW t \in Threads, NewCall(t)
      PROVE  UNCHANGED ghosts
  BY <1>6 DEF NewCall, AddJob, AddJobAfter, Poll, SetPriority
<1>7. CASE UNCHANGED vars
  BY <1>7 DEF vars
<1> QED
  BY <1>1, <1>2, <1>3, <1>4, <1>5, <1>6, <1>7 DEF Next, Step

(* The safety half of EveryJobRuns: whatever the interleaving of callers,  *)
(* submitters, workers and promoters, the jobs go through the lives that   *)
(* JobsAbstract allows: added once, after a known job or none, started     *)
(* once and after that job, ended once (fl_jobs_add_*, execute_job).       *)
THEOREM JobsImplementAbstract == Disciplined => (SafeSpec => Abstract!SafeSpec)
<1> SUFFICES ASSUME Disciplined
             PROVE  SafeSpec => Abstract!SafeSpec
  OBVIOUS
<1>1. SafeSpec => [](JInv /\ OInv)
  BY OrderAlways
<1>2. Init => Abstract!Init
  BY DEF Init, Abstract!Init
<1>3. (JInv /\ OInv) /\ [Next]_vars => [Abstract!Next]_(Abstract!vars)
  BY StepImplements DEF Abstract!vars, ghosts
<1> QED
  BY <1>1, <1>2, <1>3, PTL DEF SafeSpec, Abstract!SafeSpec
=============================================================================
