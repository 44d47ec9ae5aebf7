------------------------ MODULE PositionManagerProofs ------------------------
(***************************************************************************)
(* The ratchet and the targets for both sides, every parameter and any     *)
(* sequence of bars, rejections and restarts.                              *)
(***************************************************************************)
EXTENDS PositionManager, SequenceTheorems, TLAPS

-----------------------------------------------------------------------------
(* Best, and the plan of a bar.                                            *)

\* Reached is a total order on prices, so four of them have a best one.
LEMMA BestOfFour ==
    ASSUME NEW a \in Int, NEW b \in Int, NEW c \in Int, NEW d \in Int
    PROVE  /\ Best({a, b, c, d}) \in Int
           /\ Reached(Best({a, b, c, d}), a)
  <1>1. \E x \in {a, b, c, d} : \A y \in {a, b, c, d} : Reached(x, y)
    BY DEF Reached
  <1>2. /\ Best({a, b, c, d}) \in {a, b, c, d}
        /\ \A y \in {a, b, c, d} : Reached(Best({a, b, c, d}), y)
    BY <1>1 DEF Best
  <1> QED BY <1>2

LEMMA BestOfTwo ==
    ASSUME NEW a \in Int, NEW b \in Int
    PROVE  Best({a, b}) \in Int
  <1>1. {a, b, a, b} = {a, b}
    OBVIOUS
  <1> QED BY <1>1, BestOfFour

LEMMA BarTypes ==
    ASSUME NEW bar \in Bars
    PROVE  /\ bar.price \in Int
           /\ bar.atr \in Nat
           /\ bar.swing \in Int \cup {NoLevel}
           /\ bar.spread \in Nat
           /\ bar.against \in BOOLEAN
  BY ManagerAssumption DEF ManagerAssumption, Bars

\* A new stop is a price, never behind the one the plan had.
LEMMA NewSlRatchets ==
    ASSUME NEW q \in Managed, NEW bar \in Bars
    PROVE  NewSl(q, bar) \in Int /\ Reached(NewSl(q, bar), q.sl)
  <1>1. CASE ~TrailArmed(q, bar)
    BY <1>1 DEF NewSl, Reached, Managed
  <1>2. CASE TrailArmed(q, bar)
    <2> DEFINE b == IF BeFloorArmed(q) THEN Behind(0, -bar.spread) ELSE q.sl
               c == IF bar.atr > 0 /\ bar.swing # NoLevel
                    THEN Behind(bar.swing, BufferAtr * bar.atr) ELSE q.sl
               d == IF bar.atr > 0 /\ ChandelierAtr > 0
                    THEN Behind(q.peak, ChandelierAtr * bar.atr) ELSE q.sl
    <2>1. q.sl \in Int /\ q.peak \in Int
      BY DEF Managed
    <2>2. BufferAtr * bar.atr \in Int /\ ChandelierAtr * bar.atr \in Int
      BY BarTypes, ManagerAssumption DEF ManagerAssumption
    <2>3. b \in Int /\ c \in Int /\ d \in Int
      BY <2>1, <2>2, BarTypes DEF Behind
    <2>4. Anchors(q, bar) = {q.sl, b, c, d}
      BY DEF Anchors
    <2>5. NewSl(q, bar) = Best({q.sl, b, c, d})
      BY <1>2, <2>4 DEF NewSl
    <2> HIDE DEF b, c, d
    <2> QED BY <2>1, <2>3, <2>5, BestOfFour
  <1> QED BY <1>1, <1>2

LEMMA NextPlanFacts ==
    ASSUME NEW p \in Managed, NEW bar \in Bars
    PROVE  /\ NextPlan(p, bar) \in Managed
           /\ Reached(NextPlan(p, bar).sl, p.sl)
           /\ p.tp1 => NextPlan(p, bar).tp1
           /\ p.tp2 => NextPlan(p, bar).tp2
  <1> DEFINE q == AfterTargets(p, bar)
  <1>1. p.peak \in Int /\ bar.price \in Int
    BY BarTypes DEF Managed
  <1>2. Best({p.peak, bar.price}) \in Int
    BY <1>1, BestOfTwo
  <1>3. /\ q \in Managed
        /\ q.sl = p.sl
        /\ p.tp1 => q.tp1
        /\ p.tp2 => q.tp2
    BY <1>2 DEF AfterTargets, Managed
  <1>4. NewSl(q, bar) \in Int /\ Reached(NewSl(q, bar), q.sl)
    BY <1>3, NewSlRatchets
  <1> HIDE DEF q
  <1>5. NextPlan(p, bar) = [q EXCEPT !.sl = NewSl(q, bar)]
    BY DEF NextPlan, q
  <1> QED BY <1>3, <1>4, <1>5 DEF Managed

-----------------------------------------------------------------------------
(* The actions of a bar: at most one of each kind.                         *)

LEMMA ConcatFacts ==
    ASSUME NEW s \in Seq(Action), NEW t \in Seq(Action)
    PROVE  /\ s \o t \in Seq(Action)
           /\ Len(s \o t) = Len(s) + Len(t)
           /\ \A i \in 1..Len(s \o t) :
                (s \o t)[i] = IF i <= Len(s) THEN s[i] ELSE t[i - Len(s)]
  OBVIOUS

\* An action that is planned only if cond holds.
LEMMA IfFacts ==
    ASSUME NEW cond, NEW kind, NEW arg,
           cond => [kind |-> kind, arg |-> arg] \in Action
    PROVE  /\ If(cond, kind, arg) \in Seq(Action)
           /\ Len(If(cond, kind, arg)) \in {0, 1}
           /\ \A i \in 1..Len(If(cond, kind, arg)) :
                /\ cond
                /\ i = 1
                /\ If(cond, kind, arg)[i] = [kind |-> kind, arg |-> arg]
  BY DEF If

\* Where the elements of four sequences of at most one element end up.
AtPlaces(s, a, b, c, d) ==
    \A i \in 1..Len(s) :
        \/ i = Len(a) /\ 1 \in 1..Len(a) /\ s[i] = a[1]
        \/ i = Len(a) + Len(b) /\ 1 \in 1..Len(b) /\ s[i] = b[1]
        \/ i = Len(a) + Len(b) + Len(c) /\ 1 \in 1..Len(c) /\ s[i] = c[1]
        \/ /\ i = Len(a) + Len(b) + Len(c) + Len(d)
           /\ 1 \in 1..Len(d)
           /\ s[i] = d[1]

\* Four optional actions in a row are at the places their lengths give.
LEMMA FourFacts ==
    ASSUME NEW a \in Seq(Action), NEW b \in Seq(Action),
           NEW c \in Seq(Action), NEW d \in Seq(Action),
           Len(a) \in {0, 1}, Len(b) \in {0, 1},
           Len(c) \in {0, 1}, Len(d) \in {0, 1}
    PROVE  /\ a \o b \o c \o d \in Seq(Action)
           /\ AtPlaces(a \o b \o c \o d, a, b, c, d)
  <1> DEFINE u == a \o b
             v == u \o c
             s == v \o d
  <1>1. /\ u \in Seq(Action)
        /\ Len(u) = Len(a) + Len(b)
        /\ \A i \in 1..Len(u) : u[i] = IF i <= Len(a) THEN a[i] ELSE b[i - Len(a)]
    BY ConcatFacts
  <1> HIDE DEF u
  <1>2. /\ v \in Seq(Action)
        /\ Len(v) = Len(u) + Len(c)
        /\ \A i \in 1..Len(v) : v[i] = IF i <= Len(u) THEN u[i] ELSE c[i - Len(u)]
    BY <1>1, ConcatFacts
  <1> HIDE DEF v
  <1>3. /\ s \in Seq(Action)
        /\ Len(s) = Len(v) + Len(d)
        /\ \A i \in 1..Len(s) : s[i] = IF i <= Len(v) THEN v[i] ELSE d[i - Len(v)]
    BY <1>2, ConcatFacts
  <1> HIDE DEF s
  <1>4. ASSUME NEW i \in 1..Len(s)
        PROVE  \/ i = Len(a) /\ 1 \in 1..Len(a) /\ s[i] = a[1]
               \/ i = Len(a) + Len(b) /\ 1 \in 1..Len(b) /\ s[i] = b[1]
               \/ i = Len(a) + Len(b) + Len(c) /\ 1 \in 1..Len(c) /\ s[i] = c[1]
               \/ /\ i = Len(a) + Len(b) + Len(c) + Len(d)
                  /\ 1 \in 1..Len(d)
                  /\ s[i] = d[1]
    <2> DEFINE la == Len(a)
               lb == Len(b)
               lc == Len(c)
               ld == Len(d)
    <2>1. /\ la \in {0, 1} /\ lb \in {0, 1} /\ lc \in {0, 1} /\ ld \in {0, 1}
          /\ Len(u) = la + lb /\ Len(v) = la + lb + lc
          /\ i \in 1..(la + lb + lc + ld)
      BY <1>1, <1>2, <1>3
    <2>2. /\ i \in 1..la => s[i] = a[i]
          /\ i > la /\ i <= la + lb => s[i] = b[i - la]
          /\ i > la + lb /\ i <= la + lb + lc => s[i] = c[i - (la + lb)]
          /\ i > la + lb + lc => s[i] = d[i - (la + lb + lc)]
      <3>1. i <= la + lb + lc => s[i] = v[i] /\ i \in 1..Len(v)
        BY <1>3, <2>1
      <3>2. i <= la + lb => v[i] = u[i] /\ i \in 1..Len(u)
        BY <1>2, <2>1, <3>1
      <3>3. i <= la => u[i] = a[i]
        BY <1>1, <2>1, <3>2
      <3>4. i > la /\ i <= la + lb => u[i] = b[i - la]
        <4>1. i > la => ~(i <= Len(a))
          BY <2>1
        <4> QED BY <1>1, <3>2, <4>1
      <3>5. i > la + lb /\ i <= la + lb + lc => v[i] = c[i - (la + lb)]
        <4>1. i > la + lb => ~(i <= Len(u))
          BY <2>1
        <4> QED BY <1>2, <2>1, <3>1, <4>1
      <3>6. i > la + lb + lc => s[i] = d[i - (la + lb + lc)]
        <4>1. i > la + lb + lc => ~(i <= Len(v))
          BY <2>1
        <4> QED BY <1>3, <2>1, <4>1
      <3> HIDE DEF la, lb, lc, ld
      <3>7. /\ i <= la => i <= la + lb
            /\ i <= la + lb => i <= la + lb + lc
            /\ i \in 1..la => i <= la
        BY <2>1
      <3>8. i <= la => s[i] = a[i]
        BY <3>1, <3>2, <3>3, <3>7
      <3>9. i > la /\ i <= la + lb => s[i] = b[i - la]
        BY <3>1, <3>2, <3>4, <3>7
      <3>10. i > la + lb /\ i <= la + lb + lc => s[i] = c[i - (la + lb)]
        BY <3>1, <3>5
      <3> QED BY <3>6, <3>7, <3>8, <3>9, <3>10
    <2> HIDE DEF la, lb, lc, ld
    <2>3. \/ i = la /\ la = 1 /\ s[i] = a[1]
          \/ i = la + lb /\ lb = 1 /\ s[i] = b[1]
          \/ i = la + lb + lc /\ lc = 1 /\ s[i] = c[1]
          \/ i = la + lb + lc + ld /\ ld = 1 /\ s[i] = d[1]
      <3>1. CASE i <= la
        <4>1. i = 1 /\ la = 1 /\ i \in 1..la
          BY <2>1, <3>1
        <4>2. s[i] = a[i]
          BY <2>2, <4>1
        <4> QED BY <4>1, <4>2
      <3>2. CASE i > la /\ i <= la + lb
        <4>1. i - la = 1 /\ lb = 1 /\ i = la + lb
          BY <2>1, <3>2
        <4> QED BY <2>2, <3>2, <4>1
      <3>3. CASE i > la + lb /\ i <= la + lb + lc
        <4>1. i - (la + lb) = 1 /\ lc = 1 /\ i = la + lb + lc
          BY <2>1, <3>3
        <4> QED BY <2>2, <3>3, <4>1
      <3>4. CASE i > la + lb + lc
        <4>1. i - (la + lb + lc) = 1 /\ ld = 1 /\ i = la + lb + lc + ld
          BY <2>1, <3>4
        <4> QED BY <2>2, <3>4, <4>1
      <3> QED BY <2>1, <3>1, <3>2, <3>3, <3>4
    <2>4. la = 1 => 1 \in 1..la
      BY <2>1
    <2>5. lb = 1 => 1 \in 1..lb
      BY <2>1
    <2>6. lc = 1 => 1 \in 1..lc
      BY <2>1
    <2>7. ld = 1 => 1 \in 1..ld
      BY <2>1
    <2> QED BY <2>3, <2>4, <2>5, <2>6, <2>7 DEF la, lb, lc, ld
  <1>5. AtPlaces(s, a, b, c, d)
    BY <1>4 DEF AtPlaces
  <1> QED BY <1>3, <1>5 DEF s, v, u

\* What the invariant needs to know of the actions that lead from p to q.
Planned(acts, p, q) ==
    /\ \A i, j \in 1..Len(acts) : acts[i].kind = acts[j].kind => i = j
    /\ \A i \in 1..Len(acts) :
          /\ acts[i].kind = "modify_sl" =>
                acts[i].arg = q.sl /\ Tighter(q.sl, p.sl)
          /\ acts[i].kind = "tp1" => q.tp1 /\ ~p.tp1
          /\ acts[i].kind = "tp2" => q.tp2 /\ ~p.tp2
          /\ acts[i].kind \in Targets => acts[i].arg >= MinVolume

LEMMA ActionsFacts ==
    ASSUME NEW p \in Managed, NEW bar \in Bars
    PROVE  /\ Actions(p, bar) \in Seq(Action)
           /\ ~weekend => Planned(Actions(p, bar), p, NextPlan(p, bar))
           /\ weekend => Planned(Actions(p, bar), p, p)
  <1>1. CASE weekend
    <2>1. Actions(p, bar) = <<[kind |-> "close_all", arg |-> 0]>>
      BY <1>1 DEF Actions, If
    <2> QED BY <1>1, <2>1 DEF Planned, Action, Targets
  <1>2. CASE ~weekend
    <2> DEFINE q == NextPlan(p, bar)
               hit1 == q.tp1 /\ ~p.tp1 /\ Share(Tp1Pct) >= MinVolume
               hit2 == q.tp2 /\ ~p.tp2 /\ Share(Tp2Pct) >= MinVolume
               up == Tighter(q.sl, p.sl)
               out == Tp3 # NoLevel /\ bar.against
                      /\ ~Reached(bar.price, Level(Tp3))
               a == If(hit1, "tp1", Share(Tp1Pct))
               b == If(hit2, "tp2", Share(Tp2Pct))
               c == If(up, "modify_sl", q.sl)
               d == If(out, "close_all", 0)
    <2>1. Actions(p, bar) = a \o b \o c \o d
      BY <1>2 DEF Actions
    <2>2. q \in Managed
      BY NextPlanFacts
    <2>3. Share(Tp1Pct) \in Int /\ Share(Tp2Pct) \in Int
      <3>1. ASSUME NEW pct \in 0..100 PROVE Share(pct) \in Int
        <4>1. Volume * pct \in Int
          BY ManagerAssumption DEF ManagerAssumption
        <4> QED BY <4>1 DEF Share
      <3> QED BY <3>1, ManagerAssumption DEF ManagerAssumption
    <2> HIDE DEF q, hit1, hit2, up, out
    <2>4. /\ [kind |-> "tp1", arg |-> Share(Tp1Pct)] \in Action
          /\ [kind |-> "tp2", arg |-> Share(Tp2Pct)] \in Action
          /\ [kind |-> "modify_sl", arg |-> q.sl] \in Action
          /\ [kind |-> "close_all", arg |-> 0] \in Action
      BY <2>2, <2>3 DEF Action, Targets, Managed
    <2>5. /\ a \in Seq(Action) /\ Len(a) \in {0, 1}
          /\ 1 \in 1..Len(a) => hit1 /\ a[1].kind = "tp1" /\ a[1].arg = Share(Tp1Pct)
      BY <2>4, IfFacts
    <2>6. /\ b \in Seq(Action) /\ Len(b) \in {0, 1}
          /\ 1 \in 1..Len(b) => hit2 /\ b[1].kind = "tp2" /\ b[1].arg = Share(Tp2Pct)
      BY <2>4, IfFacts
    <2>7. /\ c \in Seq(Action) /\ Len(c) \in {0, 1}
          /\ 1 \in 1..Len(c) => up /\ c[1].kind = "modify_sl" /\ c[1].arg = q.sl
      BY <2>4, IfFacts
    <2>8. /\ d \in Seq(Action) /\ Len(d) \in {0, 1}
          /\ 1 \in 1..Len(d) => d[1].kind = "close_all"
      BY <2>4, IfFacts
    <2> HIDE DEF a, b, c, d
    <2> DEFINE s == a \o b \o c \o d
    <2>9. s \in Seq(Action) /\ AtPlaces(s, a, b, c, d)
      BY <2>5, <2>6, <2>7, <2>8, FourFacts
    <2> HIDE DEF s
    <2>10. \A i \in 1..Len(s) :
             \/ /\ s[i].kind = "tp1" /\ s[i].arg = Share(Tp1Pct) /\ hit1
                /\ i = Len(a)
             \/ /\ s[i].kind = "tp2" /\ s[i].arg = Share(Tp2Pct) /\ hit2
                /\ i = Len(a) + Len(b)
             \/ /\ s[i].kind = "modify_sl" /\ s[i].arg = q.sl /\ up
                /\ i = Len(a) + Len(b) + Len(c)
             \/ s[i].kind = "close_all" /\ i = Len(a) + Len(b) + Len(c) + Len(d)
      BY <2>5, <2>6, <2>7, <2>8, <2>9 DEF AtPlaces
    <2>11. Planned(s, p, q)
      <3>1. \A i, j \in 1..Len(s) : s[i].kind = s[j].kind => i = j
        BY <2>10
      <3>2. \A i \in 1..Len(s) :
              /\ s[i].kind = "modify_sl" => s[i].arg = q.sl /\ Tighter(q.sl, p.sl)
              /\ s[i].kind = "tp1" => q.tp1 /\ ~p.tp1
              /\ s[i].kind = "tp2" => q.tp2 /\ ~p.tp2
              /\ s[i].kind \in Targets => s[i].arg >= MinVolume
        BY <2>10 DEF hit1, hit2, up, Targets
      <3> QED BY <3>1, <3>2 DEF Planned
    <2> QED BY <1>2, <2>1, <2>9, <2>11 DEF s, q
  <1> QED BY <1>1, <1>2

-----------------------------------------------------------------------------
(* The inductive invariant.                                                *)

\* The actions in hand lead from the stored plan to the updated one.
Work ==
    /\ pc = "apply" <=> todo # <<>>
    /\ pc # "idle" => /\ Planned(todo, plan, next)
                      /\ Reached(next.sl, plan.sl)
                      /\ plan.tp1 => next.tp1
                      /\ plan.tp2 => next.tp2

\* The stored stop is at least as tight as the broker's, unless the broker
\* has just been given the updated one and the store is still to come.
StopBehindPlan ==
    ~stale => \/ Reached(plan.sl, stop)
              \/ pc # "idle" /\ touched /\ stop = next.sl

\* A target that was banked is marked, in the stored plan or in the updated
\* one that is about to replace it.
Banked(t, stored, updated) ==
    /\ banked[t] <= 1
    /\ banked[t] > 0 =>
          \/ stored
          \/ /\ pc # "idle" /\ touched /\ updated
             /\ \A i \in 1..Len(todo) : todo[i].kind # t

BankedIsMarked ==
    ~stale => /\ Banked("tp1", plan.tp1, next.tp1)
              /\ Banked("tp2", plan.tp2, next.tp2)

IInv == TypeOK /\ Work /\ StopBehindPlan /\ BankedIsMarked

LEMMA InitIInv == Init => IInv
  <1> SUFFICES ASSUME Init PROVE IInv
    OBVIOUS
  <1>1. Level(-InitialRisk) \in Int
    BY ManagerAssumption DEF ManagerAssumption, Level
  <1>2. lots \in 0..Volume /\ faults \in 0..MaxFaults
    BY ManagerAssumption DEF ManagerAssumption, Init
  <1>3. plan \in Managed /\ next \in Managed
    BY <1>1 DEF Init, Managed
  <1>4. todo \in Seq(Action) /\ banked \in [Targets -> Nat]
    BY DEF Init
  <1>5. TypeOK
    <2>1. /\ side \in {"BUY", "SELL"} /\ pc = "idle"
          /\ odd = FALSE /\ weekend = FALSE /\ touched = FALSE
          /\ stale = FALSE
      BY DEF Init
    <2>2. stop \in Int /\ extreme \in Int
      BY <1>1 DEF Init
    <2> QED BY <1>2, <1>3, <1>4, <2>1, <2>2 DEF TypeOK
  <1>6. StopBehindPlan
    BY <1>1 DEF Init, StopBehindPlan, Reached
  <1>7. Work /\ BankedIsMarked
    BY DEF Init, Work, BankedIsMarked, Banked, Targets
  <1> QED BY <1>5, <1>6, <1>7 DEF IInv

LEMMA TailFacts ==
    ASSUME NEW s \in Seq(Action), s # <<>>
    PROVE  /\ Head(s) = s[1] /\ 1 \in 1..Len(s) /\ s[1] \in Action
           /\ Tail(s) \in Seq(Action)
           /\ Len(Tail(s)) = Len(s) - 1
           /\ \A i \in 1..Len(Tail(s)) : /\ Tail(s)[i] = s[i + 1]
                                         /\ i + 1 \in 1..Len(s)
           /\ Len(s) = 1 <=> Tail(s) = <<>>
  <1>1. /\ Len(s) \in Nat \ {0} /\ Head(s) = s[1] /\ s[1] \in Action
        /\ Tail(s) \in Seq(Action)
        /\ Len(Tail(s)) = Len(s) - 1
        /\ \A i \in 1..Len(Tail(s)) : Tail(s)[i] = s[i + 1]
    BY EmptySeq
  <1>2. Tail(s) = <<>> <=> Len(Tail(s)) = 0
    BY <1>1, EmptySeq
  <1> QED BY <1>1, <1>2

\* What is still planned when the first action is done with.
LEMMA TailPlanned ==
    ASSUME NEW s \in Seq(Action), s # <<>>, NEW p, NEW q, Planned(s, p, q)
    PROVE  /\ Planned(Tail(s), p, q)
           /\ \A i \in 1..Len(Tail(s)) : Tail(s)[i].kind # Head(s).kind
  <1>1. /\ Head(s) = s[1] /\ 1 \in 1..Len(s)
        /\ \A i \in 1..Len(Tail(s)) : /\ Tail(s)[i] = s[i + 1]
                                      /\ i + 1 \in 1..Len(s) /\ i \in Nat /\ i >= 1
    BY TailFacts
  <1>2. \A i, j \in 1..Len(Tail(s)) :
            Tail(s)[i].kind = Tail(s)[j].kind => i = j
    <2> SUFFICES ASSUME NEW i \in 1..Len(Tail(s)), NEW j \in 1..Len(Tail(s)),
                        Tail(s)[i].kind = Tail(s)[j].kind
                 PROVE  i = j
      OBVIOUS
    <2>1. s[i + 1].kind = s[j + 1].kind /\ i + 1 \in 1..Len(s) /\ j + 1 \in 1..Len(s)
      BY <1>1
    <2>2. i + 1 = j + 1
      BY <2>1 DEF Planned
    <2> QED BY <2>2
  <1>3. \A i \in 1..Len(Tail(s)) : Tail(s)[i].kind # Head(s).kind
    <2> SUFFICES ASSUME NEW i \in 1..Len(Tail(s)),
                        Tail(s)[i].kind = Head(s).kind
                 PROVE  FALSE
      OBVIOUS
    <2>1. s[i + 1].kind = s[1].kind /\ i + 1 \in 1..Len(s)
      BY <1>1
    <2>2. i + 1 = 1
      BY <1>1, <2>1 DEF Planned
    <2> QED BY <2>2, <1>1
  <1> QED BY <1>1, <1>2, <1>3 DEF Planned

-----------------------------------------------------------------------------
(* Every step keeps it.                                                    *)

LEMMA NextTypeOK == TypeOK /\ Work /\ [Next]_vars => TypeOK'
  <1> SUFFICES ASSUME TypeOK, Work, [Next]_vars PROVE TypeOK'
    OBVIOUS
  <1>1. CASE PlanBar
    <2>1. PICK bar \in Bars : /\ todo' = Actions(plan, bar)
                              /\ next' = IF weekend THEN plan ELSE NextPlan(plan, bar)
                              /\ extreme' = Best({extreme, bar.price})
      BY <1>1 DEF PlanBar
    <2>2. todo' \in Seq(Action) /\ next' \in Managed
      BY <2>1, ActionsFacts, NextPlanFacts DEF TypeOK
    <2>3. extreme' \in Int
      BY <2>1, BarTypes, BestOfTwo DEF TypeOK
    <2>4. pc' \in {"idle", "apply"} /\ odd' \in BOOLEAN /\ touched' \in BOOLEAN
      BY <1>1 DEF PlanBar, TypeOK
    <2> QED BY <1>1, <2>2, <2>3, <2>4 DEF PlanBar, TypeOK
  <1>2. CASE Apply
    <2> DEFINE a == Head(todo)
    <2>1. pc = "apply" /\ todo # <<>> /\ Planned(todo, plan, next)
      BY <1>2 DEF Apply, Work
    <2>2. /\ a \in Action /\ a = todo[1] /\ 1 \in 1..Len(todo)
          /\ Tail(todo) \in Seq(Action)
      BY <2>1, TailFacts DEF TypeOK
    <2>3. a.arg \in Int /\ (a.kind \in Targets => a.arg >= MinVolume)
      BY <2>1, <2>2 DEF Planned, Action
    <2>4. lots' \in 0..Volume
      <3>1. lots \in Nat /\ lots <= Volume /\ Volume \in Nat /\ MinVolume \in Nat
        BY ManagerAssumption DEF ManagerAssumption, TypeOK
      <3>2. \/ lots' = 0
            \/ lots' = lots
            \/ a.kind \in Targets /\ a.arg < lots /\ lots' = lots - a.arg
        BY <1>2 DEF Apply
      <3> QED BY <2>3, <3>1, <3>2
    <2>5. stop' \in Int
      BY <1>2, <2>3 DEF Apply, TypeOK
    <2>6. banked' \in [Targets -> Nat]
      BY <1>2 DEF Apply, TypeOK
    <2>7. /\ todo' \in Seq(Action) /\ pc' \in {"idle", "apply", "store"}
          /\ touched' \in BOOLEAN
      BY <1>2, <2>2 DEF Apply, Step, TypeOK
    <2> QED BY <1>2, <2>4, <2>5, <2>6, <2>7 DEF Apply, TypeOK
  <1>3. CASE ApplyFails
    <2>1. todo # <<>>
      BY <1>3 DEF ApplyFails, Work
    <2>2. todo' \in Seq(Action) /\ pc' \in {"apply", "store"}
      BY <1>3, <2>1, TailFacts DEF ApplyFails, Step, TypeOK
    <2>3. faults' \in 0..MaxFaults
      <3>1. faults' = faults \/ Fault
        BY <1>3 DEF ApplyFails
      <3> QED BY <3>1, ManagerAssumption DEF ManagerAssumption, Fault, TypeOK
    <2> QED BY <1>3, <2>2, <2>3 DEF ApplyFails, hist, TypeOK
  <1>4. CASE Store
    BY <1>4 DEF Store, hist, TypeOK
  <1>5. CASE Abort
    <2>1. faults' \in 0..MaxFaults
      BY <1>5, ManagerAssumption DEF ManagerAssumption, Abort, Fault, TypeOK
    <2>2. /\ todo' \in Seq(Action) /\ pc' = "idle" /\ stale' \in BOOLEAN
      BY <1>5 DEF Abort, TypeOK
    <2> QED BY <1>5, <2>1, <2>2 DEF Abort, TypeOK
  <1>6. CASE BrokerCloses
    <2>1. lots' \in 0..Volume
      BY <1>6, ManagerAssumption DEF ManagerAssumption, BrokerCloses
    <2> QED BY <1>6, <2>1 DEF BrokerCloses, hist, TypeOK
  <1>7. CASE WeekendBegins
    BY <1>7 DEF WeekendBegins, hist, TypeOK
  <1>8. CASE UNCHANGED vars
    BY <1>8 DEF vars, hist, TypeOK
  <1> QED BY <1>1, <1>2, <1>3, <1>4, <1>5, <1>6, <1>7, <1>8 DEF Next, Manage

\* The ratchet: a new stop is tighter than the stored one, and that is at
\* least as tight as the broker's.
LEMMA NextStop ==
    IInv /\ [Next]_vars =>
        (stop' # stop => stale \/ Tighter(stop', stop))
  <1> SUFFICES ASSUME IInv, [Next]_vars, stop' # stop, ~stale
               PROVE  Tighter(stop', stop)
    BY DEF IInv, TypeOK
  <1>1. Apply
    BY DEF Next, Manage, PlanBar, ApplyFails, Store, Abort, BrokerCloses,
           WeekendBegins, vars
  <1>2. pc = "apply" /\ todo # <<>> /\ Planned(todo, plan, next)
    BY <1>1 DEF Apply, IInv, Work
  <1>3. Head(todo) = todo[1] /\ 1 \in 1..Len(todo)
    BY <1>2, TailFacts DEF IInv, TypeOK
  <1>4. Head(todo).kind = "modify_sl" /\ stop' = Head(todo).arg
    BY <1>1 DEF Apply
  <1>5. stop' = next.sl /\ Tighter(next.sl, plan.sl)
    BY <1>2, <1>3, <1>4 DEF Planned
  <1>6. Reached(plan.sl, stop)
    BY <1>5 DEF IInv, StopBehindPlan
  <1>7. plan.sl \in Int /\ next.sl \in Int /\ stop \in Int
    BY DEF IInv, TypeOK, Managed
  <1> QED BY <1>5, <1>6, <1>7 DEF Tighter, Reached

LEMMA ReachedTwice ==
    ASSUME TypeOK, NEW x \in Int
    PROVE  Reached(x, x)
  BY DEF Reached

LEMMA NextWork == IInv /\ [Next]_vars => Work'
  <1> SUFFICES ASSUME IInv, [Next]_vars PROVE Work'
    OBVIOUS
  <1> USE DEF IInv
  <1>1. CASE PlanBar
    <2>1. PICK bar \in Bars : /\ todo' = Actions(plan, bar)
                              /\ next' = IF weekend THEN plan ELSE NextPlan(plan, bar)
      BY <1>1 DEF PlanBar
    <2>2. Planned(todo', plan, next')
      BY <2>1, ActionsFacts DEF TypeOK
    <2>3. /\ Reached(next'.sl, plan.sl)
          /\ plan.tp1 => next'.tp1
          /\ plan.tp2 => next'.tp2
      BY <2>1, NextPlanFacts, ReachedTwice DEF TypeOK, Managed
    <2>4. plan' = plan /\ side' = side /\ (pc' = "apply" <=> todo' # <<>>)
      BY <1>1 DEF PlanBar
    <2> QED BY <2>2, <2>3, <2>4 DEF Work, Planned, Reached, Tighter
  <1>2. CASE Apply \/ ApplyFails
    <2>1. /\ pc = "apply" /\ Step /\ plan' = plan /\ next' = next /\ side' = side
      BY <1>2 DEF Apply, ApplyFails
    <2>2. todo # <<>> /\ Planned(todo, plan, next)
      BY <2>1 DEF Work
    <2>3. Planned(todo', plan, next)
      BY <2>1, <2>2, TailPlanned DEF Step, TypeOK
    <2>4. pc' = "apply" <=> todo' # <<>>
      BY <2>1, <2>2, TailFacts DEF Step, TypeOK
    <2> QED BY <2>1, <2>3, <2>4 DEF Work, Planned, Reached, Tighter
  <1>3. CASE Store
    <2>1. todo = <<>> /\ pc' = "idle" /\ todo' = todo
      BY <1>3 DEF Store, Work
    <2> QED BY <2>1 DEF Work
  <1>4. CASE Abort
    BY <1>4 DEF Abort, Work
  <1>5. CASE BrokerCloses \/ WeekendBegins \/ UNCHANGED vars
    <2>1. UNCHANGED <<pc, todo, plan, next, side>>
      BY <1>5 DEF BrokerCloses, WeekendBegins, vars
    <2> QED BY <2>1 DEF Work, Planned, Reached, Tighter
  <1> QED BY <1>1, <1>2, <1>3, <1>4, <1>5 DEF Next, Manage

LEMMA NextStopBehindPlan == IInv /\ [Next]_vars => StopBehindPlan'
  <1> SUFFICES ASSUME IInv, [Next]_vars, ~stale'
               PROVE  StopBehindPlan'
    BY DEF StopBehindPlan
  <1> USE DEF IInv
  <1>1. ~stale
    BY DEF Next, Manage, PlanBar, Apply, ApplyFails, Store, Abort,
           BrokerCloses, WeekendBegins, hist, vars, TypeOK
  <1>2. plan.sl \in Int /\ next.sl \in Int /\ stop \in Int
    BY DEF TypeOK, Managed
  <1>3. CASE PlanBar
    <2>1. pc = "idle" /\ UNCHANGED <<plan, stop, side>>
      BY <1>3 DEF PlanBar
    <2> QED BY <1>1, <2>1 DEF StopBehindPlan, Reached
  <1>4. CASE Apply
    <2>1. /\ pc = "apply" /\ pc' # "idle" /\ touched' = TRUE
          /\ UNCHANGED <<plan, next, side>>
          /\ stop' = IF Head(todo).kind = "modify_sl" THEN Head(todo).arg ELSE stop
      BY <1>4 DEF Apply, Step
    <2>2. CASE Head(todo).kind = "modify_sl"
      <3>1. todo # <<>> /\ Planned(todo, plan, next)
        BY <2>1 DEF Work
      <3>2. Head(todo) = todo[1] /\ 1 \in 1..Len(todo)
        BY <3>1, TailFacts DEF TypeOK
      <3>3. Head(todo).arg = next.sl
        BY <3>1, <3>2, <2>2 DEF Planned
      <3> QED BY <2>1, <2>2, <3>3 DEF StopBehindPlan
    <2>3. CASE Head(todo).kind # "modify_sl"
      <3>1. stop' = stop
        BY <2>1, <2>3
      <3> QED BY <1>1, <2>1, <3>1 DEF StopBehindPlan, Reached
    <2> QED BY <2>2, <2>3
  <1>5. CASE ApplyFails
    <2>1. pc' # "idle" /\ UNCHANGED <<plan, next, side, stop, touched>>
      BY <1>5 DEF ApplyFails, Step
    <2> QED BY <1>1, <2>1 DEF StopBehindPlan, Reached
  <1>6. CASE Store
    <2>1. /\ pc = "store" /\ plan' = next /\ UNCHANGED <<side, stop>>
          /\ Reached(next.sl, plan.sl)
      BY <1>6 DEF Store, Work
    <2>2. \/ Reached(plan.sl, stop)
          \/ stop = next.sl
      BY <1>1 DEF StopBehindPlan
    <2>3. Reached(next.sl, stop)
      BY <1>2, <2>1, <2>2 DEF Reached
    <2> QED BY <2>1, <2>3 DEF StopBehindPlan, Reached
  <1>7. CASE Abort
    <2>1. ~touched /\ UNCHANGED <<side, stop, plan>>
      BY <1>7 DEF Abort, TypeOK
    <2> QED BY <1>1, <2>1 DEF StopBehindPlan, Reached
  <1>8. CASE BrokerCloses \/ WeekendBegins \/ UNCHANGED vars
    <2>1. UNCHANGED <<pc, plan, next, side, stop, touched>>
      BY <1>8 DEF BrokerCloses, WeekendBegins, vars
    <2> QED BY <1>1, <2>1 DEF StopBehindPlan, Reached
  <1> QED BY <1>3, <1>4, <1>5, <1>6, <1>7, <1>8 DEF Next, Manage

LEMMA NextBanked == IInv /\ [Next]_vars => BankedIsMarked'
  <1> SUFFICES ASSUME IInv, [Next]_vars, ~stale'
               PROVE  BankedIsMarked'
    BY DEF BankedIsMarked
  <1> USE DEF IInv
  <1>1. ~stale
    BY DEF Next, Manage, PlanBar, Apply, ApplyFails, Store, Abort,
           BrokerCloses, WeekendBegins, hist, vars, TypeOK
  <1>2. /\ Banked("tp1", plan.tp1, next.tp1)
        /\ Banked("tp2", plan.tp2, next.tp2)
    BY <1>1 DEF BankedIsMarked
  <1>3. CASE PlanBar
    <2>1. pc = "idle" /\ UNCHANGED <<plan, banked>>
      BY <1>3 DEF PlanBar
    <2> QED BY <1>2, <2>1 DEF BankedIsMarked, Banked
  <1>4. CASE Apply
    <2>1. /\ pc = "apply" /\ pc' # "idle" /\ touched' = TRUE
          /\ todo' = Tail(todo)
          /\ UNCHANGED <<plan, next>>
          /\ banked' = [t \in Targets |-> IF t = Head(todo).kind
                                          THEN banked[t] + 1 ELSE banked[t]]
      BY <1>4 DEF Apply, Step
    <2>2. todo # <<>> /\ Planned(todo, plan, next)
      BY <2>1 DEF Work
    <2>3. /\ Head(todo) = todo[1] /\ 1 \in 1..Len(todo)
          /\ \A i \in 1..Len(Tail(todo)) : /\ Tail(todo)[i] = todo[i + 1]
                                           /\ i + 1 \in 1..Len(todo)
          /\ \A i \in 1..Len(Tail(todo)) : Tail(todo)[i].kind # Head(todo).kind
      BY <2>2, TailFacts, TailPlanned DEF TypeOK
    <2>4. /\ Head(todo).kind = "tp1" => next.tp1 /\ ~plan.tp1
          /\ Head(todo).kind = "tp2" => next.tp2 /\ ~plan.tp2
      BY <2>2, <2>3 DEF Planned
    <2>5. ASSUME NEW t \in Targets, NEW stored \in BOOLEAN, NEW updated \in BOOLEAN,
                 Banked(t, stored, updated),
                 Head(todo).kind = t => updated /\ ~stored
          PROVE  /\ banked'[t] <= 1
                 /\ banked'[t] > 0 =>
                       \/ stored
                       \/ /\ updated
                          /\ \A i \in 1..Len(todo') : todo'[i].kind # t
      <3>1. banked[t] \in Nat
        BY DEF TypeOK
      <3>2. CASE Head(todo).kind = t
        <4>1. banked[t] = 0
          BY <2>3, <2>5, <3>1, <3>2 DEF Banked
        <4>2. banked'[t] = 1
          BY <2>1, <3>2, <4>1
        <4> QED BY <2>1, <2>3, <2>5, <3>2, <4>2
      <3>3. CASE Head(todo).kind # t
        <4>1. banked'[t] = banked[t]
          BY <2>1, <3>3
        <4>2. (\A i \in 1..Len(todo) : todo[i].kind # t) =>
                  \A i \in 1..Len(todo') : todo'[i].kind # t
          BY <2>1, <2>3
        <4> QED BY <2>5, <4>1, <4>2 DEF Banked
      <3> QED BY <3>2, <3>3
    <2>6. /\ plan.tp1 \in BOOLEAN /\ plan.tp2 \in BOOLEAN
          /\ next.tp1 \in BOOLEAN /\ next.tp2 \in BOOLEAN
      BY DEF TypeOK, Managed
    <2>7. /\ banked'["tp1"] <= 1
          /\ banked'["tp1"] > 0 =>
                \/ plan.tp1
                \/ /\ next.tp1
                   /\ \A i \in 1..Len(todo') : todo'[i].kind # "tp1"
      BY <1>2, <2>4, <2>5, <2>6 DEF Targets
    <2>8. /\ banked'["tp2"] <= 1
          /\ banked'["tp2"] > 0 =>
                \/ plan.tp2
                \/ /\ next.tp2
                   /\ \A i \in 1..Len(todo') : todo'[i].kind # "tp2"
      BY <1>2, <2>4, <2>5, <2>6 DEF Targets
    <2>9. /\ Banked("tp1", plan.tp1, next.tp1)'
          /\ Banked("tp2", plan.tp2, next.tp2)'
      BY <2>1, <2>7, <2>8 DEF Banked
    <2> QED BY <2>9 DEF BankedIsMarked
  <1>5. CASE ApplyFails
    <2>1. /\ pc = "apply" /\ pc' # "idle" /\ todo' = Tail(todo)
          /\ UNCHANGED <<plan, next, touched, banked>>
      BY <1>5 DEF ApplyFails, Step, hist
    <2>2. todo # <<>>
      BY <2>1 DEF Work
    <2>3. \A i \in 1..Len(Tail(todo)) : /\ Tail(todo)[i] = todo[i + 1]
                                        /\ i + 1 \in 1..Len(todo)
      BY <2>2, TailFacts DEF TypeOK
    <2>4. ASSUME NEW t, \A i \in 1..Len(todo) : todo[i].kind # t
          PROVE  \A i \in 1..Len(todo') : todo'[i].kind # t
      BY <2>1, <2>3, <2>4
    <2> QED BY <1>2, <2>1, <2>4 DEF BankedIsMarked, Banked
  <1>6. CASE Store
    <2>1. /\ pc = "store" /\ plan' = next /\ UNCHANGED banked
          /\ plan.tp1 => next.tp1
          /\ plan.tp2 => next.tp2
      BY <1>6 DEF Store, hist, Work
    <2> QED BY <1>2, <2>1 DEF BankedIsMarked, Banked
  <1>7. CASE Abort
    <2>1. ~touched /\ UNCHANGED <<plan, banked>>
      BY <1>7 DEF Abort, TypeOK
    <2> QED BY <1>2, <2>1 DEF BankedIsMarked, Banked
  <1>8. CASE BrokerCloses \/ WeekendBegins \/ UNCHANGED vars
    <2>1. UNCHANGED <<pc, todo, plan, next, touched, banked>>
      BY <1>8 DEF BrokerCloses, WeekendBegins, hist, vars
    <2> QED BY <1>2, <2>1 DEF BankedIsMarked, Banked
  <1> QED BY <1>3, <1>4, <1>5, <1>6, <1>7, <1>8 DEF Next, Manage

LEMMA NextIInv == IInv /\ [Next]_vars => IInv'
  BY NextTypeOK, NextWork, NextStopBehindPlan, NextBanked DEF IInv

LEMMA Invariant == Spec => []IInv
  BY InitIInv, NextIInv, PTL DEF Spec

-----------------------------------------------------------------------------
(* Theorems.                                                               *)

\* The model of PositionManager and the manage loop is well typed; the open
\* volume never leaves 0..Volume.
THEOREM PositionTypeOK == Spec => []TypeOK
  BY Invariant, PTL DEF IInv

\* For either side and any trail, target and fault the manage loop of
\* execution_engine.py never loosens the broker's stop, unless a plan was
\* not stored after it had been acted on.
THEOREM PositionStopOnlyTightens == Spec => StopOnlyTightens
  BY Invariant, NextStop, PTL DEF Spec, StopOnlyTightens

\* Under the same proviso no partial close of a target is executed twice.
THEOREM PositionTargetsBankedOnce == Spec => []TargetsBankedOnce
  <1>1. IInv => TargetsBankedOnce
    BY DEF IInv, BankedIsMarked, Banked, TargetsBankedOnce, Targets
  <1> QED BY <1>1, Invariant, PTL

=============================================================================
