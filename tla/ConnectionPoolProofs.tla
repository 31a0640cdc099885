------------------------ MODULE ConnectionPoolProofs ------------------------
(***************************************************************************)
(* What TLAPS proves about ConnectionPool, for any number of slots, any    *)
(* menu and any number of items a worker finds.                            *)
(*                                                                         *)
(* The properties are about the steps a call has still to take, so the     *)
(* invariant has to speak about whole sequences of steps.  It does so with *)
(* marks, one in front of every step and one behind the last: h[i] is what *)
(* the call holds in front of step i, and g[i] whether it may have left    *)
(* something behind there.  Marks are a condition on single steps, so they *)
(* compose: the sequences of the callers are marked part by part.          *)
(***************************************************************************)
EXTENDS ConnectionPool, FiniteSetTheorems, SequenceTheorems, TLAPS

\* What a call must not leave behind when it is refused.
Leftovers == {"lock", "pending", "completed"}

Saves == {"nothing", "lock", "pending", "completed", "sent", "task"}

Steps ==
    [op : {"get", "run", "drop"}, fails : BOOLEAN, save : Saves, unlock : BOOLEAN, skip : Nat]

Marks == {"clean", "left"}

\* Four scopes are the deepest nesting.
Depths == 0 .. 4

\* Step i of s fits between its marks.  A step whose failure passes over
\* steps of a loop body goes on with nothing held.
Fits(s, h, g, i) ==
    /\ s[i].op = "get" =>
         /\ h[i] < 4 /\ h[i + 1] = h[i] + 1
         /\ g[i] = "clean" /\ g[i + 1] = "clean"
    /\ s[i].op = "run" =>
         /\ h[i + 1] = h[i]
         /\ g[i + 1] = "clean" =>
              s[i].save = "sent" \/ (g[i] = "clean" /\ s[i].save \notin Leftovers)
    /\ s[i].op = "drop" => h[i] > 0 /\ h[i + 1] = h[i] - 1 /\ g[i + 1] = g[i]
    /\ s[i].skip > 0 =>
         /\ i + s[i].skip <= Len(s)
         /\ h[i + s[i].skip + 1] = 0
         /\ g[i] = "clean" /\ g[i + s[i].skip + 1] = "clean"

\* The marks h and g lead through s ...
Leads(s, h, g) ==
    /\ s \in Seq(Steps)
    /\ h \in [1 .. Len(s) + 1 -> Depths]
    /\ g \in [1 .. Len(s) + 1 -> Marks]
    /\ \A i \in 1 .. Len(s) : Fits(s, h, g, i)

\* ... and there are such marks from a connections and p to b and q.
Plan(s, a, p, b, q) ==
    \E h \in [1 .. Len(s) + 1 -> Depths], g \in [1 .. Len(s) + 1 -> Marks] :
        /\ Leads(s, h, g)
        /\ h[1] = a /\ g[1] = p
        /\ h[Len(s) + 1] = b /\ g[Len(s) + 1] = q

\* A call leaves nothing behind that was not sent.
Clean(left) == left \cap Leftovers = {} \/ "sent" \in left

-----------------------------------------------------------------------------
TypeOK ==
    /\ idle \in Nat
    /\ held \in [Slots -> Depths]
    /\ todo \in [Slots -> Seq(Steps)]
    /\ saved \in [Slots -> SUBSET Saves]
    /\ result \in [Slots -> {"none", "open", "Ok", "failed", "refused", "TaskEnded"}]

\* The connections that are out when slot c has f[c] of them, numbered.
OutOf(f) == {x \in Slots \X (1 .. 4) : x[2] <= f[x[1]]}

\* No connection is lost and none is made up.
Conserved == idle + Cardinality(OutOf(held)) = DB_POOL_SIZE

\* A call with the steps s to take, a connections and left behind it is on
\* its way to giving back what it holds.
Planned(s, a, left) ==
    \E p \in Marks, q \in Marks :
        Plan(s, a, p, 0, q) /\ (p = "clean" => Clean(left))

OnPlan == \A c \in Slots : Planned(todo[c], held[c], saved[c])

\* Who has no call in progress has no steps left.
AtRest == \A c \in Slots : ~ Open(c) => todo[c] = <<>>

IInv == TypeOK /\ Conserved /\ OnPlan /\ AtRest /\ RefusalsLeaveNothingBehind

-----------------------------------------------------------------------------
(* Sequences of steps and their marks                                      *)

\* No steps: a plan that stays where it is.
LEMMA Nothing ==
    ASSUME NEW a \in Depths, NEW p \in Marks
    PROVE  <<>> \in Seq(Steps) /\ Plan(<<>>, a, p, a, p)
<1> DEFINE h == [i \in 1 .. 1 |-> a]
           g == [i \in 1 .. 1 |-> p]
<1>1. <<>> \in Seq(Steps) /\ Len(<<>>) = 0
    OBVIOUS
<1>2. h \in [1 .. Len(<<>>) + 1 -> Depths] /\ g \in [1 .. Len(<<>>) + 1 -> Marks]
    BY <1>1
<1>3. Leads(<<>>, h, g)
    BY <1>1, <1>2 DEF Leads
<1>4. h[1] = a /\ g[1] = p
    OBVIOUS
<1> QED BY <1>1, <1>2, <1>3, <1>4 DEF Plan

\* A plan of nothing begins as it ends.
LEMMA NothingHeld ==
    ASSUME NEW a, NEW p, NEW b, NEW q, Plan(<<>>, a, p, b, q)
    PROVE  a = b
BY DEF Plan

\* The steps from the k-th on, from the marks in front of it.
LEMMA Suffix ==
    ASSUME NEW s \in Seq(Steps), NEW h, NEW g, Leads(s, h, g), NEW k \in 1 .. Len(s) + 1
    PROVE  Plan(SubSeq(s, k, Len(s)), h[k], g[k], h[Len(s) + 1], g[Len(s) + 1])
<1> DEFINE t == SubSeq(s, k, Len(s))
           i == [j \in 1 .. Len(t) + 1 |-> h[j + k - 1]]
           f == [j \in 1 .. Len(t) + 1 |-> g[j + k - 1]]
<1>1. /\ t \in Seq(Steps)
      /\ Len(t) = Len(s) + 1 - k
      /\ \A j \in 1 .. Len(t) : t[j] = s[j + k - 1]
    OBVIOUS
<1>2. h \in [1 .. Len(s) + 1 -> Depths] /\ g \in [1 .. Len(s) + 1 -> Marks]
    BY DEF Leads
<1>3. i \in [1 .. Len(t) + 1 -> Depths] /\ f \in [1 .. Len(t) + 1 -> Marks]
    BY <1>1, <1>2
<1>4. ASSUME NEW j \in 1 .. Len(t)
      PROVE  Fits(t, i, f, j)
    <2>1. /\ j + k - 1 \in 1 .. Len(s) /\ t[j] = s[j + k - 1]
          /\ t[j] \in Steps
        BY <1>1
    <2>2. i[j] = h[j + k - 1] /\ i[j + 1] = h[j + k] /\ f[j] = g[j + k - 1] /\ f[j + 1] = g[j + k]
        BY <1>1
    <2>3. Fits(s, h, g, j + k - 1)
        BY <2>1 DEF Leads
    <2>4. ASSUME t[j].skip > 0
          PROVE  /\ j + t[j].skip <= Len(t)
                 /\ i[j + t[j].skip + 1] = 0
                 /\ f[j] = "clean" /\ f[j + t[j].skip + 1] = "clean"
        <3>1. PICK n \in Nat : n = t[j].skip
            BY <2>1 DEF Steps
        <3>2. /\ j + k - 1 + n <= Len(s) /\ h[j + k - 1 + n + 1] = 0
              /\ g[j + k - 1] = "clean" /\ g[j + k - 1 + n + 1] = "clean"
            BY <2>1, <2>3, <2>4, <3>1 DEF Fits
        <3>3. j + n + 1 \in 1 .. Len(t) + 1
            BY <1>1, <3>2
        <3>4. i[j + n + 1] = h[j + n + 1 + k - 1] /\ f[j + n + 1] = g[j + n + 1 + k - 1]
            BY <3>3
        <3>5. j + n + 1 + k - 1 = j + k - 1 + n + 1
            BY <1>1
        <3>6. j + n <= Len(t)
            BY <1>1, <3>2
        <3>7. i[j + n + 1] = 0 /\ f[j] = "clean" /\ f[j + n + 1] = "clean"
            BY <2>2, <3>2, <3>4, <3>5
        <3> HIDE DEF i, f, t
        <3> QED BY <3>1, <3>6, <3>7
    <2>5. j + k - 1 + 1 = j + k
        BY <1>1
    <2> HIDE DEF i, f, t
    <2> QED BY <2>1, <2>2, <2>3, <2>4, <2>5 DEF Fits
<1>5. Leads(t, i, f)
    BY <1>1, <1>3, <1>4 DEF Leads
<1>6. /\ i[1] = h[k] /\ f[1] = g[k]
      /\ i[Len(t) + 1] = h[Len(s) + 1] /\ f[Len(t) + 1] = g[Len(s) + 1]
    BY <1>1
<1> HIDE DEF i, f, t
<1> QED BY <1>3, <1>5, <1>6 DEF Plan, t

\* Two plans that meet make one.
LEMMA Joined ==
    ASSUME NEW s \in Seq(Steps), NEW t \in Seq(Steps),
           NEW a, NEW p, NEW b, NEW q, NEW c, NEW r,
           Plan(s, a, p, b, q), Plan(t, b, q, c, r)
    PROVE  s \o t \in Seq(Steps) /\ Plan(s \o t, a, p, c, r)
<1>1. PICK h1 \in [1 .. Len(s) + 1 -> Depths], g1 \in [1 .. Len(s) + 1 -> Marks] :
        /\ Leads(s, h1, g1) /\ h1[1] = a /\ g1[1] = p
        /\ h1[Len(s) + 1] = b /\ g1[Len(s) + 1] = q
    BY DEF Plan
<1>2. PICK h2 \in [1 .. Len(t) + 1 -> Depths], g2 \in [1 .. Len(t) + 1 -> Marks] :
        /\ Leads(t, h2, g2) /\ h2[1] = b /\ g2[1] = q
        /\ h2[Len(t) + 1] = c /\ g2[Len(t) + 1] = r
    BY DEF Plan
<1>3. PICK m \in Nat, n \in Nat : m = Len(s) /\ n = Len(t)
    OBVIOUS
<1> DEFINE u == s \o t
           h == [j \in 1 .. m + n + 1 |-> IF j <= m THEN h1[j] ELSE h2[j - m]]
           g == [j \in 1 .. m + n + 1 |-> IF j <= m THEN g1[j] ELSE g2[j - m]]
<1>4. /\ u \in Seq(Steps) /\ Len(u) = m + n
      /\ \A j \in 1 .. m : u[j] = s[j]
      /\ \A j \in m + 1 .. m + n : u[j] = t[j - m]
    BY <1>3
<1>5. h \in [1 .. Len(u) + 1 -> Depths] /\ g \in [1 .. Len(u) + 1 -> Marks]
    BY <1>1, <1>2, <1>3, <1>4
<1>6. \A j \in 1 .. m + 1 : h[j] = h1[j] /\ g[j] = g1[j]
    BY <1>1, <1>2, <1>3
<1>7. \A j \in 1 .. n + 1 : h[j + m] = h2[j] /\ g[j + m] = g2[j]
    BY <1>1, <1>2, <1>3
<1> HIDE DEF h, g, u
<1>8. ASSUME NEW j \in 1 .. m
      PROVE  Fits(u, h, g, j)
    <2>1. Fits(s, h1, g1, j) /\ u[j] = s[j] /\ s[j] \in Steps
        BY <1>1, <1>3, <1>4 DEF Leads
    <2>2. h[j] = h1[j] /\ g[j] = g1[j] /\ h[j + 1] = h1[j + 1] /\ g[j + 1] = g1[j + 1]
        BY <1>6
    <2>3. ASSUME NEW k \in Nat, j + k <= m
          PROVE  j + k <= Len(u) /\ h[j + k + 1] = h1[j + k + 1] /\ g[j + k + 1] = g1[j + k + 1]
        BY <1>4, <1>6, <2>3
    <2>4. s[j].skip \in Nat
        BY <2>1 DEF Steps
    <2> QED BY <1>3, <2>1, <2>2, <2>3, <2>4 DEF Fits
<1>9. ASSUME NEW i \in m + 1 .. m + n
      PROVE  Fits(u, h, g, i)
    <2>1. PICK j \in 1 .. n : i = j + m
        <3>1. i - m \in 1 .. n /\ i = (i - m) + m
            OBVIOUS
        <3> QED BY <3>1
    <2>2. Fits(t, h2, g2, j) /\ u[i] = t[j] /\ t[j] \in Steps
        <3>1. i - m = j
            BY <2>1
        <3>2. Fits(t, h2, g2, j) /\ t[j] \in Steps
            BY <1>2, <1>3 DEF Leads
        <3> QED BY <1>4, <3>1, <3>2
    <2>3. /\ h[i] = h2[j] /\ g[i] = g2[j]
        BY <1>7, <2>1
    <2>4. h[i + 1] = h2[j + 1] /\ g[i + 1] = g2[j + 1]
        <3>1. PICK k \in 1 .. n + 1 : k = j + 1
            OBVIOUS
        <3>2. i + 1 = k + m
            BY <2>1, <3>1
        <3>3. h[k + m] = h2[k] /\ g[k + m] = g2[k]
            BY <1>7
        <3> QED BY <3>1, <3>2, <3>3
    <2>5. ASSUME NEW k \in Nat, j + k <= n
          PROVE  i + k <= Len(u) /\ h[i + k + 1] = h2[j + k + 1] /\ g[i + k + 1] = g2[j + k + 1]
        <3>1. j + k + 1 \in 1 .. n + 1 /\ i + k + 1 = (j + k + 1) + m
            BY <2>1, <2>5
        <3> QED BY <1>4, <1>7, <2>1, <2>5, <3>1
    <2>6. t[j].skip \in Nat
        BY <2>2 DEF Steps
    <2> QED BY <1>3, <2>2, <2>3, <2>4, <2>5, <2>6 DEF Fits
<1>10. Leads(u, h, g)
    <2>1. ASSUME NEW i \in 1 .. Len(u) PROVE Fits(u, h, g, i)
        BY <1>4, <1>8, <1>9
    <2> QED BY <1>4, <1>5, <2>1 DEF Leads
<1>11. h[1] = a /\ g[1] = p
    <2>1. 1 \in 1 .. m + 1
        OBVIOUS
    <2> QED BY <1>1, <1>6, <2>1
<1>12. h[Len(u) + 1] = c /\ g[Len(u) + 1] = r
    <2>1. n + 1 \in 1 .. n + 1 /\ Len(u) + 1 = (n + 1) + m
        BY <1>4
    <2> QED BY <1>2, <1>3, <1>7, <2>1
<1>13. Plan(u, a, p, c, r)
    BY <1>5, <1>10, <1>11, <1>12 DEF Plan
<1> QED BY <1>4, <1>13 DEF u

\* One step between its marks.
LEMMA OneStep ==
    ASSUME NEW e \in Steps, NEW a \in Depths, NEW b \in Depths, NEW p \in Marks, NEW q \in Marks,
           e.skip = 0,
           e.op = "get" => a < 4 /\ b = a + 1 /\ p = "clean" /\ q = "clean",
           e.op = "run" =>
             /\ b = a
             /\ q = "clean" => e.save = "sent" \/ (p = "clean" /\ e.save \notin Leftovers),
           e.op = "drop" => a > 0 /\ b = a - 1 /\ q = p
    PROVE  <<e>> \in Seq(Steps) /\ Plan(<<e>>, a, p, b, q)
<1> DEFINE h == [i \in 1 .. 2 |-> IF i = 1 THEN a ELSE b]
           g == [i \in 1 .. 2 |-> IF i = 1 THEN p ELSE q]
<1>1. <<e>> \in Seq(Steps) /\ Len(<<e>>) = 1 /\ <<e>>[1] = e
    OBVIOUS
<1>2. h \in [1 .. Len(<<e>>) + 1 -> Depths] /\ g \in [1 .. Len(<<e>>) + 1 -> Marks]
    BY <1>1
<1>3. h[1] = a /\ g[1] = p /\ h[2] = b /\ g[2] = q
    OBVIOUS
<1>4. Fits(<<e>>, h, g, 1)
    <2> HIDE DEF h, g
    <2> QED BY <1>1, <1>3 DEF Fits
<1>5. Leads(<<e>>, h, g)
    BY <1>1, <1>2, <1>4 DEF Leads
<1> HIDE DEF h, g
<1> QED BY <1>1, <1>2, <1>3, <1>5 DEF Plan
-----------------------------------------------------------------------------
(* The steps of the callers                                                *)

\* What the steps that save nothing are.
LEMMA StepKinds ==
    /\ Get \in Steps /\ Get.op = "get" /\ Get.skip = 0
    /\ Run \in Steps /\ Run.op = "run" /\ Run.skip = 0 /\ Run.save = "nothing"
    /\ Drop \in Steps /\ Drop.op = "drop" /\ Drop.skip = 0
    /\ OrLog(Run) \in Steps /\ OrLog(Run).op = "run" /\ OrLog(Run).skip = 0
    /\ OrLog(Run).save = "nothing"
    /\ OrUnlock(Get) \in Steps /\ OrUnlock(Get).op = "get" /\ OrUnlock(Get).skip = 0
    /\ OrUnlock(Run) \in Steps /\ OrUnlock(Run).op = "run" /\ OrUnlock(Run).skip = 0
    /\ OrUnlock(Run).save = "nothing"
BY DEF Get, Run, Drop, OrLog, OrUnlock, Step, Steps, Saves

\* What the steps that save something are.
LEMMA SaveKinds ==
    ASSUME NEW w \in Saves
    PROVE  /\ Save(w) \in Steps /\ Save(w).op = "run" /\ Save(w).skip = 0 /\ Save(w).save = w
           /\ OrUnlock(Save(w)) \in Steps /\ OrUnlock(Save(w)).op = "run"
           /\ OrUnlock(Save(w)).skip = 0 /\ OrUnlock(Save(w)).save = w
BY DEF Save, OrUnlock, Run, Step, Steps, Saves

\* pool.get(), at a depth the pool can serve and with nothing to lose.
LEMMA GetPlan ==
    ASSUME NEW a \in 0 .. 3
    PROVE  /\ <<Get>> \in Seq(Steps) /\ Plan(<<Get>>, a, "clean", a + 1, "clean")
           /\ <<OrUnlock(Get)>> \in Seq(Steps)
           /\ Plan(<<OrUnlock(Get)>>, a, "clean", a + 1, "clean")
<1>1. a \in Depths /\ a + 1 \in Depths /\ "clean" \in Marks
    BY DEF Depths, Marks
<1> QED BY <1>1, StepKinds, OneStep

\* A connection goes out of scope.
LEMMA DropPlan ==
    ASSUME NEW a \in 1 .. 4, NEW p \in Marks
    PROVE  <<Drop>> \in Seq(Steps) /\ Plan(<<Drop>>, a, p, a - 1, p)
<1>1. a \in Depths /\ a - 1 \in Depths
    BY DEF Depths
<1> QED BY <1>1, StepKinds, OneStep

\* Statements and requests that save nothing.
LEMMA RunPlan ==
    ASSUME NEW a \in Depths, NEW p \in Marks
    PROVE  /\ <<Run>> \in Seq(Steps) /\ Plan(<<Run>>, a, p, a, p)
           /\ <<OrLog(Run)>> \in Seq(Steps) /\ Plan(<<OrLog(Run)>>, a, p, a, p)
           /\ <<OrUnlock(Run)>> \in Seq(Steps) /\ Plan(<<OrUnlock(Run)>>, a, p, a, p)
BY StepKinds, OneStep DEF Leftovers

\* What is saved may be left behind, until the transaction is sent.
LEMMA SavePlan ==
    ASSUME NEW a \in Depths, NEW p \in Marks, NEW w \in Saves
    PROVE  /\ <<Save(w)>> \in Seq(Steps) /\ Plan(<<Save(w)>>, a, p, a, "left")
           /\ <<OrUnlock(Save(w))>> \in Seq(Steps)
           /\ Plan(<<OrUnlock(Save(w))>>, a, p, a, "left")
           /\ w = "sent" => /\ Plan(<<Save(w)>>, a, p, a, "clean")
                            /\ Plan(<<OrUnlock(Save(w))>>, a, p, a, "clean")
<1>1. "left" \in Marks /\ "clean" \in Marks /\ "left" # "clean"
    BY DEF Marks
<1> QED BY <1>1, SaveKinds, OneStep
-----------------------------------------------------------------------------
(* The callers                                                             *)

Goes(s, a, p, b, q) == s \in Seq(Steps) /\ Plan(s, a, p, b, q)

\* Joined, for sequences known to be plans.
LEMMA Then ==
    ASSUME NEW s, NEW t, NEW a, NEW p, NEW b, NEW q, NEW c, NEW r,
           Goes(s, a, p, b, q), Goes(t, b, q, c, r)
    PROVE  Goes(s \o t, a, p, c, r)
BY Joined DEF Goes

\* A step more.
LEMMA Two ==
    ASSUME NEW e1, NEW e2,
           NEW a, NEW p, NEW b, NEW q, NEW c, NEW r,
           Goes(<<e1>>, a, p, b, q), Goes(<<e2>>, b, q, c, r)
    PROVE  Goes(<<e1, e2>>, a, p, c, r)
<1>1. <<e1>> \in Seq(Steps) /\ <<e2>> \in Seq(Steps)
    BY DEF Goes
<1>2. e1 \in Steps /\ e2 \in Steps
    BY <1>1
<1>3. <<e1, e2>> = <<e1>> \o <<e2>>
    <2>1. <<e1, e2>> \in Seq(Steps) /\ <<e1>> \o <<e2>> \in Seq(Steps)
        BY <1>2
    <2>2. Len(<<e1, e2>>) = 2 /\ Len(<<e1>> \o <<e2>>) = 2
        BY <1>2
    <2>3. \A i \in 1 .. 2 : <<e1, e2>>[i] = (<<e1>> \o <<e2>>)[i]
        BY <1>2
    <2> QED BY ONLY <2>1, <2>2, <2>3, SeqEqual
<1> QED BY <1>3, Then

\* The same with two steps in front ...
LEMMA Three ==
    ASSUME NEW e1, NEW e2, NEW e3,
           NEW a, NEW p, NEW b, NEW q, NEW c, NEW r,
           Goes(<<e1, e2>>, a, p, b, q), Goes(<<e3>>, b, q, c, r)
    PROVE  Goes(<<e1, e2, e3>>, a, p, c, r)
<1>1. <<e1, e2>> \in Seq(Steps) /\ <<e3>> \in Seq(Steps)
    BY DEF Goes
<1>2. e1 \in Steps /\ e2 \in Steps /\ e3 \in Steps
    BY <1>1
<1>3. <<e1, e2, e3>> = <<e1, e2>> \o <<e3>>
    <2>1. <<e1, e2, e3>> \in Seq(Steps) /\ <<e1, e2>> \o <<e3>> \in Seq(Steps)
        BY <1>2
    <2>2. Len(<<e1, e2, e3>>) = 3 /\ Len(<<e1, e2>> \o <<e3>>) = 3
        BY <1>2
    <2>3. \A i \in 1 .. 3 : <<e1, e2, e3>>[i] = (<<e1, e2>> \o <<e3>>)[i]
        BY <1>2
    <2> QED BY ONLY <2>1, <2>2, <2>3, SeqEqual
<1> QED BY <1>3, Then

\* ... with three ...
LEMMA Four ==
    ASSUME NEW e1, NEW e2, NEW e3, NEW e4,
           NEW a, NEW p, NEW b, NEW q, NEW c, NEW r,
           Goes(<<e1, e2, e3>>, a, p, b, q), Goes(<<e4>>, b, q, c, r)
    PROVE  Goes(<<e1, e2, e3, e4>>, a, p, c, r)
<1>1. <<e1, e2, e3>> \in Seq(Steps) /\ <<e4>> \in Seq(Steps)
    BY DEF Goes
<1>2. e1 \in Steps /\ e2 \in Steps /\ e3 \in Steps /\ e4 \in Steps
    BY <1>1
<1>3. <<e1, e2, e3, e4>> = <<e1, e2, e3>> \o <<e4>>
    <2>1. <<e1, e2, e3, e4>> \in Seq(Steps) /\ <<e1, e2, e3>> \o <<e4>> \in Seq(Steps)
        BY <1>2
    <2>2. Len(<<e1, e2, e3, e4>>) = 4 /\ Len(<<e1, e2, e3>> \o <<e4>>) = 4
        BY <1>2
    <2>3. \A i \in 1 .. 4 : <<e1, e2, e3, e4>>[i] = (<<e1, e2, e3>> \o <<e4>>)[i]
        BY <1>2
    <2> QED BY ONLY <2>1, <2>2, <2>3, SeqEqual
<1> QED BY <1>3, Then

\* ... and with four.
LEMMA Five ==
    ASSUME NEW e1, NEW e2, NEW e3, NEW e4, NEW e5,
           NEW a, NEW p, NEW b, NEW q, NEW c, NEW r,
           Goes(<<e1, e2, e3, e4>>, a, p, b, q), Goes(<<e5>>, b, q, c, r)
    PROVE  Goes(<<e1, e2, e3, e4, e5>>, a, p, c, r)
<1>1. <<e1, e2, e3, e4>> \in Seq(Steps) /\ <<e5>> \in Seq(Steps)
    BY DEF Goes
<1>2. e1 \in Steps /\ e2 \in Steps /\ e3 \in Steps /\ e4 \in Steps /\ e5 \in Steps
    BY <1>1
<1>3. <<e1, e2, e3, e4, e5>> = <<e1, e2, e3, e4>> \o <<e5>>
    <2>1. <<e1, e2, e3, e4, e5>> \in Seq(Steps) /\ <<e1, e2, e3, e4>> \o <<e5>> \in Seq(Steps)
        BY <1>2
    <2>2. Len(<<e1, e2, e3, e4, e5>>) = 5 /\ Len(<<e1, e2, e3, e4>> \o <<e5>>) = 5
        BY <1>2
    <2>3. \A i \in 1 .. 5 : <<e1, e2, e3, e4, e5>>[i] = (<<e1, e2, e3, e4>> \o <<e5>>)[i]
        BY <1>2
    <2> QED BY ONLY <2>1, <2>2, <2>3, SeqEqual
<1> QED BY <1>3, Then

\* The steps of StepKinds and SaveKinds in this form.
LEMMA Single ==
    /\ \A a \in 0 .. 3 : /\ Goes(<<Get>>, a, "clean", a + 1, "clean")
                         /\ Goes(<<OrUnlock(Get)>>, a, "clean", a + 1, "clean")
    /\ \A a \in 1 .. 4, p \in Marks : Goes(<<Drop>>, a, p, a - 1, p)
    /\ \A a \in 0 .. 4, p \in Marks : /\ Goes(<<Run>>, a, p, a, p)
                                      /\ Goes(<<OrLog(Run)>>, a, p, a, p)
                                      /\ Goes(<<OrUnlock(Run)>>, a, p, a, p)
    /\ \A a \in 0 .. 4, p \in Marks, w \in Saves :
            /\ Goes(<<Save(w)>>, a, p, a, "left")
            /\ Goes(<<OrUnlock(Save(w))>>, a, p, a, "left")
            /\ w = "sent" => /\ Goes(<<Save(w)>>, a, p, a, "clean")
                             /\ Goes(<<OrUnlock(Save(w))>>, a, p, a, "clean")
<1>1. \A a \in 0 .. 3 : /\ Goes(<<Get>>, a, "clean", a + 1, "clean")
                        /\ Goes(<<OrUnlock(Get)>>, a, "clean", a + 1, "clean")
    BY GetPlan DEF Goes
<1>2. \A a \in 1 .. 4, p \in Marks : Goes(<<Drop>>, a, p, a - 1, p)
    BY DropPlan DEF Goes
<1>3. \A a \in 0 .. 4, p \in Marks : /\ Goes(<<Run>>, a, p, a, p)
                                     /\ Goes(<<OrLog(Run)>>, a, p, a, p)
                                     /\ Goes(<<OrUnlock(Run)>>, a, p, a, p)
    BY RunPlan DEF Goes, Depths
<1>4. \A a \in 0 .. 4, p \in Marks, w \in Saves :
            /\ Goes(<<Save(w)>>, a, p, a, "left")
            /\ Goes(<<OrUnlock(Save(w))>>, a, p, a, "left")
            /\ w = "sent" => /\ Goes(<<Save(w)>>, a, p, a, "clean")
                             /\ Goes(<<OrUnlock(Save(w))>>, a, p, a, "clean")
    BY SavePlan DEF Goes, Depths
<1> QED BY <1>1, <1>2, <1>3, <1>4

\* A connection, statements, and the connection back: at any depth a pool
\* of four has left.
LEMMA ReadPlan ==
    ASSUME NEW a \in 0 .. 3
    PROVE  Goes(<<Get, Run, Drop>>, a, "clean", a, "clean")
<1>1. Goes(<<Get>>, a, "clean", a + 1, "clean")
    BY Single
<1>2. Goes(<<Run>>, a + 1, "clean", a + 1, "clean")
    <2>1. a + 1 \in 0 .. 4 /\ "clean" \in Marks
        BY DEF Marks
    <2> QED BY Single, <2>1
<1>3. Goes(<<Drop>>, a + 1, "clean", a, "clean")
    <2>1. a + 1 \in 1 .. 4 /\ "clean" \in Marks /\ (a + 1) - 1 = a
        BY DEF Marks
    <2> QED BY Single, <2>1
<1>4. Goes(<<Get, Run>>, a, "clean", a + 1, "clean")
    BY <1>1, <1>2, Two
<1> QED BY <1>3, <1>4, Three
\* The same at the depths there are.
LEMMA AtDepths ==
    /\ Goes(<<Get>>, 0, "clean", 1, "clean") /\ Goes(<<Get>>, 1, "clean", 2, "clean")
    /\ Goes(<<Get>>, 2, "clean", 3, "clean") /\ Goes(<<Get>>, 3, "clean", 4, "clean")
    /\ Goes(<<OrUnlock(Get)>>, 1, "clean", 2, "clean")
    /\ \A p \in Marks : /\ Goes(<<Drop>>, 1, p, 0, p) /\ Goes(<<Drop>>, 2, p, 1, p)
                        /\ Goes(<<Drop>>, 3, p, 2, p) /\ Goes(<<Drop>>, 4, p, 3, p)
    /\ \A a \in 0 .. 4, p \in Marks : /\ Goes(<<Run>>, a, p, a, p)
                                      /\ Goes(<<OrLog(Run)>>, a, p, a, p)
                                      /\ Goes(<<OrUnlock(Run)>>, a, p, a, p)
    /\ \A a \in 0 .. 4, p \in Marks :
            /\ Goes(<<Save("lock")>>, a, p, a, "left")
            /\ Goes(<<Save("pending")>>, a, p, a, "left")
            /\ Goes(<<Save("completed")>>, a, p, a, "left")
            /\ Goes(<<OrUnlock(Save("completed"))>>, a, p, a, "left")
            /\ Goes(<<Save("sent")>>, a, p, a, "clean")
            /\ Goes(<<OrUnlock(Save("sent"))>>, a, p, a, "clean")
<1>1. /\ 0 + 1 = 1 /\ 1 + 1 = 2 /\ 2 + 1 = 3 /\ 3 + 1 = 4
      /\ 1 - 1 = 0 /\ 2 - 1 = 1 /\ 3 - 1 = 2 /\ 4 - 1 = 3
    OBVIOUS
<1>2. /\ 0 \in 0 .. 3 /\ 1 \in 0 .. 3 /\ 2 \in 0 .. 3 /\ 3 \in 0 .. 3
      /\ 1 \in 1 .. 4 /\ 2 \in 1 .. 4 /\ 3 \in 1 .. 4 /\ 4 \in 1 .. 4
    OBVIOUS
<1>3. "lock" \in Saves /\ "pending" \in Saves /\ "completed" \in Saves /\ "sent" \in Saves
    BY DEF Saves
<1>4. /\ Goes(<<Get>>, 0, "clean", 0 + 1, "clean") /\ Goes(<<Get>>, 1, "clean", 1 + 1, "clean")
      /\ Goes(<<Get>>, 2, "clean", 2 + 1, "clean") /\ Goes(<<Get>>, 3, "clean", 3 + 1, "clean")
      /\ Goes(<<OrUnlock(Get)>>, 1, "clean", 1 + 1, "clean")
    BY <1>2, Single, Zenon
<1>5. ASSUME NEW p \in Marks
      PROVE  /\ Goes(<<Drop>>, 1, p, 1 - 1, p) /\ Goes(<<Drop>>, 2, p, 2 - 1, p)
             /\ Goes(<<Drop>>, 3, p, 3 - 1, p) /\ Goes(<<Drop>>, 4, p, 4 - 1, p)
    BY <1>2, Single, Zenon
<1> QED BY <1>1, <1>3, <1>4, <1>5, Single
\* The two marks.
LEMMA MarkKinds == "clean" \in Marks /\ "left" \in Marks
BY DEF Marks

\* How most scopes begin.
LEMMA GetRun ==
    /\ Goes(<<Get, Run>>, 0, "clean", 1, "clean")
    /\ Goes(<<Get, Run>>, 1, "clean", 2, "clean")
<1>1. Goes(<<Get>>, 0, "clean", 1, "clean") /\ Goes(<<Get>>, 1, "clean", 2, "clean")
    BY AtDepths
<1>2. Goes(<<Run>>, 1, "clean", 1, "clean") /\ Goes(<<Run>>, 2, "clean", 2, "clean")
    BY AtDepths, MarkKinds
<1> QED BY <1>1, <1>2, Two

\* The callers with one connection.
LEMMA OneConnection ==
    /\ Goes(Read, 0, "clean", 0, "clean")
    /\ Goes(api_create_address_with_payment_id, 0, "clean", 0, "clean")
    /\ Goes(estimate_fees, 0, "clean", 0, "clean")
    /\ Goes(new, 0, "clean", 0, "clean")
    /\ Goes(unlock_expired_transactions, 0, "clean", 0, "clean")
<1>1. Goes(<<Get, Run, Drop>>, 0, "clean", 0, "clean")
    BY ReadPlan
<1>2. Goes(<<Run>> \o Read, 0, "clean", 0, "clean")
    BY <1>1, AtDepths, MarkKinds, Then DEF Read
<1>3. Goes(estimate_fees, 0, "clean", 0, "clean")
    <2>1. Goes(<<Get, Run>>, 0, "clean", 1, "clean")
        BY GetRun
    <2>2. Goes(<<Get, Run, OrLog(Run)>>, 0, "clean", 1, "clean")
        BY <2>1, AtDepths, MarkKinds, Three
    <2>3. Goes(<<Get, Run, OrLog(Run), Run>>, 0, "clean", 1, "clean")
        BY <2>2, AtDepths, MarkKinds, Four
    <2> QED BY <2>3, AtDepths, MarkKinds, Five DEF estimate_fees
<1>4. Goes(unlock_expired_transactions, 0, "clean", 0, "clean")
    <2> DEFINE e == [Get EXCEPT !.save = "task"]
    <2>1. e \in Steps /\ e.op = "get" /\ e.skip = 0
        BY DEF Get, Step, Steps, Saves
    <2>2. Goes(<<e>>, 0, "clean", 1, "clean")
        <3>1. 0 \in Depths /\ 1 \in Depths /\ "clean" \in Marks
            BY DEF Depths, Marks
        <3> HIDE DEF e
        <3> QED BY <2>1, <3>1, OneStep DEF Goes
    <2> HIDE DEF e
    <2>3. Goes(<<e, OrLog(Run)>>, 0, "clean", 1, "clean")
        BY <2>2, AtDepths, MarkKinds, Two, SMTT(30)
    <2>4. Goes(<<e, OrLog(Run), Drop>>, 0, "clean", 0, "clean")
        BY <2>3, AtDepths, MarkKinds, Three
    <2> QED BY <2>4 DEF unlock_expired_transactions, e
<1> QED BY <1>1, <1>2, <1>3, <1>4 DEF Read, new, api_create_address_with_payment_id

\* FundLocker::lock inside the scope of its caller.
LEMMA LockPlan ==
    ASSUME NEW found \in BOOLEAN
    PROVE  \E q \in Marks : Goes(lock(found), 1, "clean", 1, q)
<1>1. Goes(<<Get, Run, Drop>>, 1, "clean", 1, "clean")
    BY ReadPlan
<1>2. Goes(<<Get, Run>>, 1, "clean", 2, "clean")
    BY GetRun
<1>3. Goes(<<Get, Run, Save("lock")>>, 1, "clean", 2, "left")
    BY <1>2, AtDepths, MarkKinds, Three
<1>4. Goes(<<Get, Run, Save("lock"), Drop>>, 1, "clean", 1, "left")
    BY <1>3, AtDepths, MarkKinds, Four
<1>5. CASE found
    BY <1>1, <1>5, MarkKinds DEF lock
<1>6. CASE ~ found
    BY <1>4, <1>6, MarkKinds DEF lock
<1> QED BY <1>5, <1>6

\* The scope of an endpoint's connection around its body.
LEMMA WithAccountPlan ==
    ASSUME NEW body, NEW q \in Marks, Goes(body, 1, "clean", 1, q)
    PROVE  Goes(WithAccount(body), 0, "clean", 0, q)
<1>1. Goes(<<Get, Run>>, 0, "clean", 1, "clean")
    BY GetRun
<1>2. Goes(<<Get, Run>> \o body, 0, "clean", 1, q)
    BY <1>1, Then
<1>3. Goes(<<Drop>>, 1, q, 0, q)
    BY AtDepths
<1> QED BY <1>2, <1>3, Then DEF WithAccount

\* The endpoints that lock funds.
LEMMA LockingEndpoints ==
    ASSUME NEW found \in BOOLEAN
    PROVE  /\ \E q \in Marks : Goes(api_lock_funds(found), 0, "clean", 0, q)
           /\ \E q \in Marks : Goes(api_create_unsigned_transaction(found), 0, "clean", 0, q)
           /\ \E q \in Marks : Goes(api_burn_funds(found), 0, "clean", 0, q)
<1>1. PICK q \in Marks : Goes(lock(found), 1, "clean", 1, q)
    BY LockPlan
<1>2. Goes(api_lock_funds(found), 0, "clean", 0, q)
    BY <1>1, WithAccountPlan DEF api_lock_funds
<1>3. Goes(api_create_unsigned_transaction(found), 0, "clean", 0, q)
    <2>1. Goes(<<Run>>, 1, q, 1, q)
        BY AtDepths
    <2>2. Goes(lock(found) \o <<Run>>, 1, "clean", 1, q)
        BY <1>1, <2>1, Then
    <2> QED BY <2>2, WithAccountPlan DEF api_create_unsigned_transaction
<1>4. Goes(api_burn_funds(found), 0, "clean", 0, "clean")
    <2>1. Goes(<<Run>>, 1, q, 1, q) /\ Goes(<<Save("completed")>>, 1, q, 1, "left")
        BY AtDepths
    <2>2. Goes(<<Run, Save("completed")>>, 1, q, 1, "left")
        BY <2>1, Two
    <2>3. Goes(lock(found) \o <<Run, Save("completed")>>, 1, "clean", 1, "left")
        BY <1>1, <2>2, Then
    <2>4. Goes(WithAccount(lock(found) \o <<Run, Save("completed")>>), 0, "clean", 0, "left")
        BY <2>3, WithAccountPlan, MarkKinds
    <2>5. Goes(<<Run>>, 0, "clean", 0, "clean")
        BY AtDepths, MarkKinds
    <2>6. Goes(<<Save("sent"), Get, Run, Drop>>, 0, "left", 0, "clean")
        <3>1. Goes(<<Save("sent")>>, 0, "left", 0, "clean") /\ Goes(<<Get>>, 0, "clean", 1, "clean")
            BY AtDepths, MarkKinds
        <3>2. Goes(<<Save("sent"), Get>>, 0, "left", 1, "clean")
            BY <3>1, Two
        <3>3. Goes(<<Save("sent"), Get, Run>>, 0, "left", 1, "clean")
            BY <3>2, AtDepths, MarkKinds, Three
        <3> QED BY <3>3, AtDepths, MarkKinds, Four
    <2>7. Goes(<<Run>> \o WithAccount(lock(found) \o <<Run, Save("completed")>>),
               0, "clean", 0, "left")
        BY <2>4, <2>5, Then
    <2> QED BY <2>6, <2>7, Then DEF api_burn_funds
<1> QED BY <1>2, <1>3, <1>4, MarkKinds
\* The calls of TransactionSender: four scopes in each other, and nothing
\* saved before the last of them has been entered.
LEMMA SenderCalls ==
    ASSUME NEW found \in BOOLEAN
    PROVE  /\ \E q \in Marks : Goes(start_new_transaction(found), 0, "clean", 0, q)
           /\ Goes(finalize_transaction_and_broadcast, 0, "clean", 0, "clean")
<1>1. Goes(<<Get>>, 0, "clean", 1, "clean") /\ Goes(<<Get>>, 2, "clean", 3, "clean")
    BY AtDepths
<1>2. Goes(create_pending_transaction, 2, "clean", 2, "left")
    <2>1. Goes(create_utxo_selection, 3, "clean", 3, "clean")
        BY ReadPlan DEF create_utxo_selection
    <2>2. Goes(<<Get>> \o create_utxo_selection, 2, "clean", 3, "clean")
        BY <1>1, <2>1, Then
    <2>3. /\ Goes(<<Save("pending")>>, 3, "clean", 3, "left")
          /\ Goes(<<Save("lock")>>, 3, "left", 3, "left")
          /\ Goes(<<Drop>>, 3, "left", 2, "left")
        BY AtDepths, MarkKinds
    <2>4. Goes(<<Save("pending"), Save("lock")>>, 3, "clean", 3, "left")
        BY <2>3, Two
    <2>5. Goes(<<Save("pending"), Save("lock"), Drop>>, 3, "clean", 2, "left")
        BY <2>3, <2>4, Three
    <2> QED BY <2>2, <2>5, Then DEF create_pending_transaction
<1>3. \E q \in Marks : Goes(create_or_find_pending_transaction(found), 1, "clean", 1, q)
    <2>1. Goes(<<Get, Run>>, 1, "clean", 2, "clean")
        BY GetRun
    <2>2. CASE found
        <3>1. Goes(<<>>, 2, "clean", 2, "clean")
            <4>1. 2 \in Depths /\ "clean" \in Marks
                BY DEF Depths, Marks
            <4> QED BY <4>1, Nothing DEF Goes
        <3>2. Goes(<<Get, Run>> \o <<>>, 1, "clean", 2, "clean")
            BY <2>1, <3>1, Then
        <3>3. Goes(<<Drop>>, 2, "clean", 1, "clean")
            BY AtDepths, MarkKinds
        <3> QED BY <2>2, <3>2, <3>3, Then, MarkKinds DEF create_or_find_pending_transaction
    <2>3. CASE ~ found
        <3>1. Goes(<<Get, Run>> \o create_pending_transaction, 1, "clean", 2, "left")
            BY <1>2, <2>1, Then
        <3>2. Goes(<<Drop>>, 2, "left", 1, "left")
            BY AtDepths, MarkKinds
        <3> QED BY <2>3, <3>1, <3>2, Then, MarkKinds DEF create_or_find_pending_transaction
    <2> QED BY <2>2, <2>3
<1>4. \E q \in Marks : Goes(start_new_transaction(found), 0, "clean", 0, q)
    <2>1. PICK q \in Marks : Goes(create_or_find_pending_transaction(found), 1, "clean", 1, q)
        BY <1>3
    <2>2. Goes(validate_transaction_creation_request, 1, "clean", 1, "clean")
        BY ReadPlan DEF validate_transaction_creation_request
    <2>3. Goes(<<Get>> \o validate_transaction_creation_request, 0, "clean", 1, "clean")
        BY <1>1, <2>2, Then
    <2>4. Goes(<<Get>> \o validate_transaction_creation_request
                 \o create_or_find_pending_transaction(found), 0, "clean", 1, q)
        BY <2>1, <2>3, Then
    <2>5. Goes(<<OrUnlock(Run)>>, 1, q, 1, q) /\ Goes(<<Drop>>, 1, q, 0, q)
        BY AtDepths
    <2>6. Goes(<<OrUnlock(Run), Drop>>, 1, q, 0, q)
        BY <2>5, Two
    <2> QED BY <2>4, <2>6, Then DEF start_new_transaction
<1>5. Goes(finalize_transaction_and_broadcast, 0, "clean", 0, "clean")
    <2>1. Goes(check_if_transaction_expired, 1, "clean", 1, "clean")
        <3>1. /\ Goes(<<OrUnlock(Get)>>, 1, "clean", 2, "clean")
              /\ Goes(<<OrUnlock(Run)>>, 2, "clean", 2, "clean")
              /\ Goes(<<Drop>>, 2, "clean", 1, "clean")
            BY AtDepths, MarkKinds
        <3>2. Goes(<<OrUnlock(Get), OrUnlock(Run)>>, 1, "clean", 2, "clean")
            BY <3>1, Two
        <3> QED BY <3>1, <3>2, Three DEF check_if_transaction_expired
    <2>2. Goes(<<Get>> \o check_if_transaction_expired, 0, "clean", 1, "clean")
        BY <1>1, <2>1, Then
    <2>3. /\ Goes(<<OrUnlock(Save("completed"))>>, 1, "clean", 1, "left")
          /\ Goes(<<OrUnlock(Save("sent"))>>, 1, "left", 1, "clean")
          /\ Goes(<<Run>>, 1, "clean", 1, "clean")
          /\ Goes(<<Drop>>, 1, "clean", 0, "clean")
        BY AtDepths, MarkKinds
    <2>4. Goes(<<OrUnlock(Save("completed")), OrUnlock(Save("sent"))>>, 1, "clean", 1, "clean")
        BY <2>3, Two
    <2>5. Goes(<<OrUnlock(Save("completed")), OrUnlock(Save("sent")), Run>>, 1, "clean", 1, "clean")
        BY <2>3, <2>4, Three
    <2>6. Goes(<<OrUnlock(Save("completed")), OrUnlock(Save("sent")), Run, Drop>>,
               1, "clean", 0, "clean")
        BY <2>3, <2>5, Four
    <2> QED BY <2>2, <2>6, Then DEF finalize_transaction_and_broadcast
<1> QED BY <1>4, <1>5

\* A body of four steps that begins and ends with nothing held may be
\* repeated, also when its failures pass over the rest of it.
LEMMA RepeatPlan ==
    ASSUME NEW n \in Nat, NEW body, Len(body) = 4, Goes(body, 0, "clean", 0, "clean")
    PROVE  Goes(Repeat(n, body), 0, "clean", 0, "clean")
<1>1. body \in Seq(Steps)
    BY DEF Goes
<1>2. PICK hb \in [1 .. 4 + 1 -> Depths], gb \in [1 .. 4 + 1 -> Marks] :
        /\ Leads(body, hb, gb)
        /\ hb[1] = 0 /\ gb[1] = "clean" /\ hb[4 + 1] = 0 /\ gb[4 + 1] = "clean"
    BY DEF Goes, Plan
<1>0. \A k \in 1 .. 4 : Fits(body, hb, gb, k) /\ body[k] \in Steps
    BY <1>1, <1>2, ElementOfSeq DEF Leads
<1> DEFINE s == Repeat(n, body)
           at(i) == ((i - 1) % 4) + 1
           h == [i \in 1 .. n * 4 + 1 |-> hb[at(i)]]
           g == [i \in 1 .. n * 4 + 1 |-> gb[at(i)]]
<1>3. \A i \in Nat \ {0} : at(i) \in 1 .. 4
    OBVIOUS
<1>4. n * 4 \in Nat
    OBVIOUS
<1>5. s = [i \in 1 .. n * 4 |-> body[at(i)]]
    BY DEF Repeat
<1>6. s \in Seq(Steps) /\ Len(s) = n * 4
    <2>1. ASSUME NEW i \in 1 .. n * 4
          PROVE  body[at(i)] \in Steps
        <3>1. PICK k \in 1 .. 4 : k = at(i)
            BY <1>3, <1>4
        <3>2. body[k] \in Steps
            BY <1>0
        <3> QED BY <3>1, <3>2
    <2>2. s \in [1 .. n * 4 -> Steps]
        BY <1>5, <2>1
    <2> HIDE DEF s
    <2> QED BY <1>4, <2>2, SeqDef
<1>7. \A i \in 1 .. Len(s) : s[i] = body[at(i)]
    BY <1>5, <1>6
<1>8. h \in [1 .. Len(s) + 1 -> Depths] /\ g \in [1 .. Len(s) + 1 -> Marks]
    <2>1. \A i \in 1 .. n * 4 + 1 : hb[at(i)] \in Depths /\ gb[at(i)] \in Marks
        BY <1>2, <1>3, <1>4
    <2> QED BY <1>6, <2>1
<1>9. h[1] = 0 /\ g[1] = "clean"
    <2>1. at(1) = 1 /\ 1 \in 1 .. n * 4 + 1
        BY <1>4
    <2> QED BY <1>2, <2>1
<1>10. h[Len(s) + 1] = 0 /\ g[Len(s) + 1] = "clean"
    <2>1. at(n * 4 + 1) = 1 /\ n * 4 + 1 \in 1 .. n * 4 + 1
        BY <1>4
    <2> QED BY <1>2, <1>6, <2>1
\* Behind position k of the body is position k + d, or the first of the next.
<1>11. ASSUME NEW i \in 1 .. n * 4, NEW d \in 1 .. 4, at(i) + d <= 5
       PROVE  /\ i + d \in 1 .. n * 4 + 1
              /\ h[i + d] = hb[at(i) + d] /\ g[i + d] = gb[at(i) + d]
    <2>1. i + d \in 1 .. n * 4 + 1
        BY <1>4, <1>11
    <2>2. CASE at(i) + d <= 4
        <3>1. at(i + d) = at(i) + d
            BY <2>2
        <3> QED BY <2>1, <3>1
    <2>3. CASE at(i) + d = 5
        <3>1. at(i + d) = 1
            BY <2>3
        <3> QED BY <1>2, <2>1, <2>3, <3>1
    <2> QED BY <1>3, <1>11, <2>1, <2>2, <2>3
<1>12. ASSUME NEW i \in 1 .. Len(s)
       PROVE  Fits(s, h, g, i)
    <2>1. PICK k \in 1 .. 4 : k = at(i)
        BY <1>3, <1>4, <1>6
    <2>2. Fits(body, hb, gb, k) /\ body[k] \in Steps /\ s[i] = body[k]
        <3>1. s[i] = body[k]
            BY <1>7, <2>1
        <3> QED BY <1>0, <3>1
    <2>3. i \in 1 .. n * 4 /\ i \in 1 .. n * 4 + 1 /\ i \in 1 .. Len(s) + 1
        BY <1>4, <1>6
    <2>4. h[i] = hb[k] /\ g[i] = gb[k]
        BY <2>1, <2>3
    <2>5. h[i + 1] = hb[k + 1] /\ g[i + 1] = gb[k + 1]
        <3>1. k + 1 <= 5 /\ 1 \in 1 .. 4
            OBVIOUS
        <3> QED BY <1>11, <2>1, <2>3, <3>1
    <2>6. ASSUME NEW m \in Nat, m > 0, k + m <= 4
          PROVE  /\ i + m <= Len(s)
                 /\ h[i + m + 1] = hb[k + m + 1] /\ g[i + m + 1] = gb[k + m + 1]
        <3>1. PICK d \in 1 .. 4 : d = m + 1
            BY <2>6
        <3>2. k + d <= 5
            BY <2>6, <3>1
        <3>3. i + d \in 1 .. n * 4 + 1 /\ h[i + d] = hb[k + d] /\ g[i + d] = gb[k + d]
            BY <1>11, <2>1, <2>3, <3>2
        <3>4. i + d = i + m + 1 /\ k + d = k + m + 1 /\ i + m <= n * 4
            BY <1>4, <2>3, <3>1, <3>3
        <3> QED BY <1>6, <3>3, <3>4
    <2>7. body[k].skip \in Nat
        BY <2>2 DEF Steps
    <2>8. Len(body) = 4
        OBVIOUS
    <2> HIDE DEF s, h, g, at
    <2> QED BY <2>2, <2>4, <2>5, <2>6, <2>7, <2>8 DEF Fits
<1>13. Leads(s, h, g)
    BY <1>6, <1>8, <1>12 DEF Leads
<1> HIDE DEF s, h, g
<1> QED BY <1>6, <1>8, <1>9, <1>10, <1>13 DEF Goes, Plan, s
\* The bodies of the workers' loops, marked by hand: a failure goes on
\* behind the body, at mark 5.
LEMMA WorkerBodies ==
    /\ Len(process_item) = 4 /\ Goes(process_item, 0, "clean", 0, "clean")
    /\ Len(process_single_proof) = 4 /\ Goes(process_single_proof, 0, "clean", 0, "clean")
<1> DEFINE h == [i \in 1 .. 5 |-> IF i \in {3, 4} THEN 1 ELSE 0]
           g == [i \in 1 .. 5 |-> "clean"]
<1>1. h \in [1 .. 5 -> Depths] /\ g \in [1 .. 5 -> Marks]
    BY DEF Depths, Marks
<1>2. h[1] = 0 /\ h[2] = 0 /\ h[3] = 1 /\ h[4] = 1 /\ h[5] = 0
    OBVIOUS
<1>3. g[1] = "clean" /\ g[2] = "clean" /\ g[3] = "clean" /\ g[4] = "clean" /\ g[5] = "clean"
    OBVIOUS
<1> HIDE DEF h, g
<1>4. ASSUME NEW e \in Steps, e.op = "run", e.skip \in {0, 3}, e.save = "nothing",
             NEW s, s = <<e, OrSkip(Get, 2), OrSkip(Run, 1), Drop>>
      PROVE  Len(s) = 4 /\ Goes(s, 0, "clean", 0, "clean")
    <2>1. /\ OrSkip(Get, 2) \in Steps /\ OrSkip(Get, 2).op = "get" /\ OrSkip(Get, 2).skip = 2
          /\ OrSkip(Run, 1) \in Steps /\ OrSkip(Run, 1).op = "run" /\ OrSkip(Run, 1).skip = 1
          /\ OrSkip(Run, 1).save = "nothing"
        BY DEF OrSkip, Get, Run, Step, Steps, Saves
    <2>2. Drop \in Steps /\ Drop.op = "drop" /\ Drop.skip = 0
        BY StepKinds
    <2>3. s \in Seq(Steps) /\ Len(s) = 4
        BY <1>4, <2>1, <2>2
    <2>4. s[1] = e /\ s[2] = OrSkip(Get, 2) /\ s[3] = OrSkip(Run, 1) /\ s[4] = Drop
        BY <1>4
    <2>5. Fits(s, h, g, 1)
        <3>1. CASE e.skip = 0
            BY <1>2, <1>3, <1>4, <2>3, <2>4, <3>1 DEF Fits, Leftovers
        <3>2. CASE e.skip = 3
            BY <1>2, <1>3, <1>4, <2>3, <2>4, <3>2 DEF Fits, Leftovers
        <3> QED BY <1>4, <3>1, <3>2
    <2>6. Fits(s, h, g, 2)
        BY <1>2, <1>3, <2>1, <2>3, <2>4 DEF Fits
    <2>7. Fits(s, h, g, 3)
        BY <1>2, <1>3, <2>1, <2>3, <2>4 DEF Fits, Leftovers
    <2>8. Fits(s, h, g, 4)
        BY <1>2, <1>3, <2>2, <2>3, <2>4 DEF Fits
    <2>9. Leads(s, h, g)
        <3>1. \A i \in 1 .. 4 : i = 1 \/ i = 2 \/ i = 3 \/ i = 4
            OBVIOUS
        <3> QED BY <1>1, <2>3, <2>5, <2>6, <2>7, <2>8, <3>1 DEF Leads
    <2> QED BY <1>1, <1>2, <1>3, <2>3, <2>9 DEF Goes, Plan
<1>5. /\ OrLog(Run) \in Steps /\ OrLog(Run).op = "run" /\ OrLog(Run).skip = 0
      /\ OrLog(Run).save = "nothing"
    BY StepKinds
<1>6. /\ OrSkip(Run, 3) \in Steps /\ OrSkip(Run, 3).op = "run" /\ OrSkip(Run, 3).skip = 3
      /\ OrSkip(Run, 3).save = "nothing"
    BY DEF OrSkip, Run, Step, Steps, Saves
<1> QED BY <1>4, <1>5, <1>6 DEF process_item, process_single_proof

\* Every call that can arrive is on a plan from nothing to nothing.
LEMMA CallsPlanned ==
    ASSUME NEW c \in Slots, NEW call \in Calls(c)
    PROVE  \E q \in Marks : Goes(call, 0, "clean", 0, q)
<1>1. CASE call \in create_router
    <2>1. CASE call \in {Read, api_create_address_with_payment_id, estimate_fees}
        BY <2>1, OneConnection, MarkKinds
    <2>2. CASE \E f \in BOOLEAN : \/ call = api_lock_funds(f)
                                  \/ call = api_create_unsigned_transaction(f)
                                  \/ call = api_burn_funds(f)
        BY <2>2, LockingEndpoints
    <2> QED BY <1>1, <2>1, <2>2
            DEF create_router, api_get_balance, api_get_address, api_get_scan_status,
                api_get_events, api_get_completed_transactions, api_get_displayed_transactions,
                api_get_completed_transaction_by_payref,
                api_get_displayed_transactions_by_payref, api_estimate_fees
<1>2. CASE call \in Library
    <2>1. CASE call \in {Read, new}
        BY <2>1, OneConnection, MarkKinds
    <2>2. CASE call = finalize_transaction_and_broadcast
        BY <2>2, SenderCalls, MarkKinds
    <2>3. CASE \E f \in BOOLEAN : call = start_new_transaction(f)
        BY <2>3, SenderCalls
    <2> QED BY <1>2, <2>1, <2>2, <2>3 DEF Library, load_transactions
<1>3. CASE call \in Workers
    <2>1. Goes(<<Get, Run, Drop>>, 0, "clean", 0, "clean")
        BY ReadPlan
    <2>2. Goes(Repeat(Items, process_item), 0, "clean", 0, "clean")
        BY ItemsAssumption, WorkerBodies, RepeatPlan
    <2>3. Goes(Repeat(Items, process_single_proof), 0, "clean", 0, "clean")
        BY ItemsAssumption, WorkerBodies, RepeatPlan
    <2>4. Goes(process_batch, 0, "clean", 0, "clean")
        BY <2>1, <2>2, Then DEF process_batch
    <2>5. Goes(process_pending_proofs, 0, "clean", 0, "clean")
        BY <2>1, <2>3, Then DEF process_pending_proofs
    <2> QED BY <1>3, <2>4, <2>5, MarkKinds DEF Workers
<1>4. CASE call = unlock_expired_transactions
    BY <1>4, OneConnection, MarkKinds
<1> QED BY <1>1, <1>2, <1>3, <1>4 DEF Calls
-----------------------------------------------------------------------------
(* The first step of a call that is on plan                                *)

\* Whoever has nothing to do and nothing held is on plan.
LEMMA PlannedNothing ==
    ASSUME NEW left
    PROVE  <<>> \in Seq(Steps) /\ Planned(<<>>, 0, left)
<1>1. 0 \in Depths /\ "left" \in Marks /\ "left" # "clean"
    BY DEF Depths, Marks
<1> QED BY <1>1, Nothing DEF Planned

\* A call without steps has given everything back.
LEMMA PlannedEnd ==
    ASSUME NEW a, NEW left, Planned(<<>>, a, left)
    PROVE  a = 0
BY NothingHeld DEF Planned

\* The marks around the first step, and the plan of the rest.
LEMMA Ahead ==
    ASSUME NEW s \in Seq(Steps), s # <<>>, NEW a, NEW left, Planned(s, a, left)
    PROVE  \E h \in [1 .. Len(s) + 1 -> Depths], g \in [1 .. Len(s) + 1 -> Marks], q \in Marks :
              /\ Leads(s, h, g) /\ Fits(s, h, g, 1)
              /\ h[1] = a /\ (g[1] = "clean" => Clean(left))
              /\ h[Len(s) + 1] = 0 /\ g[Len(s) + 1] = q
              /\ a \in Depths /\ g[2] \in Marks /\ h[2] \in Depths
              /\ Plan(Tail(s), h[2], g[2], 0, q)
              /\ Head(s) = s[1] /\ Head(s) \in Steps /\ Tail(s) \in Seq(Steps)
<1>1. PICK p \in Marks, q \in Marks : Plan(s, a, p, 0, q) /\ (p = "clean" => Clean(left))
    BY DEF Planned
<1>2. PICK h \in [1 .. Len(s) + 1 -> Depths], g \in [1 .. Len(s) + 1 -> Marks] :
        /\ Leads(s, h, g)
        /\ h[1] = a /\ g[1] = p /\ h[Len(s) + 1] = 0 /\ g[Len(s) + 1] = q
    BY <1>1 DEF Plan
<1>3. Len(s) \in Nat \ {0} /\ 1 \in 1 .. Len(s) /\ 2 \in 1 .. Len(s) + 1
    OBVIOUS
<1>4. Tail(s) = SubSeq(s, 2, Len(s))
    BY TailIsSubSeq
<1>5. Plan(Tail(s), h[2], g[2], 0, q)
    BY <1>2, <1>3, <1>4, Suffix
<1>6. Fits(s, h, g, 1)
    BY <1>2, <1>3 DEF Leads
<1>7. a \in Depths /\ g[2] \in Marks /\ h[2] \in Depths
    BY <1>2, <1>3
<1>8. Head(s) = s[1] /\ Head(s) \in Steps /\ Tail(s) \in Seq(Steps)
    BY <1>3
<1> QED BY <1>1, <1>2, <1>5, <1>6, <1>7, <1>8

\* A call that asks for a connection holds at most three and has nothing to
\* lose.
LEMMA PlannedGet ==
    ASSUME NEW s \in Seq(Steps), s # <<>>, NEW a, NEW left, Planned(s, a, left),
           Head(s).op = "get"
    PROVE  a \in 0 .. 3 /\ Clean(left) /\ Planned(Tail(s), a + 1, left) /\ Tail(s) \in Seq(Steps)
<1>1. PICK h \in [1 .. Len(s) + 1 -> Depths], g \in [1 .. Len(s) + 1 -> Marks], q \in Marks :
              /\ Leads(s, h, g) /\ Fits(s, h, g, 1)
              /\ h[1] = a /\ (g[1] = "clean" => Clean(left))
              /\ a \in Depths /\ g[2] \in Marks /\ h[2] \in Depths
              /\ Plan(Tail(s), h[2], g[2], 0, q)
              /\ Head(s) = s[1] /\ Tail(s) \in Seq(Steps)
    BY Ahead
<1>2. h[1] < 4 /\ h[1 + 1] = h[1] + 1 /\ g[1] = "clean" /\ g[1 + 1] = "clean"
    BY <1>1 DEF Fits
<1>3. h[2] = a + 1 /\ g[2] = "clean"
    BY <1>1, <1>2
<1>4. a \in 0 .. 3
    BY <1>1, <1>2 DEF Depths
<1> QED BY <1>1, <1>2, <1>3, <1>4 DEF Planned

\* A statement keeps the connections and may leave something behind.
LEMMA PlannedRun ==
    ASSUME NEW s \in Seq(Steps), s # <<>>, NEW a, NEW left, Planned(s, a, left),
           Head(s).op = "run"
    PROVE  /\ Planned(Tail(s), a, left \cup ({Head(s).save} \ {"nothing"}))
           /\ Tail(s) \in Seq(Steps) /\ Head(s).save \in Saves
<1>1. PICK h \in [1 .. Len(s) + 1 -> Depths], g \in [1 .. Len(s) + 1 -> Marks], q \in Marks :
              /\ Leads(s, h, g) /\ Fits(s, h, g, 1)
              /\ h[1] = a /\ (g[1] = "clean" => Clean(left))
              /\ a \in Depths /\ g[2] \in Marks /\ h[2] \in Depths
              /\ Plan(Tail(s), h[2], g[2], 0, q)
              /\ Head(s) = s[1] /\ Head(s) \in Steps /\ Tail(s) \in Seq(Steps)
    BY Ahead
<1>2. /\ h[1 + 1] = h[1]
      /\ g[1 + 1] = "clean" =>
            s[1].save = "sent" \/ (g[1] = "clean" /\ s[1].save \notin Leftovers)
    BY <1>1 DEF Fits
<1>3. h[2] = a
    BY <1>1, <1>2
<1>4. g[2] = "clean" => Clean(left \cup ({Head(s).save} \ {"nothing"}))
    BY <1>1, <1>2 DEF Clean
<1>5. Head(s).save \in Saves
    BY <1>1 DEF Steps
<1> QED BY <1>1, <1>3, <1>4, <1>5 DEF Planned

\* A scope that ends has a connection to give back.
LEMMA PlannedDrop ==
    ASSUME NEW s \in Seq(Steps), s # <<>>, NEW a, NEW left, Planned(s, a, left),
           Head(s).op = "drop"
    PROVE  a \in 1 .. 4 /\ Planned(Tail(s), a - 1, left) /\ Tail(s) \in Seq(Steps)
<1>1. PICK h \in [1 .. Len(s) + 1 -> Depths], g \in [1 .. Len(s) + 1 -> Marks], q \in Marks :
              /\ Leads(s, h, g) /\ Fits(s, h, g, 1)
              /\ h[1] = a /\ (g[1] = "clean" => Clean(left))
              /\ a \in Depths /\ g[2] \in Marks /\ h[2] \in Depths
              /\ Plan(Tail(s), h[2], g[2], 0, q)
              /\ Head(s) = s[1] /\ Tail(s) \in Seq(Steps)
    BY Ahead
<1>2. h[1] > 0 /\ h[1 + 1] = h[1] - 1 /\ g[1 + 1] = g[1]
    BY <1>1 DEF Fits
<1>3. h[2] = a - 1 /\ g[2] = g[1]
    BY <1>1, <1>2
<1>4. a \in 1 .. 4
    BY <1>1, <1>2 DEF Depths
<1> QED BY <1>1, <1>3, <1>4 DEF Planned

\* The rest of a loop goes on with nothing held and nothing to lose.
LEMMA PlannedSkip ==
    ASSUME NEW s \in Seq(Steps), s # <<>>, NEW a, NEW left, Planned(s, a, left),
           Head(s).skip > 0
    PROVE  /\ SubSeq(s, Head(s).skip + 2, Len(s)) \in Seq(Steps)
           /\ Planned(SubSeq(s, Head(s).skip + 2, Len(s)), 0, left)
           /\ Planned(SubSeq(s, Head(s).skip + 2, Len(s)), 0, left \ {"lock"})
<1>1. PICK h \in [1 .. Len(s) + 1 -> Depths], g \in [1 .. Len(s) + 1 -> Marks], q \in Marks :
              /\ Leads(s, h, g) /\ Fits(s, h, g, 1)
              /\ h[1] = a /\ (g[1] = "clean" => Clean(left))
              /\ h[Len(s) + 1] = 0 /\ g[Len(s) + 1] = q
              /\ Head(s) = s[1] /\ Head(s) \in Steps
    BY Ahead
<1>2. PICK n \in Nat : n = Head(s).skip
    BY <1>1 DEF Steps
<1>3. /\ 1 + n <= Len(s) /\ h[1 + n + 1] = 0
      /\ g[1] = "clean" /\ g[1 + n + 1] = "clean"
    BY <1>1, <1>2 DEF Fits
<1>4. n + 2 = 1 + n + 1 /\ n + 2 \in 1 .. Len(s) + 1
    BY <1>3
<1>5. Plan(SubSeq(s, n + 2, Len(s)), 0, "clean", 0, q)
    BY <1>1, <1>3, <1>4, Suffix
<1>6. SubSeq(s, n + 2, Len(s)) \in Seq(Steps)
    BY <1>4
<1>7. Clean(left) /\ Clean(left \ {"lock"})
    BY <1>1, <1>3 DEF Clean
<1> QED BY <1>2, <1>5, <1>6, <1>7, MarkKinds DEF Planned
-----------------------------------------------------------------------------
(* Counting connections                                                    *)

\* The connections that are out can be counted.
LEMMA OutIsFinite ==
    ASSUME NEW f \in [Slots -> Depths]
    PROVE  IsFiniteSet(OutOf(f)) /\ Cardinality(OutOf(f)) \in Nat
<1>1. IsFiniteSet(1 .. 4)
    <2>1. 1 \in Int /\ 4 \in Int
        OBVIOUS
    <2> QED BY ONLY <2>1, FS_Interval
<1>2. IsFiniteSet(Slots \X (1 .. 4))
    BY <1>1, SlotsAssumption, FS_Product
<1>3. OutOf(f) \subseteq Slots \X (1 .. 4)
    BY DEF OutOf
<1>4. IsFiniteSet(OutOf(f))
    BY <1>2, <1>3, FS_Subset
<1> QED BY <1>4, FS_CardinalityType

\* A connection taken is one more out ...
LEMMA OneMore ==
    ASSUME NEW f \in [Slots -> Depths], NEW c \in Slots, f[c] < 4
    PROVE  Cardinality(OutOf([f EXCEPT ![c] = f[c] + 1])) = Cardinality(OutOf(f)) + 1
<1>1. PICK k \in 0 .. 3 : k = f[c]
    BY DEF Depths
<1> DEFINE x == <<c, k + 1>>
<1>2. x \in Slots \X (1 .. 4)
    OBVIOUS
<1>3. x \notin OutOf(f)
    BY <1>1 DEF OutOf
<1>4. OutOf([f EXCEPT ![c] = f[c] + 1]) = OutOf(f) \cup {x}
    <2> DEFINE f2 == [f EXCEPT ![c] = f[c] + 1]
    <2>1. ASSUME NEW y \in Slots \X (1 .. 4)
          PROVE  y \in OutOf(f2) <=> y \in OutOf(f) \cup {x}
        <3>1. PICK d \in Slots, n \in 1 .. 4 : y = <<d, n>>
            OBVIOUS
        <3>2. (y \in OutOf(f2) <=> n <= f2[d]) /\ (y \in OutOf(f) <=> n <= f[d])
            BY <3>1 DEF OutOf
        <3>3. CASE d = c
            <4>1. f2[d] = k + 1 /\ f[d] = k
                BY <1>1, <3>3
            <4>2. y = x <=> n = k + 1
                BY <3>1, <3>3
            <4> HIDE DEF x, f2
            <4> QED BY <3>2, <4>1, <4>2
        <3>4. CASE d # c
            <4>1. f2[d] = f[d] /\ y # x
                BY <3>1, <3>4
            <4> HIDE DEF x, f2
            <4> QED BY <3>2, <4>1
        <3> QED BY <3>3, <3>4
    <2>2. OutOf(f2) \subseteq Slots \X (1 .. 4) /\ OutOf(f) \subseteq Slots \X (1 .. 4)
        BY DEF OutOf
    <2> HIDE DEF x, f2
    <2>3. OutOf(f2) = OutOf(f) \cup {x}
        BY <1>2, <2>1, <2>2
    <2> QED BY <2>3 DEF f2
<1> HIDE DEF x
<1> QED BY <1>3, <1>4, OutIsFinite, FS_AddElement

\* A call that ends gives back all it had.
LEMMA AllBack ==
    ASSUME NEW f \in [Slots -> Depths], NEW c \in Slots
    PROVE  Cardinality(OutOf(f)) = Cardinality(OutOf([f EXCEPT ![c] = 0])) + f[c]
<1> DEFINE F(k) == [f EXCEPT ![c] = k]
           N(k) == Cardinality(OutOf(F(k)))
<1>1. ASSUME NEW k \in 0 .. 3
      PROVE  N(k + 1) = N(k) + 1
    <2>1. F(k) \in [Slots -> Depths] /\ F(k)[c] = k
        BY DEF Depths
    <2>2. [F(k) EXCEPT ![c] = F(k)[c] + 1] = F(k + 1)
        BY <2>1
    <2>3. F(k)[c] < 4
        BY <2>1
    <2> HIDE DEF F
    <2>4. Cardinality(OutOf([F(k) EXCEPT ![c] = F(k)[c] + 1])) = Cardinality(OutOf(F(k))) + 1
        BY <2>1, <2>3, OneMore
    <2> QED BY <2>2, <2>4
<1>2. N(0) \in Nat
    <2>1. F(0) \in [Slots -> Depths]
        BY DEF Depths
    <2> QED BY <2>1, OutIsFinite
<1>3. PICK m \in 0 .. 4 : m = f[c]
    BY DEF Depths
<1>4. f = F(m)
    BY <1>3
<1>5. N(m) = N(0) + m
    <2> HIDE DEF N
    <2>1. N(0 + 1) = N(0) + 1 /\ N(1 + 1) = N(1) + 1 /\ N(2 + 1) = N(2) + 1 /\ N(3 + 1) = N(3) + 1
        BY <1>1
    <2>2. N(1) = N(0) + 1 /\ N(2) = N(1) + 1 /\ N(3) = N(2) + 1 /\ N(4) = N(3) + 1
        BY <2>1
    <2>3. m = 0 \/ m = 1 \/ m = 2 \/ m = 3 \/ m = 4
        OBVIOUS
    <2> QED BY <1>2, <2>2, <2>3
<1>6. N(m) = Cardinality(OutOf(f)) /\ N(0) = Cardinality(OutOf([f EXCEPT ![c] = 0]))
    BY <1>4
<1> HIDE DEF F, N
<1> QED BY <1>3, <1>5, <1>6

\* ... and a connection dropped one less.
LEMMA OneLess ==
    ASSUME NEW f \in [Slots -> Depths], NEW c \in Slots, f[c] > 0
    PROVE  Cardinality(OutOf([f EXCEPT ![c] = f[c] - 1])) + 1 = Cardinality(OutOf(f))
<1> DEFINE f2 == [f EXCEPT ![c] = f[c] - 1]
<1>1. f2 \in [Slots -> Depths] /\ f2[c] < 4 /\ f2[c] = f[c] - 1
    BY DEF Depths
<1>2. f[c] - 1 + 1 = f[c]
    BY DEF Depths
<1>3. [f2 EXCEPT ![c] = f2[c] + 1] = f
    BY <1>1, <1>2
<1> HIDE DEF f2
<1>4. Cardinality(OutOf(f)) = Cardinality(OutOf(f2)) + 1
    BY <1>1, <1>3, OneMore
<1> QED BY <1>4 DEF f2
-----------------------------------------------------------------------------
(* The invariant is inductive                                              *)

\* Only slot c has moved, and it is on plan where it is now.
LEMMA Moved ==
    ASSUME IInv, NEW c \in Slots,
           NEW s \in Seq(Steps), NEW a \in Depths, NEW left \in SUBSET Saves,
           NEW r \in {"none", "open", "Ok", "failed", "refused", "TaskEnded"},
           todo' = [todo EXCEPT ![c] = s], held' = [held EXCEPT ![c] = a],
           saved' = [saved EXCEPT ![c] = left], result' = [result EXCEPT ![c] = r],
           Planned(s, a, left), r # "open" => s = <<>>,
           r = "refused" => left \cap Leftovers = {} \/ "sent" \in left,
           idle' \in Nat, Conserved'
    PROVE  IInv'
<1>1. TypeOK'
    BY DEF IInv, TypeOK
<1>2. OnPlan'
    BY DEF IInv, TypeOK, OnPlan
<1>3. AtRest'
    BY DEF IInv, TypeOK, AtRest, Open
<1>4. RefusalsLeaveNothingBehind'
    BY DEF IInv, TypeOK, RefusalsLeaveNothingBehind, Leftovers
<1> QED BY <1>1, <1>2, <1>3, <1>4 DEF IInv

\* What a slot is when it has a first step to take.
LEMMA First ==
    ASSUME IInv, NEW c \in Slots, todo[c] # <<>>
    PROVE  /\ todo[c] \in Seq(Steps) /\ held[c] \in Depths /\ saved[c] \in SUBSET Saves
           /\ result[c] = "open" /\ Planned(todo[c], held[c], saved[c])
           /\ Head(todo[c]) \in Steps
BY DEF IInv, TypeOK, OnPlan, AtRest, Open

\* A call arrives at a slot that holds nothing.
LEMMA ArriveStep ==
    ASSUME IInv, NEW c \in Slots, Arrive(c)
    PROVE  IInv'
<1>1. PICK call \in Calls(c) : todo' = [todo EXCEPT ![c] = call]
    BY DEF Arrive
<1>2. PICK q \in Marks : Goes(call, 0, "clean", 0, q)
    BY CallsPlanned
<1>3. held[c] = 0
    <2>1. todo[c] = <<>> /\ Planned(<<>>, held[c], saved[c])
        BY DEF IInv, AtRest, Arrive, OnPlan
    <2> QED BY <2>1, PlannedEnd
<1>4. Planned(call, 0, {}) /\ call \in Seq(Steps)
    BY <1>2, MarkKinds DEF Goes, Planned, Clean
<1>5. 0 \in Depths /\ {} \in SUBSET Saves
    BY DEF Depths
<1>6. held' = [held EXCEPT ![c] = 0] /\ idle' = idle /\ held' = held
    BY <1>3 DEF Arrive, IInv, TypeOK
<1>7. idle' \in Nat /\ Conserved'
    BY <1>6 DEF IInv, TypeOK, Conserved
<1>8. saved' = [saved EXCEPT ![c] = {}] /\ result' = [result EXCEPT ![c] = "open"]
    BY DEF Arrive
<1> QED BY <1>1, <1>4, <1>5, <1>6, <1>7, <1>8, Moved

\* A connection leaves the pool.
LEMMA TakeStep ==
    ASSUME IInv, NEW c \in Slots, Take(c)
    PROVE  IInv'
<1>1. todo[c] # <<>> /\ Head(todo[c]).op = "get"
    BY DEF Take, AtGet
<1>2. /\ todo[c] \in Seq(Steps) /\ saved[c] \in SUBSET Saves
      /\ result[c] = "open" /\ Planned(todo[c], held[c], saved[c])
    BY <1>1, First
<1>3. /\ held[c] \in 0 .. 3 /\ Planned(Tail(todo[c]), held[c] + 1, saved[c])
      /\ Tail(todo[c]) \in Seq(Steps)
    BY <1>1, <1>2, PlannedGet
<1>4. held' = [held EXCEPT ![c] = held[c] + 1] /\ held[c] + 1 \in Depths
    BY <1>3 DEF Take, Depths
<1>5. todo' = [todo EXCEPT ![c] = Tail(todo[c])] /\ saved' = [saved EXCEPT ![c] = saved[c]]
      /\ result' = [result EXCEPT ![c] = "open"]
    BY <1>2 DEF Take, Advance, IInv, TypeOK
<1>6. idle' \in Nat /\ Conserved'
    <2>1. Cardinality(OutOf(held)) \in Nat /\ idle' = idle - 1 /\ idle > 0 /\ idle \in Nat
        BY OutIsFinite DEF IInv, TypeOK, Take
    <2>2. Cardinality(OutOf(held')) = Cardinality(OutOf(held)) + 1
        <3>1. held \in [Slots -> Depths] /\ held[c] < 4
            BY <1>3 DEF IInv, TypeOK
        <3>2. Cardinality(OutOf([held EXCEPT ![c] = held[c] + 1])) = Cardinality(OutOf(held)) + 1
            BY <3>1, OneMore
        <3> QED BY <1>4, <3>2
    <2>3. idle + Cardinality(OutOf(held)) = DB_POOL_SIZE
        BY DEF IInv, Conserved
    <2> QED BY <2>1, <2>2, <2>3 DEF Conserved, DB_POOL_SIZE
<1> QED BY <1>2, <1>3, <1>4, <1>5, <1>6, Moved

\* A statement or a request succeeds.
LEMMA PerformStep ==
    ASSUME IInv, NEW c \in Slots, Perform(c)
    PROVE  IInv'
<1> DEFINE left == saved[c] \cup ({Head(todo[c]).save} \ {"nothing"})
<1>1. todo[c] # <<>> /\ Head(todo[c]).op = "run"
    BY DEF Perform, AtRun
<1>2. /\ todo[c] \in Seq(Steps) /\ saved[c] \in SUBSET Saves /\ held[c] \in Depths
      /\ result[c] = "open" /\ Planned(todo[c], held[c], saved[c])
    BY <1>1, First
<1>3. /\ Planned(Tail(todo[c]), held[c], left)
      /\ Tail(todo[c]) \in Seq(Steps) /\ Head(todo[c]).save \in Saves
    BY <1>1, <1>2, PlannedRun
<1>4. left \in SUBSET Saves
    BY <1>2, <1>3
<1>5. /\ todo' = [todo EXCEPT ![c] = Tail(todo[c])] /\ saved' = [saved EXCEPT ![c] = left]
      /\ held' = [held EXCEPT ![c] = held[c]] /\ result' = [result EXCEPT ![c] = "open"]
    BY <1>2 DEF Perform, Advance, IInv, TypeOK
<1>6. idle' \in Nat /\ Conserved'
    BY DEF Perform, IInv, TypeOK, Conserved
<1> HIDE DEF left
<1> QED BY <1>2, <1>3, <1>4, <1>5, <1>6, Moved

\* A connection comes back.
LEMMA GiveBackStep ==
    ASSUME IInv, NEW c \in Slots, GiveBack(c)
    PROVE  IInv'
<1>1. todo[c] # <<>> /\ Head(todo[c]).op = "drop"
    BY DEF GiveBack
<1>2. /\ todo[c] \in Seq(Steps) /\ saved[c] \in SUBSET Saves
      /\ result[c] = "open" /\ Planned(todo[c], held[c], saved[c])
    BY <1>1, First
<1>3. /\ held[c] \in 1 .. 4 /\ Planned(Tail(todo[c]), held[c] - 1, saved[c])
      /\ Tail(todo[c]) \in Seq(Steps)
    BY <1>1, <1>2, PlannedDrop
<1>4. held' = [held EXCEPT ![c] = held[c] - 1] /\ held[c] - 1 \in Depths
    BY <1>3 DEF GiveBack, Depths
<1>5. todo' = [todo EXCEPT ![c] = Tail(todo[c])] /\ saved' = [saved EXCEPT ![c] = saved[c]]
      /\ result' = [result EXCEPT ![c] = "open"]
    BY <1>2 DEF GiveBack, Advance, IInv, TypeOK
<1>6. idle' \in Nat /\ Conserved'
    <2>1. idle' = idle + 1 /\ idle \in Nat
        BY DEF IInv, TypeOK, GiveBack
    <2>2. Cardinality(OutOf(held')) + 1 = Cardinality(OutOf(held))
        <3>1. held \in [Slots -> Depths] /\ held[c] > 0
            BY <1>3 DEF IInv, TypeOK
        <3>2. Cardinality(OutOf([held EXCEPT ![c] = held[c] - 1])) + 1 = Cardinality(OutOf(held))
            BY <3>1, OneLess
        <3> QED BY <1>4, <3>2
    <2>3. Cardinality(OutOf(held')) \in Nat
        <3>1. held' \in [Slots -> Depths]
            BY <1>4 DEF IInv, TypeOK
        <3> QED BY <3>1, OutIsFinite
    <2>4. idle + Cardinality(OutOf(held)) = DB_POOL_SIZE
        BY DEF IInv, Conserved
    <2> QED BY <2>1, <2>2, <2>3, <2>4 DEF Conserved, DB_POOL_SIZE
<1> QED BY <1>2, <1>3, <1>4, <1>5, <1>6, Moved

\* A call without steps left is answered.
LEMMA AnswerStep ==
    ASSUME IInv, NEW c \in Slots, Answer(c)
    PROVE  IInv'
<1>1. /\ todo[c] = <<>> /\ todo[c] \in Seq(Steps) /\ saved[c] \in SUBSET Saves /\ held[c] \in Depths
      /\ Planned(todo[c], held[c], saved[c])
    BY DEF Answer, IInv, TypeOK, OnPlan
<1>2. /\ todo' = [todo EXCEPT ![c] = todo[c]] /\ saved' = [saved EXCEPT ![c] = saved[c]]
      /\ held' = [held EXCEPT ![c] = held[c]] /\ result' = [result EXCEPT ![c] = "Ok"]
    BY DEF Answer, IInv, TypeOK
<1>3. idle' \in Nat /\ Conserved'
    BY DEF Answer, IInv, TypeOK, Conserved
<1> QED BY <1>1, <1>2, <1>3, Moved

\* A refused or failed step.  Only a refused one has to come at a moment
\* with nothing to lose, and a get comes at no other.
LEMMA AbortStep ==
    ASSUME IInv, NEW c \in Slots, todo[c] # <<>>,
           NEW end \in {"failed", "refused", "TaskEnded"}, Abort(c, end),
           end = "refused" => Head(todo[c]).op = "get"
    PROVE  IInv'
<1> DEFINE step == Head(todo[c])
           left == IF step.unlock THEN saved[c] \ {"lock"} ELSE saved[c]
<1>1. /\ todo[c] \in Seq(Steps) /\ saved[c] \in SUBSET Saves /\ held[c] \in Depths
      /\ result[c] = "open" /\ Planned(todo[c], held[c], saved[c]) /\ step \in Steps
    BY First
<1>2. left \in SUBSET Saves /\ (left = saved[c] \/ left = saved[c] \ {"lock"})
    BY <1>1
<1>3. saved' = [saved EXCEPT ![c] = left] /\ held' = [held EXCEPT ![c] = 0] /\ 0 \in Depths
    BY DEF Abort, Depths
<1>4. idle' \in Nat /\ Conserved'
    <2>1. Cardinality(OutOf(held)) = Cardinality(OutOf(held')) + held[c]
        BY <1>3, AllBack DEF IInv, TypeOK
    <2>2. Cardinality(OutOf(held')) \in Nat
        <3>1. held' \in [Slots -> Depths]
            BY <1>3 DEF IInv, TypeOK
        <3> QED BY <3>1, OutIsFinite
    <2>3. idle' = idle + held[c] /\ idle \in Nat /\ held[c] \in Nat
        BY <1>1 DEF Abort, IInv, TypeOK, Depths
    <2>4. idle + Cardinality(OutOf(held)) = DB_POOL_SIZE
        BY DEF IInv, Conserved
    <2> QED BY <2>1, <2>2, <2>3, <2>4 DEF Conserved, DB_POOL_SIZE
<1>5. CASE step.skip > 0
    <2> DEFINE s == SubSeq(todo[c], step.skip + 2, Len(todo[c]))
    <2>1. todo' = [todo EXCEPT ![c] = s] /\ result' = [result EXCEPT ![c] = "open"]
        BY <1>1, <1>5 DEF Abort, IInv, TypeOK
    <2>2. s \in Seq(Steps) /\ Planned(s, 0, left)
        BY <1>1, <1>2, <1>5, PlannedSkip
    <2> HIDE DEF s, left
    <2> QED BY <1>2, <1>3, <1>4, <2>1, <2>2, Moved
<1>6. CASE ~ (step.skip > 0)
    <2>1. todo' = [todo EXCEPT ![c] = <<>>] /\ result' = [result EXCEPT ![c] = end]
        BY <1>6 DEF Abort
    <2>2. <<>> \in Seq(Steps) /\ Planned(<<>>, 0, left)
        BY PlannedNothing
    <2>3. end = "refused" => left \cap Leftovers = {} \/ "sent" \in left
        <3> SUFFICES ASSUME end = "refused" PROVE left \cap Leftovers = {} \/ "sent" \in left
            OBVIOUS
        <3>1. Clean(saved[c])
            BY <1>1, PlannedGet
        <3> QED BY <1>2, <3>1 DEF Clean
    <2> HIDE DEF left
    <2> QED BY <1>2, <1>3, <1>4, <2>1, <2>2, <2>3, Moved
<1> QED BY <1>5, <1>6

\* The inductive invariant holds throughout.
THEOREM Invariance == Spec => []IInv
<1>1. Init => IInv
    <2> SUFFICES ASSUME Init PROVE IInv
        OBVIOUS
    <2>1. TypeOK
        <3>1. <<>> \in Seq(Steps)
            OBVIOUS
        <3> QED BY <3>1 DEF Init, TypeOK, Depths, DB_POOL_SIZE
    <2>2. Conserved
        <3>1. OutOf(held) = {}
            BY DEF OutOf, Init
        <3>2. Cardinality({}) = 0
            BY FS_EmptySet
        <3>3. Cardinality(OutOf(held)) = 0 /\ idle = DB_POOL_SIZE
            BY <3>1, <3>2 DEF Init
        <3> QED BY <3>3 DEF Conserved, DB_POOL_SIZE
    <2>3. OnPlan
        BY PlannedNothing DEF OnPlan, Init
    <2>4. AtRest /\ RefusalsLeaveNothingBehind
        BY DEF AtRest, RefusalsLeaveNothingBehind, Init, Open
    <2> QED BY <2>1, <2>2, <2>3, <2>4 DEF IInv
<1>2. IInv /\ [Next]_vars => IInv'
    <2> SUFFICES ASSUME IInv, [Next]_vars PROVE IInv'
        OBVIOUS
    <2>1. CASE UNCHANGED vars
        BY <2>1 DEF vars, IInv, TypeOK, Conserved, OnPlan, AtRest, Open,
                    RefusalsLeaveNothingBehind
    <2>2. ASSUME NEW c \in Slots, Arrive(c) PROVE IInv'
        BY <2>2, ArriveStep
    <2>3. ASSUME NEW c \in Slots, Take(c) PROVE IInv'
        BY <2>3, TakeStep
    <2>4. ASSUME NEW c \in Slots, Refuse(c) PROVE IInv'
        <3>1. todo[c] # <<>> /\ Head(todo[c]).op = "get"
            BY <2>4 DEF Refuse, AtGet
        <3>2. CASE Head(todo[c]).save = "task"
            BY <2>4, <3>1, <3>2, AbortStep DEF Refuse
        <3>3. CASE Head(todo[c]).save # "task"
            BY <2>4, <3>1, <3>3, AbortStep DEF Refuse
        <3> QED BY <3>2, <3>3
    <2>5. ASSUME NEW c \in Slots, Perform(c) PROVE IInv'
        BY <2>5, PerformStep
    <2>6. ASSUME NEW c \in Slots, Fail(c) PROVE IInv'
        <3>1. todo[c] # <<>> /\ Abort(c, "failed")
            BY <2>6 DEF Fail, AtRun
        <3> QED BY <3>1, AbortStep
    <2>7. ASSUME NEW c \in Slots, GiveBack(c) PROVE IInv'
        BY <2>7, GiveBackStep
    <2>8. ASSUME NEW c \in Slots, Answer(c) PROVE IInv'
        BY <2>8, AnswerStep
    <2> QED BY <2>1, <2>2, <2>3, <2>4, <2>5, <2>6, <2>7, <2>8 DEF Next, Continue
<1> QED BY <1>1, <1>2, PTL DEF Spec

\* Idle and held connections are the pool, however calls are refused, fail or
\* leave a loop body early.
THEOREM PoolConserved == Spec => []Conserved
BY Invariance, PTL DEF IInv

\* A call that waits holds three connections at most, and the pool has five:
\* when it is empty, another call has one.
THEOREM NoSelfDeadlock == Spec => []NobodyWaitsForItself
<1>1. IInv => NobodyWaitsForItself
    <2> SUFFICES ASSUME IInv, NEW c \in Slots, AtGet(c), idle = 0,
                        \A d \in Slots \ {c} : ~ (held[d] > 0)
                 PROVE  FALSE
        BY DEF NobodyWaitsForItself
    <2>1. held[c] \in 0 .. 3
        BY First, PlannedGet DEF AtGet
    <2>2. OutOf([held EXCEPT ![c] = 0]) = {}
        <3> SUFFICES ASSUME NEW d \in Slots, NEW n \in 1 .. 4
                     PROVE  ~ (n <= [held EXCEPT ![c] = 0][d])
            BY DEF OutOf
        <3> QED BY DEF IInv, TypeOK, Depths
    <2>3. Cardinality(OutOf(held)) = held[c]
        <3>1. Cardinality(OutOf(held)) = Cardinality(OutOf([held EXCEPT ![c] = 0])) + held[c]
            BY AllBack DEF IInv, TypeOK
        <3>2. Cardinality({}) = 0
            BY FS_EmptySet
        <3>3. Cardinality(OutOf([held EXCEPT ![c] = 0])) = 0
            BY <2>2, <3>2
        <3>4. Cardinality(OutOf(held)) = 0 + held[c]
            BY ONLY <3>1, <3>3
        <3> QED BY ONLY <2>1, <3>4
    <2> QED BY <2>1, <2>3 DEF IInv, Conserved, DB_POOL_SIZE
<1> QED BY <1>1, Invariance, PTL

\* Every get of every caller comes before the first write that a refusal
\* would strand, or after the transaction is sent.
THEOREM RefusalsAreHarmless == Spec => []RefusalsLeaveNothingBehind
BY Invariance, PTL DEF IInv
=============================================================================
