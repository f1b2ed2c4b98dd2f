---------------------------- MODULE JsRefsProofs ----------------------------
(***************************************************************************)
(* Proof that references live exactly as long as somebody needs them and   *)
(* their engine is there, for any calls, exports, results and engines.     *)
(***************************************************************************)
EXTENDS JsRefs, FiniteSetTheorems, FunctionTheorems, SequenceTheorems, TLAPS

\* How many releases of its argument are to come, less one: what the call still
\* owes, and what the application keeps.  A reference is destroyed below 0.
Owes(p) ==
  CASE p \in {"running", "pending"}                  -> 1
    [] p \in {"converting", "released", "answering", "leaked"} -> 0
    [] OTHER                                         -> 0 - 1
Need(c) == kept[c] + Owes(phase[c])

ArgumentsCounted ==
  \A c \in Calls :
    /\ Arg(c) \in alive <=> AtHome(c) /\ Need(c) >= 0
    /\ AtHome(c) => count[Arg(c)] = Need(c)

\* The other references are counted once for each that holds them, less one.
Unsettled == {"pending", "released", "answering", "answered"}
SettlersCounted ==
  \A c \in Calls :
    /\ Res(c) \in alive <=> AtHome(c) /\ phase[c] \in Unsettled
    /\ Holder(c) \in alive <=> AtHome(c) /\ phase[c] \in Unsettled
    /\ Res(c) \in alive => count[Res(c)] = 0 /\ count[Holder(c)] = 0

FunctionCounted ==
  /\ IsFiniteSet(exported)
  /\ count[Func] = Cardinality(exported) - Is(~owned)
  /\ Func \in alive <=> owned \/ exported # {}
  /\ \A e \in Exports : Export(e) \in alive <=> e \in exported
  /\ \A e \in exported : count[Export(e)] = 0

ResultsCounted ==
  \A v \in Results :
    LET here == up /\ held[v].home = engine
    IN  /\ Value(v) \in alive <=> here /\ held[v].value
        /\ Native(v) \in alive <=> here /\ held[v].result
        /\ Value(v) \in alive => count[Value(v)] = 0
        /\ Native(v) \in alive => count[Native(v)] = 0

\* Calls and results belong to engines that there were; what is on the stack
\* belongs to the one that is there.
EnginesKnown ==
  /\ \A c \in Calls : home[c] <= engine /\ (phase[c] = "idle" => home[c] = 0 /\ kept[c] = 0)
  /\ \A v \in Results : held[v].home <= engine
  /\ \A i \in 1 .. Len(stack) : AtHome(stack[i])

IndInv ==
  /\ TypeOK /\ EnginesKnown
  /\ ArgumentsCounted /\ SettlersCounted /\ FunctionCounted /\ ResultsCounted

----------------------------------------------------------------------------
(* References. *)

\* References have their names and hold what they hold.
LEMMA Names ==
  /\ Func \in Refs /\ Func \notin InEngine /\ Held(Func) = {}
  /\ \A c \in Calls :
       /\ Arg(c) \in InEngine /\ Res(c) \in InEngine /\ Holder(c) \in InEngine
       /\ Held(Arg(c)) = {} /\ Held(Res(c)) = {} /\ Held(Holder(c)) = {Res(c)}
  /\ \A e \in Exports : Export(e) \in InEngine /\ Held(Export(e)) = {Func}
  /\ \A v \in Results :
       /\ Value(v) \in InEngine /\ Native(v) \in InEngine
       /\ Held(Value(v)) = {} /\ Held(Native(v)) = {}
  /\ InEngine \subseteq Refs
BY DEF Func, Refs, InEngine, Held, Arg, Res, Holder, Export, Value, Native

LEMMA Kinds ==
  ASSUME NEW r \in Refs
  PROVE  \/ r = Func
         \/ \E c \in Calls : r \in {Arg(c), Res(c), Holder(c)}
         \/ \E e \in Exports : r = Export(e)
         \/ \E v \in Results : r \in {Value(v), Native(v)}
BY DEF Func, Refs, InEngine, Arg, Res, Holder, Export, Value, Native

LEMMA Apart ==
  /\ \A c \in Calls, d \in Calls :
       /\ Arg(c) = Arg(d) => c = d
       /\ Res(c) = Res(d) => c = d
       /\ Holder(c) = Holder(d) => c = d
       /\ Arg(c) # Res(d) /\ Arg(c) # Holder(d) /\ Res(c) # Holder(d)
  /\ \A e \in Exports, x \in Exports : Export(e) = Export(x) => e = x
  /\ \A v \in Results, w \in Results :
       /\ Value(v) = Value(w) => v = w
       /\ Native(v) = Native(w) => v = w
       /\ Value(v) # Native(w)
  /\ \A c \in Calls :
       /\ Func \notin {Arg(c), Res(c), Holder(c)}
       /\ \A e \in Exports : Export(e) \notin {Arg(c), Res(c), Holder(c)}
       /\ \A v \in Results : /\ Value(v) \notin {Arg(c), Res(c), Holder(c)}
                             /\ Native(v) \notin {Arg(c), Res(c), Holder(c)}
  /\ \A e \in Exports : Export(e) # Func /\ \A v \in Results : Export(e) \notin {Value(v), Native(v)}
  /\ \A v \in Results : Func \notin {Value(v), Native(v)}
BY DEF Func, Arg, Res, Holder, Export, Value, Native

\* Only a holder, and only an export, holds something.
LEMMA Holding ==
  ASSUME NEW o \in Refs, NEW r \in Held(o)
  PROVE  \/ \E c \in Calls : o = Holder(c) /\ r = Res(c)
         \/ \E e \in Exports : o = Export(e) /\ r = Func
<1>1. CASE o = Func \/ (\E c \in Calls : o \in {Arg(c), Res(c), Holder(c)})
  BY <1>1, Names
<1>2. CASE (\E e \in Exports : o = Export(e)) \/ (\E v \in Results : o \in {Value(v), Native(v)})
  BY <1>2, Names
<1>. QED BY <1>1, <1>2, Kinds

----------------------------------------------------------------------------
(* What freeing, destroying and creating do to the counts. *)

CountsOK == /\ count \in [Refs -> Int] /\ alive \subseteq Refs
            /\ \A r \in alive : count[r] >= 0

\* How many of O hold r.
Holders(r, O) == Cardinality({o \in O : r \in Held(o)})

LEMMA LessOK ==
  ASSUME CountsOK, NEW R, NEW O, \A r \in Refs : Holders(r, O) \in Nat, Less(R, O)
  PROVE  /\ CountsOK'
         /\ \A r \in Refs \ R :
              /\ count'[r] = count[r] - Holders(r, O)
              /\ r \in alive' <=> r \in alive \ O /\ count[r] >= Holders(r, O)
         /\ \A r \in Refs \cap R :
              /\ count'[r] = count[r] - (Holders(r, O) + 1)
              /\ r \in alive' <=> r \in alive \ O /\ count[r] >= Holders(r, O) + 1
<1>. DEFINE n(r) == Is(r \in R) + Holders(r, O)
<1>1. \A r \in Refs : n(r) \in Nat /\ Frees(r, R, O) = n(r)
  BY DEF Is, Frees, Holders
<1>2. /\ count' = [r \in Refs |-> count[r] - Frees(r, R, O)]
      /\ alive' = (alive \ O) \ {r \in Refs : count[r] < Frees(r, R, O)}
  BY DEF Less, Gone
<1>3. \A r \in Refs : count[r] \in Int
  BY DEF CountsOK
<1>. HIDE DEF n
<1>4. \A r \in Refs : /\ count'[r] = count[r] - n(r) /\ count'[r] \in Int
                      /\ r \in alive' <=> r \in alive /\ r \notin O /\ ~(count[r] < n(r))
  BY <1>1, <1>2, <1>3
<1>5. alive' \subseteq Refs
  BY <1>2 DEF CountsOK
<1>6. count' \in [Refs -> Int]
  BY <1>2, <1>4
<1>7. \A r \in Refs : ~(count[r] < n(r)) <=> count[r] >= n(r)
  BY <1>1, <1>3
<1>8. \A r \in alive' : count'[r] >= 0
  BY <1>1, <1>3, <1>4, <1>5, <1>7
<1>9. CountsOK'
  BY <1>5, <1>6, <1>8 DEF CountsOK
<1>10. /\ \A r \in Refs \ R : n(r) = Holders(r, O)
       /\ \A r \in Refs \cap R : n(r) = Holders(r, O) + 1
  BY DEF n, Is
<1>. QED BY <1>4, <1>7, <1>9, <1>10

\* A reference that holds nothing is freed.
LEMMA FreePlain ==
  ASSUME CountsOK, NEW x \in Refs, Held(x) = {}, Free({x})
  PROVE  /\ CountsOK'
         /\ \A r \in Refs \ {x} : count'[r] = count[r] /\ (r \in alive' <=> r \in alive)
         /\ count'[x] = count[x] - 1
         /\ x \in alive' <=> x \in alive /\ count[x] >= 1
<1>0. PICK O : O = Dying({x})
  OBVIOUS
<1>1. O \subseteq {x} /\ (x \in O <=> x \in alive /\ count[x] < 1)
  BY <1>0 DEF Dying, Gone
<1>2. \A r \in Refs : Holders(r, O) = 0
  <2>. TAKE r \in Refs
  <2>1. {o \in O : r \in Held(o)} = {}
    BY <1>1
  <2>. QED BY <2>1, FS_EmptySet DEF Holders
<1>3. Less({x}, O)
  BY <1>0 DEF Free
<1>4. /\ CountsOK'
      /\ \A r \in Refs \ {x} :
           /\ count'[r] = count[r] - Holders(r, O)
           /\ r \in alive' <=> r \in alive \ O /\ count[r] >= Holders(r, O)
      /\ \A r \in Refs \cap {x} :
           /\ count'[r] = count[r] - (Holders(r, O) + 1)
           /\ r \in alive' <=> r \in alive \ O /\ count[r] >= Holders(r, O) + 1
  BY <1>2, <1>3, LessOK
<1>5. \A r \in Refs : count[r] \in Int /\ (r \in alive => count[r] >= 0)
  BY DEF CountsOK
<1>6. \A r \in Refs \ {x} : count'[r] = count[r] /\ (r \in alive' <=> r \in alive)
  BY <1>1, <1>2, <1>4, <1>5 DEF Is
<1>7. count'[x] = count[x] - 1 /\ (x \in alive' <=> x \in alive /\ count[x] >= 1)
  BY <1>1, <1>2, <1>4, <1>5 DEF Is
<1>. QED BY <1>4, <1>6, <1>7

\* A reference with count 0 that holds another is freed, and the other one with it.
LEMMA FreeHolding ==
  ASSUME CountsOK, NEW x \in Refs, NEW y \in Refs, Held(x) = {y}, x # y,
         x \in alive, count[x] = 0, Free({x})
  PROVE  /\ CountsOK'
         /\ \A r \in Refs \ {x, y} : count'[r] = count[r] /\ (r \in alive' <=> r \in alive)
         /\ x \notin alive'
         /\ count'[y] = count[y] - 1
         /\ y \in alive' <=> y \in alive /\ count[y] >= 1
<1>1. Dying({x}) = {x}
  BY DEF Dying, Gone
<1>2. \A r \in Refs : Holders(r, {x}) = Is(r = y)
  <2>. TAKE r \in Refs
  <2>1. CASE r = y
    <3>1. {o \in {x} : r \in Held(o)} = {x}
      BY <2>1
    <3>. QED BY <2>1, <3>1, FS_Singleton DEF Holders, Is
  <2>2. CASE r # y
    <3>1. {o \in {x} : r \in Held(o)} = {}
      BY <2>2
    <3>. QED BY <2>2, <3>1, FS_EmptySet DEF Holders, Is
  <2>. QED BY <2>1, <2>2
<1>3. Less({x}, {x})
  BY <1>1 DEF Free
<1>4. \A r \in Refs : Holders(r, {x}) \in Nat
  BY <1>2 DEF Is
<1>5. /\ CountsOK'
      /\ \A r \in Refs \ {x} :
           /\ count'[r] = count[r] - Holders(r, {x})
           /\ r \in alive' <=> r \in alive \ {x} /\ count[r] >= Holders(r, {x})
      /\ \A r \in Refs \cap {x} :
           /\ count'[r] = count[r] - (Holders(r, {x}) + 1)
           /\ r \in alive' <=> r \in alive \ {x} /\ count[r] >= Holders(r, {x}) + 1
  BY <1>3, <1>4, LessOK
<1>6. \A r \in Refs : count[r] \in Int /\ (r \in alive => count[r] >= 0)
  BY DEF CountsOK
<1>7. \A r \in Refs \ {x, y} : count'[r] = count[r] /\ (r \in alive' <=> r \in alive)
  BY <1>2, <1>5, <1>6 DEF Is
<1>8. count'[y] = count[y] - 1 /\ (y \in alive' <=> y \in alive /\ count[y] >= 1)
  BY <1>2, <1>5, <1>6 DEF Is
<1>. QED BY <1>5, <1>7, <1>8

\* A reference that is not there is freed: nobody notices.
LEMMA FreeNothing ==
  ASSUME CountsOK, NEW x \in Refs, x \notin alive, Free({x})
  PROVE  /\ CountsOK' /\ alive' = alive
         /\ \A r \in Refs \ {x} : count'[r] = count[r]
<1>1. Dying({x}) = {}
  BY DEF Dying
<1>2. \A r \in Refs : Holders(r, {}) = 0
  <2>. TAKE r \in Refs
  <2>1. {o \in {} : r \in Held(o)} = {}
    OBVIOUS
  <2>. QED BY <2>1, FS_EmptySet DEF Holders
<1>3. Less({x}, {})
  BY <1>1 DEF Free
<1>4. /\ CountsOK'
      /\ \A r \in Refs \ {x} :
           /\ count'[r] = count[r] - Holders(r, {})
           /\ r \in alive' <=> r \in alive \ {} /\ count[r] >= Holders(r, {})
      /\ \A r \in Refs \cap {x} :
           /\ count'[r] = count[r] - (Holders(r, {}) + 1)
           /\ r \in alive' <=> r \in alive \ {} /\ count[r] >= Holders(r, {}) + 1
  BY <1>2, <1>3, LessOK
<1>5. \A r \in Refs : count[r] \in Int /\ (r \in alive => count[r] >= 0)
  BY DEF CountsOK
<1>6. \A r \in Refs : r \in alive' <=> r \in alive
  BY <1>2, <1>4, <1>5 DEF Is
<1>7. alive \subseteq Refs /\ alive' \subseteq Refs
  BY <1>4 DEF CountsOK
<1>8. \A r \in Refs \ {x} : count'[r] = count[r]
  BY <1>2, <1>4, <1>5 DEF Is
<1>. QED BY <1>4, <1>6, <1>7, <1>8

\* Nothing is freed, but one that holds nothing is destroyed.
LEMMA DestroyPlain ==
  ASSUME CountsOK, NEW x \in Refs, Held(x) = {}, Less({}, {x} \cap alive)
  PROVE  /\ CountsOK' /\ alive' = alive \ {x}
         /\ \A r \in Refs : count'[r] = count[r]
<1>. DEFINE O == {x} \cap alive
<1>1. \A r \in Refs : Holders(r, O) = 0
  <2>. TAKE r \in Refs
  <2>1. {o \in O : r \in Held(o)} = {}
    OBVIOUS
  <2>. QED BY <2>1, FS_EmptySet DEF Holders
<1>2. O \subseteq {x} /\ alive \ O = alive \ {x}
  OBVIOUS
<1>0. Less({}, O)
  OBVIOUS
<1>. HIDE DEF O
<1>3. /\ CountsOK'
      /\ \A r \in Refs \ {} :
           /\ count'[r] = count[r] - Holders(r, O)
           /\ r \in alive' <=> r \in alive \ O /\ count[r] >= Holders(r, O)
      /\ \A r \in Refs \cap {} :
           /\ count'[r] = count[r] - (Holders(r, O) + 1)
           /\ r \in alive' <=> r \in alive \ O /\ count[r] >= Holders(r, O) + 1
  BY <1>0, <1>1, LessOK
<1>4. \A r \in Refs : count[r] \in Int /\ (r \in alive => count[r] >= 0)
  BY DEF CountsOK
<1>5. \A r \in Refs : count'[r] = count[r] /\ (r \in alive' <=> r \in alive \ O)
  BY <1>1, <1>3, <1>4 DEF Is
<1>6. alive \subseteq Refs /\ alive' \subseteq Refs
  BY <1>3 DEF CountsOK
<1>. QED BY <1>2, <1>3, <1>5, <1>6

\* R are created, D of them or of those that are there are duplicated.
LEMMA CreateOK ==
  ASSUME CountsOK, NEW R \in SUBSET Refs, NEW D \in SUBSET Refs, NEW F \in SUBSET R,
         \A r \in Refs : Holders(r, R) \in Nat, Create(R, D, F),
         \A r \in F : Holders(r, R) >= 1
  PROVE  /\ CountsOK' /\ alive' = alive \cup R
         /\ \A r \in Refs \ (R \cup D) : count'[r] = count[r] + Holders(r, R)
         /\ \A r \in (Refs \cap D) \ R : count'[r] = count[r] + 1 + Holders(r, R)
         /\ \A r \in R \ (D \cup F) : count'[r] = Holders(r, R)
         /\ \A r \in (R \cap D) \ F : count'[r] = 1 + Holders(r, R)
         /\ \A r \in F \ D : count'[r] = Holders(r, R) - 1
<1>1. /\ alive' = alive \cup R
      /\ \A r \in Refs :
           /\ count'[r] = (IF r \in R THEN 0 ELSE count[r]) + Is(r \in D) - Is(r \in F)
                            + Holders(r, R)
           /\ count'[r] \in Int
  BY DEF Create, Holders, CountsOK, Is
<1>2. count' \in [Refs -> Int]
  BY <1>1 DEF Create
<1>3. ASSUME NEW r \in alive' PROVE count'[r] >= 0
  <2>1. r \in Refs /\ count[r] \in Int /\ (r \in alive => count[r] >= 0) /\ Holders(r, R) \in Nat
    BY <1>1, <1>3 DEF CountsOK
  <2>2. CASE r \in F
    <3>1. r \in R /\ Holders(r, R) >= 1
      BY <2>1, <2>2
    <3>. QED BY <1>1, <2>1, <3>1 DEF Is
  <2>3. CASE r \notin F
    BY <1>1, <1>3, <2>1, <2>3 DEF Is
  <2>. QED BY <2>2, <2>3
<1>4. \A r \in Refs : count[r] \in Int
  BY DEF CountsOK
<1>5. /\ \A r \in Refs \ (R \cup D) : count'[r] = count[r] + Holders(r, R)
      /\ \A r \in (Refs \cap D) \ R : count'[r] = count[r] + 1 + Holders(r, R)
  BY <1>1, <1>4 DEF Is
<1>6. /\ \A r \in R \ (D \cup F) : count'[r] = Holders(r, R)
      /\ \A r \in (R \cap D) \ F : count'[r] = 1 + Holders(r, R)
      /\ \A r \in F \ D : count'[r] = Holders(r, R) - 1
  BY <1>1 DEF Is
<1>. QED BY <1>1, <1>2, <1>3, <1>5, <1>6 DEF CountsOK

\* What is created with nothing held and nothing given back at once.
LEMMA CreatePlain ==
  ASSUME CountsOK, NEW R \in SUBSET Refs, NEW D \in SUBSET Refs,
         \A r \in Refs : Holders(r, R) = 0, Create(R, D, {})
  PROVE  /\ CountsOK' /\ alive' = alive \cup R
         /\ \A r \in Refs \ (R \cup D) : count'[r] = count[r]
         /\ \A r \in D \ R : count'[r] = count[r] + 1
         /\ \A r \in R \ D : count'[r] = 0
         /\ \A r \in R \cap D : count'[r] = 1
<1>1. PICK F \in SUBSET R : F = {}
  OBVIOUS
<1>2. Create(R, D, F)
  BY <1>1
<1>3. \A r \in Refs : Holders(r, R) \in Nat
  OBVIOUS
<1>4. \A r \in F : Holders(r, R) >= 1
  BY <1>1
<1>5. /\ CountsOK' /\ alive' = alive \cup R
      /\ \A r \in Refs \ (R \cup D) : count'[r] = count[r] + Holders(r, R)
      /\ \A r \in (Refs \cap D) \ R : count'[r] = count[r] + 1 + Holders(r, R)
      /\ \A r \in R \ (D \cup F) : count'[r] = Holders(r, R)
      /\ \A r \in (R \cap D) \ F : count'[r] = 1 + Holders(r, R)
  BY <1>2, <1>3, <1>4, CreateOK
<1>6. \A r \in Refs : count[r] \in Int
  BY DEF CountsOK
<1>. QED BY <1>1, <1>5, <1>6

\* Nobody holds a reference that only such references could hold as hold nothing.
LEMMA NoHolders ==
  ASSUME NEW O, \A o \in O : Held(o) = {}
  PROVE  \A r : Holders(r, O) = 0
<1>. TAKE r
<1>1. {o \in O : r \in Held(o)} = {}
  OBVIOUS
<1>. QED BY <1>1, FS_EmptySet DEF Holders

----------------------------------------------------------------------------
(* What a step leaves alone. *)

Same(r) == (r \in alive' <=> r \in alive) /\ count'[r] = count[r]

LEMMA Basics ==
  ASSUME IndInv
  PROVE  /\ CountsOK
         /\ engine \in Nat \ {0} /\ up \in BOOLEAN
         /\ \A c \in Calls : /\ home[c] \in Nat /\ kept[c] \in Nat
                             /\ Need(c) \in Int /\ Owes(phase[c]) \in {1, 0, 0 - 1}
                             /\ phase[c] = "idle" => ~AtHome(c)
         /\ \A v \in Results : held[v].home \in Nat
<1>1. CountsOK /\ engine \in Nat \ {0} /\ up \in BOOLEAN
  BY EnginesAssumption DEF IndInv, TypeOK, CountsOK
<1>2. ASSUME NEW c \in Calls
      PROVE  /\ home[c] \in Nat /\ kept[c] \in Nat
             /\ Need(c) \in Int /\ Owes(phase[c]) \in {1, 0, 0 - 1}
             /\ phase[c] = "idle" => ~AtHome(c)
  <2>1. home[c] \in Nat /\ kept[c] \in Nat
    BY <1>2, EnginesAssumption, KeptAssumption DEF IndInv, TypeOK
  <2>2. Owes(phase[c]) \in {1, 0, 0 - 1}
    BY DEF Owes
  <2>3. phase[c] = "idle" => ~AtHome(c)
    BY <1>1, <1>2 DEF IndInv, EnginesKnown, AtHome
  <2>. QED BY <2>1, <2>2, <2>3 DEF Need
<1>3. \A v \in Results : held[v].home \in Nat
  BY EnginesAssumption DEF IndInv, TypeOK
<1>. QED BY <1>1, <1>2, <1>3

LEMMA ArgumentsStay ==
  ASSUME IndInv, UNCHANGED <<engine, up, home>>,
         \A c \in Calls : Same(Arg(c)) /\ Need(c)' = Need(c)
  PROVE  ArgumentsCounted'
BY DEF IndInv, ArgumentsCounted, AtHome, Same

LEMMA SettlersStay ==
  ASSUME IndInv, UNCHANGED <<engine, up, home>>,
         \A c \in Calls : /\ Same(Res(c)) /\ Same(Holder(c))
                          /\ phase'[c] \in Unsettled <=> phase[c] \in Unsettled
  PROVE  SettlersCounted'
BY DEF IndInv, SettlersCounted, AtHome, Same

LEMMA FunctionStays ==
  ASSUME IndInv, UNCHANGED <<exported, owned>>,
         Same(Func), \A e \in Exports : Same(Export(e))
  PROVE  FunctionCounted'
<1>1. exported \subseteq Exports
  BY DEF IndInv, TypeOK
<1>. QED BY <1>1 DEF IndInv, FunctionCounted, Same

LEMMA ResultsStay ==
  ASSUME IndInv, UNCHANGED <<engine, up, held>>,
         \A v \in Results : Same(Value(v)) /\ Same(Native(v))
  PROVE  ResultsCounted'
BY DEF IndInv, ResultsCounted, Same

\* The JavaScript and the Dart code on the stack belong to the engine that is there.
LEMMA TopIsAtHome ==
  ASSUME IndInv, NEW c \in Calls, NEW what, OnTop(c, what)
  PROVE  AtHome(c)
<1>1. stack \in Seq(Calls) /\ stack # <<>>
  BY DEF IndInv, TypeOK, OnTop
<1>2. Len(stack) \in 1 .. Len(stack)
  BY <1>1, EmptySeq
<1>. QED BY <1>2 DEF IndInv, EnginesKnown, OnTop, Top

LEMMA EnginesStay ==
  ASSUME IndInv, UNCHANGED <<engine, up, home, held>>,
         \A c \in Calls : phase'[c] = "idle" => phase[c] = "idle" /\ kept'[c] = kept[c],
         \/ stack' = stack
         \/ stack' = Pop
         \/ \E c \in Calls : AtHome(c) /\ stack' = Append(stack, c)
  PROVE  EnginesKnown' /\ stack' \in Seq(Calls)
<1>1. stack \in Seq(Calls) /\ \A i \in 1 .. Len(stack) : AtHome(stack[i])
  BY DEF IndInv, TypeOK, EnginesKnown
<1>2. PICK n \in Nat : n = Len(stack)
  BY <1>1, LenProperties
<1>3. \A c : AtHome(c)' <=> AtHome(c)
  BY DEF AtHome
<1>4. stack' \in Seq(Calls) /\ \A i \in 1 .. Len(stack') : AtHome(stack'[i])
  <2>1. CASE stack' = stack
    BY <1>1, <2>1
  <2>2. CASE stack' = Pop
    <3>1. \A i \in 1 .. n - 1 : stack[i] \in Calls /\ AtHome(stack[i])
      BY <1>1, <1>2, ElementOfSeq
    <3>2. /\ stack' \in Seq(Calls)
          /\ Len(stack') = IF 1 <= n - 1 THEN n - 1 - 1 + 1 ELSE 0
          /\ \A i \in 1 .. n - 1 - 1 + 1 : stack'[i] = stack[1 + i - 1]
      BY <1>2, <2>2, <3>1, SubSeqProperties DEF Pop
    <3>3. \A i \in 1 .. Len(stack') : i \in 1 .. n - 1 /\ stack'[i] = stack[i]
      BY <3>2
    <3>. QED BY <3>1, <3>2, <3>3
  <2>3. CASE \E c \in Calls : AtHome(c) /\ stack' = Append(stack, c)
    <3>1. PICK c \in Calls : AtHome(c) /\ stack' = Append(stack, c)
      BY <2>3
    <3>2. /\ stack' \in Seq(Calls) /\ Len(stack') = n + 1
          /\ \A i \in 1 .. n : stack'[i] = stack[i]
          /\ stack'[n + 1] = c
      BY <1>1, <1>2, <3>1, AppendProperties
    <3>3. \A i \in 1 .. Len(stack') : i \in 1 .. n \/ i = n + 1
      BY <3>2
    <3>. QED BY <1>1, <1>2, <3>1, <3>2, <3>3
  <2>. QED BY <2>1, <2>2, <2>3
<1>5. \A c \in Calls : home[c] <= engine /\ (phase'[c] = "idle" => home[c] = 0 /\ kept'[c] = 0)
  BY DEF IndInv, EnginesKnown
<1>6. \A v \in Results : held[v].home <= engine
  BY DEF IndInv, EnginesKnown
<1>. QED BY <1>3, <1>4, <1>5, <1>6 DEF EnginesKnown

----------------------------------------------------------------------------
(* Calls. *)

\* One release of an argument is owed less, and one is paid.
LEMMA ArgumentFreed ==
  ASSUME IndInv, NEW c \in Calls, Free({Arg(c)}), UNCHANGED <<engine, up, home>>,
         Need(c)' = Need(c) - 1, \A d \in Calls \ {c} : Need(d)' = Need(d)
  PROVE  /\ CountsOK' /\ ArgumentsCounted'
         /\ \A r \in Refs \ {Arg(c)} : Same(r)
<1>1. CountsOK /\ Arg(c) \in Refs /\ Held(Arg(c)) = {}
  BY Basics, Names
<1>2. /\ CountsOK'
      /\ \A r \in Refs \ {Arg(c)} : count'[r] = count[r] /\ (r \in alive' <=> r \in alive)
      /\ count'[Arg(c)] = count[Arg(c)] - 1
      /\ Arg(c) \in alive' <=> Arg(c) \in alive /\ count[Arg(c)] >= 1
  BY <1>1, FreePlain
<1>3. \A r \in Refs \ {Arg(c)} : Same(r)
  BY <1>2 DEF Same
<1>4. PICK n \in Int : n = Need(c) /\ Need(c)' = n - 1
  BY Basics
<1>5. /\ Arg(c) \in alive <=> AtHome(c) /\ n >= 0
      /\ AtHome(c) => count[Arg(c)] = n
  BY <1>4 DEF IndInv, ArgumentsCounted
<1>6. /\ Arg(c) \in alive' <=> AtHome(c) /\ n - 1 >= 0
      /\ AtHome(c) => count'[Arg(c)] = n - 1
  BY <1>2, <1>5
<1>7. ASSUME NEW d \in Calls, d # c
      PROVE  /\ Arg(d) \in alive' <=> AtHome(d) /\ Need(d) >= 0
             /\ AtHome(d) => count'[Arg(d)] = Need(d)
  <2>1. Arg(d) \in Refs \ {Arg(c)}
    BY <1>7, Names, Apart
  <2>. QED BY <1>3, <2>1 DEF IndInv, ArgumentsCounted, Same
<1>8. \A d \in Calls : AtHome(d)' <=> AtHome(d)
  BY DEF AtHome
<1>9. ArgumentsCounted'
  <2>. SUFFICES ASSUME NEW d \in Calls
                PROVE  /\ Arg(d) \in alive' <=> AtHome(d) /\ Need(d)' >= 0
                       /\ AtHome(d) => count'[Arg(d)] = Need(d)'
    BY <1>8 DEF ArgumentsCounted
  <2>1. CASE d = c BY <1>4, <1>6, <2>1
  <2>2. CASE d # c BY <1>7, <2>2
  <2>. QED BY <2>1, <2>2
<1>. QED BY <1>2, <1>3, <1>9

\* And nothing else is concerned.
LEMMA PaidOK ==
  ASSUME IndInv, NEW c \in Calls, Free({Arg(c)}),
         UNCHANGED <<engine, up, home, exported, owned, held>>,
         phase' \in [Calls -> Phases], kept' \in [Calls -> 0 .. MaxKept],
         outcome' \in [Calls -> Outcomes],
         \A d \in Calls : /\ phase'[d] = "idle" => phase[d] = "idle" /\ kept'[d] = kept[d]
                          /\ phase'[d] \in Unsettled <=> phase[d] \in Unsettled,
         \A d \in Calls \ {c} : phase'[d] = phase[d] /\ kept'[d] = kept[d],
         kept'[c] + Owes(phase'[c]) = kept[c] + Owes(phase[c]) - 1,
         stack' = stack \/ stack' = Pop
  PROVE  IndInv'
<1>0. Need(c)' = Need(c) - 1
  <2>1. Need(c)' = kept'[c] + Owes(phase'[c]) /\ Need(c) = kept[c] + Owes(phase[c])
    BY DEF Need
  <2>2. kept[c] \in Nat /\ Owes(phase[c]) \in Int
    BY Basics
  <2>. QED BY <2>1, <2>2
<1>1. ASSUME NEW d \in Calls \ {c} PROVE Need(d)' = Need(d)
  <2>1. phase'[d] = phase[d] /\ kept'[d] = kept[d]
    OBVIOUS
  <2>. QED BY <2>1 DEF Need
<1>2. /\ CountsOK' /\ ArgumentsCounted'
      /\ \A r \in Refs \ {Arg(c)} : Same(r)
  BY <1>0, <1>1, ArgumentFreed
<1>3. SettlersCounted'
  <2>1. \A d \in Calls : {Res(d), Holder(d)} \subseteq Refs \ {Arg(c)}
    BY Names, Apart
  <2>. QED BY <1>2, <2>1, SettlersStay
<1>4. FunctionCounted'
  <2>1. Func \in Refs \ {Arg(c)} /\ \A e \in Exports : Export(e) \in Refs \ {Arg(c)}
    BY Names, Apart
  <2>. QED BY <1>2, <2>1, FunctionStays
<1>5. ResultsCounted'
  <2>1. \A v \in Results : {Value(v), Native(v)} \subseteq Refs \ {Arg(c)}
    BY Names, Apart
  <2>. QED BY <1>2, <2>1, ResultsStay
<1>6. EnginesKnown' /\ stack' \in Seq(Calls)
  BY EnginesStay
<1>7. TypeOK'
  BY <1>2, <1>6 DEF IndInv, TypeOK, CountsOK
<1>. QED BY <1>2, <1>3, <1>4, <1>5, <1>6, <1>7 DEF IndInv

LEMMA PayingOK ==
  ASSUME IndInv, NEW c \in Calls,
         \/ HandlerReturns(c) \/ Convert(c) \/ ReleaseThrown(c)
         \/ Complete(c) \/ AnswerEnds(c) \/ AnswerFails(c)
  PROVE  IndInv'
<1>. DEFINE Moves(p, q) == phase[c] = p /\ phase' = [phase EXCEPT ![c] = q]
<1>1. /\ Free({Arg(c)}) /\ UNCHANGED <<engine, up, home, exported, owned, held, kept>>
      /\ stack' = stack \/ stack' = Pop
      /\ outcome' \in [Calls -> Outcomes]
  BY DEF IndInv, TypeOK, Outcomes, HandlerReturns, Convert, ReleaseThrown, Complete,
         AnswerEnds, AnswerFails, Settled
<1>2. \/ Moves("running", "converting") \/ Moves("converting", "done")
      \/ Moves("converting", "failing") \/ Moves("pending", "released")
      \/ Moves("answering", "answered") \/ Moves("released", "answered")
  BY DEF HandlerReturns, Convert, ReleaseThrown, Complete, AnswerEnds, AnswerFails, Settled,
         OnTop
<1>3. phase \in [Calls -> Phases] /\ kept \in [Calls -> 0 .. MaxKept] /\ kept[c] \in Nat
  BY Basics DEF IndInv, TypeOK
<1>4. /\ phase' \in [Calls -> Phases]
      /\ \A d \in Calls \ {c} : phase'[d] = phase[d]
      /\ phase'[c] # "idle" /\ phase[c] # "idle"
      /\ phase'[c] \in Unsettled <=> phase[c] \in Unsettled
      /\ Owes(phase'[c]) = Owes(phase[c]) - 1
  BY <1>2, <1>3 DEF Phases, Unsettled, Owes
<1>5. kept[c] + Owes(phase'[c]) = kept[c] + Owes(phase[c]) - 1
  BY <1>3, <1>4, Basics
<1>. QED BY <1>1, <1>3, <1>4, <1>5, PaidOK

\* An error is converted when everything has been released.
LEMMA ErrorOK ==
  ASSUME IndInv, NEW c \in Calls, ConvertError(c) \/ ThrewArgument(c)
  PROVE  IndInv'
<1>1. /\ UNCHANGED <<engine, up, home, kept, exported, owned, held, count, alive>>
      /\ phase[c] = "failing"
      /\ phase' = [phase EXCEPT ![c] = "done"] \/ phase' = phase
      /\ stack' = stack \/ stack' = Pop
      /\ outcome' \in [Calls -> Outcomes]
  BY DEF IndInv, TypeOK, Outcomes, ConvertError, ThrewArgument, OnTop
<1>2. \A r : Same(r)
  BY <1>1 DEF Same
<1>3. phase \in [Calls -> Phases]
  BY DEF IndInv, TypeOK
<1>4. ASSUME NEW d \in Calls
      PROVE  /\ Owes(phase'[d]) = Owes(phase[d])
             /\ phase'[d] = "idle" => phase[d] = "idle"
             /\ phase'[d] \in Unsettled <=> phase[d] \in Unsettled
  <2>1. phase'[d] = phase[d] \/ (phase[d] = "failing" /\ phase'[d] = "done")
    BY <1>1, <1>3
  <2>. QED BY <2>1 DEF Owes, Unsettled
<1>5. \A d \in Calls : Need(d)' = Need(d)
  BY <1>1, <1>4 DEF Need
<1>6. ArgumentsCounted' /\ SettlersCounted' /\ FunctionCounted' /\ ResultsCounted'
  BY <1>1, <1>2, <1>4, <1>5, ArgumentsStay, SettlersStay, FunctionStays, ResultsStay
<1>7. EnginesKnown' /\ stack' \in Seq(Calls)
  BY <1>1, <1>4, EnginesStay
<1>8. TypeOK'
  <2>1. phase' \in [Calls -> Phases]
    BY <1>1, <1>3 DEF Phases
  <2>. QED BY <1>1, <1>7, <2>1 DEF IndInv, TypeOK
<1>. QED BY <1>6, <1>7, <1>8 DEF IndInv

LEMMA DropOK ==
  ASSUME IndInv, NEW c \in Calls, Drop(c)
  PROVE  IndInv'
<1>1. /\ kept' = [kept EXCEPT ![c] = kept[c] - 1] /\ kept[c] > 0 /\ Free({Arg(c)})
      /\ UNCHANGED <<engine, up, stack, phase, home, outcome, exported, owned, held>>
  BY DEF Drop
<1>2. kept \in [Calls -> 0 .. MaxKept] /\ kept[c] - 1 \in 0 .. MaxKept
  BY <1>1, KeptAssumption DEF IndInv, TypeOK
<1>3. /\ kept' \in [Calls -> 0 .. MaxKept] /\ kept'[c] = kept[c] - 1
      /\ \A d \in Calls \ {c} : kept'[d] = kept[d]
  BY <1>1, <1>2
<1>4. phase[c] # "idle"
  BY <1>1, <1>2 DEF IndInv, EnginesKnown
<1>5. kept'[c] + Owes(phase'[c]) = kept[c] + Owes(phase[c]) - 1
  BY <1>1, <1>3, Basics
<1>6. phase' \in [Calls -> Phases] /\ outcome' \in [Calls -> Outcomes]
  BY <1>1 DEF IndInv, TypeOK
<1>. QED BY <1>1, <1>3, <1>4, <1>5, <1>6, PaidOK

LEMMA KeepOK ==
  ASSUME IndInv, NEW c \in Calls, Keep(c)
  PROVE  IndInv'
<1>1. /\ OnTop(c, "running") \/ (stack = <<>> /\ phase[c] = "pending")
      /\ kept[c] < MaxKept
      /\ kept' = [kept EXCEPT ![c] = kept[c] + 1] /\ Create({}, {Arg(c)}, {})
      /\ UNCHANGED <<engine, up, stack, phase, home, outcome, exported, owned, held>>
  BY DEF Keep
<1>2. PICK R \in SUBSET Refs, D \in SUBSET Refs : R = {} /\ D = {Arg(c)}
  BY Names
<1>3. CountsOK /\ Create(R, D, {}) /\ \A r \in Refs : Holders(r, R) = 0
  BY <1>1, <1>2, Basics, NoHolders
<1>4. /\ CountsOK' /\ alive' = alive \cup R
      /\ \A r \in Refs \ (R \cup D) : count'[r] = count[r]
      /\ \A r \in D \ R : count'[r] = count[r] + 1
  BY <1>3, CreatePlain
<1>5. /\ count'[Arg(c)] = count[Arg(c)] + 1 /\ alive' = alive
      /\ \A r \in Refs \ {Arg(c)} : Same(r)
  BY <1>2, <1>4 DEF Same
<1>6. kept \in [Calls -> 0 .. MaxKept] /\ kept[c] \in Nat /\ kept[c] + 1 \in 0 .. MaxKept
  BY <1>1, KeptAssumption, Basics DEF IndInv, TypeOK
<1>7. /\ kept' \in [Calls -> 0 .. MaxKept] /\ kept'[c] = kept[c] + 1
      /\ \A d \in Calls \ {c} : kept'[d] = kept[d]
  BY <1>1, <1>6
<1>8. Owes(phase[c]) = 1 /\ phase[c] # "idle"
  BY <1>1 DEF OnTop, Owes
<1>9. Need(c)' = Need(c) + 1 /\ Need(c) >= 0 /\ Need(c) \in Int
  <2>1. Need(c)' = kept'[c] + Owes(phase[c]) /\ Need(c) = kept[c] + Owes(phase[c])
    BY <1>1 DEF Need
  <2>. QED BY <1>6, <1>7, <1>8, <2>1
<1>10. ASSUME NEW d \in Calls \ {c} PROVE Need(d)' = Need(d) /\ Same(Arg(d))
  <2>1. Arg(d) \in Refs \ {Arg(c)}
    BY Names, Apart
  <2>. QED BY <1>1, <1>5, <1>7, <2>1 DEF Need
<1>11. \A d \in Calls : AtHome(d)' <=> AtHome(d)
  BY <1>1 DEF AtHome
<1>12. ArgumentsCounted'
  <2>. SUFFICES ASSUME NEW d \in Calls
                PROVE  /\ Arg(d) \in alive' <=> AtHome(d) /\ Need(d)' >= 0
                       /\ AtHome(d) => count'[Arg(d)] = Need(d)'
    BY <1>11 DEF ArgumentsCounted
  <2>0. /\ Arg(d) \in alive <=> AtHome(d) /\ Need(d) >= 0
        /\ AtHome(d) => count[Arg(d)] = Need(d)
    BY DEF IndInv, ArgumentsCounted
  <2>1. CASE d = c BY <1>5, <1>9, <2>0, <2>1
  <2>2. CASE d # c BY <1>10, <2>0, <2>2 DEF Same
  <2>. QED BY <2>1, <2>2
<1>13. SettlersCounted'
  <2>1. \A d \in Calls : {Res(d), Holder(d)} \subseteq Refs \ {Arg(c)}
    BY Names, Apart
  <2>. QED BY <1>1, <1>5, <2>1, SettlersStay
<1>14. FunctionCounted'
  <2>1. Func \in Refs \ {Arg(c)} /\ \A e \in Exports : Export(e) \in Refs \ {Arg(c)}
    BY Names, Apart
  <2>. QED BY <1>1, <1>5, <2>1, FunctionStays
<1>15. ResultsCounted'
  <2>1. \A v \in Results : {Value(v), Native(v)} \subseteq Refs \ {Arg(c)}
    BY Names, Apart
  <2>. QED BY <1>1, <1>5, <2>1, ResultsStay
<1>16. EnginesKnown'
  BY <1>1, <1>7, <1>8, EnginesStay
<1>17. TypeOK'
  BY <1>1, <1>4, <1>7 DEF IndInv, TypeOK, CountsOK
<1>. QED BY <1>12, <1>13, <1>14, <1>15, <1>16, <1>17 DEF IndInv

\* A new call belongs to the engine that is there.
LEMMA CallOK ==
  ASSUME IndInv, NEW c \in Calls, Call(c) \/ CallFails(c)
  PROVE  IndInv'
<1>1. /\ up /\ phase[c] = "idle"
      /\ home' = [home EXCEPT ![c] = engine]
      /\ UNCHANGED <<engine, up, kept, outcome, exported, owned, held>>
      /\ stack' = stack \/ stack' = Append(stack, c)
  BY DEF Call, CallFails, JsRuns
<1>2. PICK R \in SUBSET Refs, D \in SUBSET Refs, p \in Phases, n \in Int :
        /\ R = {Arg(c)} /\ Create(R, D, {}) /\ phase' = [phase EXCEPT ![c] = p]
        /\ \/ D = R /\ p = "running" /\ n = 1
           \/ D = {} /\ p = "leaked" /\ n = 0
  <2>1. {Arg(c)} \in SUBSET Refs /\ {} \in SUBSET Refs
    BY Names
  <2>2. CASE Call(c)
    BY <2>1, <2>2 DEF Call, Phases
  <2>3. CASE CallFails(c)
    BY <2>1, <2>3 DEF CallFails, Phases
  <2>. QED BY <2>2, <2>3
<1>3. CountsOK /\ Create(R, D, {}) /\ \A r \in Refs : Holders(r, R) = 0
  BY <1>2, Basics, Names, NoHolders
<1>4. /\ CountsOK' /\ alive' = alive \cup R
      /\ \A r \in Refs \ (R \cup D) : count'[r] = count[r]
      /\ \A r \in R \cap D : count'[r] = 1
      /\ \A r \in R \ D : count'[r] = 0
  BY <1>3, CreatePlain
<1>5. /\ Arg(c) \in alive' /\ count'[Arg(c)] = n
      /\ \A r \in Refs \ {Arg(c)} : Same(r)
  BY <1>2, <1>4 DEF Same
<1>6. /\ phase \in [Calls -> Phases] /\ home \in [Calls -> 0 .. MaxEngines]
      /\ engine \in 0 .. MaxEngines /\ engine \in Nat \ {0}
      /\ stack \in Seq(Calls) /\ kept[c] = 0
  BY <1>1, EnginesAssumption DEF IndInv, TypeOK, EnginesKnown
<1>7. /\ phase' \in [Calls -> Phases] /\ home' \in [Calls -> 0 .. MaxEngines]
      /\ phase'[c] = p /\ home'[c] = engine
      /\ p # "idle" /\ p \notin Unsettled /\ Owes(p) = n /\ n >= 0
      /\ \A d \in Calls \ {c} : phase'[d] = phase[d] /\ home'[d] = home[d]
  <2>1. p # "idle" /\ p \notin Unsettled /\ Owes(p) = n /\ n >= 0
    BY <1>2 DEF Unsettled, Owes
  <2>. QED BY <1>1, <1>2, <1>6, <2>1
<1>8. AtHome(c)' /\ ~AtHome(c) /\ \A d \in Calls \ {c} : AtHome(d)' <=> AtHome(d)
  BY <1>1, <1>7, Basics DEF AtHome
<1>9. Need(c)' = n
  BY <1>1, <1>6, <1>7 DEF Need
<1>10. ASSUME NEW d \in Calls \ {c} PROVE Need(d)' = Need(d) /\ Same(Arg(d))
  <2>1. Arg(d) \in Refs \ {Arg(c)}
    BY Names, Apart
  <2>. QED BY <1>1, <1>5, <1>7, <2>1 DEF Need
<1>11. ArgumentsCounted'
  <2>. SUFFICES ASSUME NEW d \in Calls
                PROVE  /\ Arg(d) \in alive' <=> AtHome(d)' /\ Need(d)' >= 0
                       /\ AtHome(d)' => count'[Arg(d)] = Need(d)'
    BY DEF ArgumentsCounted
  <2>1. CASE d = c BY <1>5, <1>7, <1>8, <1>9, <2>1
  <2>2. CASE d # c
    <3>1. /\ Arg(d) \in alive <=> AtHome(d) /\ Need(d) >= 0
          /\ AtHome(d) => count[Arg(d)] = Need(d)
      BY DEF IndInv, ArgumentsCounted
    <3>. QED BY <1>8, <1>10, <2>2, <3>1 DEF Same
  <2>. QED BY <2>1, <2>2
<1>12. SettlersCounted'
  <2>. SUFFICES ASSUME NEW d \in Calls
                PROVE  /\ Res(d) \in alive' <=> AtHome(d)' /\ phase'[d] \in Unsettled
                       /\ Holder(d) \in alive' <=> AtHome(d)' /\ phase'[d] \in Unsettled
                       /\ Res(d) \in alive' => count'[Res(d)] = 0 /\ count'[Holder(d)] = 0
    BY DEF SettlersCounted
  <2>1. Same(Res(d)) /\ Same(Holder(d))
    BY <1>5, Names, Apart
  <2>2. /\ Res(d) \in alive <=> AtHome(d) /\ phase[d] \in Unsettled
        /\ Holder(d) \in alive <=> AtHome(d) /\ phase[d] \in Unsettled
        /\ Res(d) \in alive => count[Res(d)] = 0 /\ count[Holder(d)] = 0
    BY DEF IndInv, SettlersCounted
  <2>3. AtHome(d)' /\ phase'[d] \in Unsettled <=> AtHome(d) /\ phase[d] \in Unsettled
    BY <1>7, <1>8 DEF Unsettled
  <2>. QED BY <2>1, <2>2, <2>3 DEF Same
<1>13. FunctionCounted'
  <2>1. Func \in Refs \ {Arg(c)} /\ \A e \in Exports : Export(e) \in Refs \ {Arg(c)}
    BY Names, Apart
  <2>. QED BY <1>1, <1>5, <2>1, FunctionStays
<1>14. ResultsCounted'
  <2>1. \A v \in Results : {Value(v), Native(v)} \subseteq Refs \ {Arg(c)}
    BY Names, Apart
  <2>. QED BY <1>1, <1>5, <2>1, ResultsStay
<1>15. EnginesKnown' /\ stack' \in Seq(Calls)
  <2>1. PICK k \in Nat : k = Len(stack)
    BY <1>6, LenProperties
  <2>2. ASSUME NEW i \in 1 .. k
        PROVE  stack[i] \in Calls /\ home'[stack[i]] = engine
    <3>1. stack[i] \in Calls /\ AtHome(stack[i])
      BY <1>6, <2>1, ElementOfSeq DEF IndInv, EnginesKnown
    <3>2. PICK d \in Calls : d = stack[i]
      BY <3>1
    <3>3. home'[d] = engine
      BY <1>7, <1>8, <3>1, <3>2 DEF AtHome
    <3>. QED BY <3>2, <3>3
  <2>3. stack' \in Seq(Calls) /\ \A i \in 1 .. Len(stack') : home'[stack'[i]] = engine
    <3>1. CASE stack' = stack
      BY <1>6, <2>1, <2>2, <3>1
    <3>2. CASE stack' = Append(stack, c)
      <4>1. /\ stack' \in Seq(Calls) /\ Len(stack') = k + 1
            /\ \A i \in 1 .. k : stack'[i] = stack[i]
            /\ stack'[k + 1] = c
        BY <1>6, <2>1, <3>2, AppendProperties
      <4>2. \A i \in 1 .. Len(stack') : i \in 1 .. k \/ i = k + 1
        BY <4>1
      <4>. QED BY <1>7, <2>2, <4>1, <4>2
    <3>. QED BY <1>1, <3>1, <3>2
  <2>4. ASSUME NEW d \in Calls
        PROVE  home'[d] <= engine /\ (phase'[d] = "idle" => home'[d] = 0 /\ kept[d] = 0)
    <3>1. CASE d = c
      BY <1>6, <1>7, <3>1
    <3>2. CASE d # c
      BY <1>7, <3>2 DEF IndInv, EnginesKnown
    <3>. QED BY <3>1, <3>2
  <2>5. \A v \in Results : held[v].home <= engine
    BY DEF IndInv, EnginesKnown
  <2>. QED BY <1>1, <2>3, <2>4, <2>5 DEF EnginesKnown, AtHome
<1>16. TypeOK'
  BY <1>1, <1>4, <1>7, <1>15 DEF IndInv, TypeOK, CountsOK
<1>. QED BY <1>11, <1>12, <1>13, <1>14, <1>15, <1>16 DEF IndInv

\* A promise is made for a call.
LEMMA HandlerDefersOK ==
  ASSUME IndInv, NEW c \in Calls, HandlerDefers(c)
  PROVE  IndInv'
<1>. DEFINE R == {Res(c), Holder(c)}
<1>1. /\ OnTop(c, "running") /\ Create(R, {}, {Res(c)})
      /\ phase' = [phase EXCEPT ![c] = "pending"] /\ stack' = Pop
      /\ UNCHANGED <<engine, up, home, kept, outcome, exported, owned, held>>
  BY DEF HandlerDefers, ReleasedOnCreation
<1>2. CountsOK /\ R \subseteq Refs /\ Res(c) # Holder(c) /\ AtHome(c) /\ phase[c] = "running"
  BY <1>1, Basics, Names, Apart, TopIsAtHome DEF OnTop
<1>3. \A r \in Refs : Holders(r, R) = IF r = Res(c) THEN 1 ELSE 0
  <2>. TAKE r \in Refs
  <2>1. CASE r = Res(c)
    <3>1. {o \in R : r \in Held(o)} = {Holder(c)}
      BY <2>1, Names
    <3>. QED BY <2>1, <3>1, FS_Singleton DEF Holders
  <2>2. CASE r # Res(c)
    <3>1. {o \in R : r \in Held(o)} = {}
      BY <2>2, Names
    <3>. QED BY <2>2, <3>1, FS_EmptySet DEF Holders
  <2>. QED BY <2>1, <2>2
<1>4. PICK S \in SUBSET Refs, D \in SUBSET Refs, F \in SUBSET R :
        S = R /\ D = {} /\ F = {Res(c)}
  <2>1. R \in SUBSET Refs /\ {} \in SUBSET Refs /\ {Res(c)} \in SUBSET R
    BY <1>2
  <2>. QED BY <2>1, Zenon
<1>5. /\ Create(S, D, F) /\ \A r \in Refs : Holders(r, S) \in Nat
      /\ \A r \in F : Holders(r, S) >= 1
      /\ F \in SUBSET S
  BY <1>1, <1>3, <1>4
<1>6. /\ CountsOK' /\ alive' = alive \cup S
      /\ \A r \in Refs \ (S \cup D) : count'[r] = count[r] + Holders(r, S)
      /\ \A r \in S \ (D \cup F) : count'[r] = Holders(r, S)
      /\ \A r \in F \ D : count'[r] = Holders(r, S) - 1
  BY <1>2, <1>5, CreateOK
<1>7. /\ count'[Res(c)] = 0 /\ count'[Holder(c)] = 0 /\ R \subseteq alive'
      /\ \A r \in Refs \ R : Same(r)
  <2>1. Res(c) \in F \ D /\ Holder(c) \in S \ (D \cup F)
    BY <1>2, <1>4
  <2>2. count'[Res(c)] = 0 /\ count'[Holder(c)] = 0 /\ R \subseteq alive'
    BY <1>2, <1>3, <1>4, <1>6, <2>1
  <2>3. ASSUME NEW r \in Refs \ R PROVE Same(r)
    <3>1. r \in Refs \ (S \cup D) /\ Holders(r, S) = 0 /\ count[r] \in Int
      BY <1>2, <1>3, <1>4 DEF CountsOK
    <3>. QED BY <1>4, <1>6, <3>1 DEF Same
  <2>. QED BY <2>2, <2>3
<1>. HIDE DEF R
<1>8. /\ phase' \in [Calls -> Phases] /\ phase'[c] = "pending"
      /\ \A d \in Calls \ {c} : phase'[d] = phase[d]
  BY <1>1 DEF IndInv, TypeOK, Phases
<1>9. ArgumentsCounted'
  <2>1. \A d \in Calls : Need(d)' = Need(d)
    BY <1>1, <1>2, <1>8 DEF Need, Owes
  <2>2. \A d \in Calls : Same(Arg(d))
    BY <1>7, Names, Apart DEF R
  <2>. QED BY <1>1, <2>1, <2>2, ArgumentsStay
<1>10. \A d \in Calls : AtHome(d)' <=> AtHome(d)
  BY <1>1 DEF AtHome
<1>11. SettlersCounted'
  <2>. SUFFICES ASSUME NEW d \in Calls
                PROVE  /\ Res(d) \in alive' <=> AtHome(d) /\ phase'[d] \in Unsettled
                       /\ Holder(d) \in alive' <=> AtHome(d) /\ phase'[d] \in Unsettled
                       /\ Res(d) \in alive' => count'[Res(d)] = 0 /\ count'[Holder(d)] = 0
    BY <1>10 DEF SettlersCounted
  <2>1. CASE d = c
    BY <1>2, <1>7, <1>8, <2>1 DEF Unsettled, R
  <2>2. CASE d # c
    <3>1. Same(Res(d)) /\ Same(Holder(d))
      BY <1>7, <2>2, Names, Apart DEF R
    <3>. QED BY <1>8, <2>2, <3>1 DEF IndInv, SettlersCounted, Same
  <2>. QED BY <2>1, <2>2
<1>12. FunctionCounted'
  <2>1. Same(Func) /\ \A e \in Exports : Same(Export(e))
    BY <1>7, Names, Apart DEF R
  <2>. QED BY <1>1, <2>1, FunctionStays
<1>13. ResultsCounted'
  <2>1. \A v \in Results : Same(Value(v)) /\ Same(Native(v))
    BY <1>7, Names, Apart DEF R
  <2>. QED BY <1>1, <2>1, ResultsStay
<1>14. EnginesKnown' /\ stack' \in Seq(Calls)
  BY <1>1, <1>8, EnginesStay
<1>15. TypeOK'
  BY <1>1, <1>6, <1>8, <1>14 DEF IndInv, TypeOK, CountsOK
<1>. QED BY <1>9, <1>11, <1>12, <1>13, <1>14, <1>15 DEF IndInv

LEMMA AnswerOK ==
  ASSUME IndInv, NEW c \in Calls, Answer(c)
  PROVE  IndInv'
<1>1. /\ phase[c] = "released" /\ Res(c) \in alive
      /\ phase' = [phase EXCEPT ![c] = "answering"]
      /\ outcome' = [outcome EXCEPT ![c] = "delivered"]
      /\ stack' = Append(stack, c)
      /\ UNCHANGED <<engine, up, home, kept, exported, owned, held, count, alive>>
  BY DEF Answer, CanSettle
<1>2. AtHome(c)
  BY <1>1 DEF IndInv, SettlersCounted
<1>3. /\ phase' \in [Calls -> Phases] /\ phase'[c] = "answering"
      /\ \A d \in Calls \ {c} : phase'[d] = phase[d]
      /\ outcome' \in [Calls -> Outcomes]
  BY <1>1 DEF IndInv, TypeOK, Phases, Outcomes
<1>4. \A r : Same(r)
  BY <1>1 DEF Same
<1>5. ArgumentsCounted'
  <2>1. \A d \in Calls : Need(d)' = Need(d)
    BY <1>1, <1>3 DEF Need, Owes
  <2>. QED BY <1>1, <1>4, <2>1, ArgumentsStay
<1>6. SettlersCounted'
  <2>1. \A d \in Calls : phase'[d] \in Unsettled <=> phase[d] \in Unsettled
    BY <1>1, <1>3 DEF Unsettled
  <2>. QED BY <1>1, <1>4, <2>1, SettlersStay
<1>7. FunctionCounted' /\ ResultsCounted'
  BY <1>1, <1>4, FunctionStays, ResultsStay
<1>8. EnginesKnown' /\ stack' \in Seq(Calls)
  BY <1>1, <1>2, <1>3, EnginesStay
<1>9. TypeOK'
  BY <1>1, <1>3, <1>8 DEF IndInv, TypeOK
<1>. QED BY <1>5, <1>6, <1>7, <1>8, <1>9 DEF IndInv

\* A holder takes the resolving function with it, while there is one.
LEMMA FreeSettlersOK ==
  ASSUME IndInv, NEW c \in Calls, FreeSettlers(c)
  PROVE  IndInv'
<1>. DEFINE R == {Res(c), Holder(c)}
<1>1. /\ phase[c] = "answered" /\ Free({Holder(c)})
      /\ phase' = [phase EXCEPT ![c] = "done"]
      /\ UNCHANGED <<engine, up, stack, home, kept, outcome, exported, owned, held>>
  BY DEF FreeSettlers, GivenBack
<1>2. CountsOK /\ R \subseteq Refs /\ Res(c) # Holder(c) /\ Held(Holder(c)) = {Res(c)}
  BY Basics, Names, Apart
<1>3. CountsOK' /\ (\A r \in Refs \ R : Same(r)) /\ R \cap alive' = {}
  <2>1. CASE AtHome(c)
    <3>1. R \subseteq alive /\ count[Holder(c)] = 0 /\ count[Res(c)] = 0
      BY <1>1, <2>1 DEF IndInv, SettlersCounted, Unsettled
    <3>2. /\ CountsOK'
          /\ \A r \in Refs \ {Holder(c), Res(c)} :
               count'[r] = count[r] /\ (r \in alive' <=> r \in alive)
          /\ Holder(c) \notin alive'
          /\ Res(c) \in alive' <=> Res(c) \in alive /\ count[Res(c)] >= 1
      BY <1>1, <1>2, <3>1, FreeHolding
    <3>. QED BY <3>1, <3>2 DEF Same
  <2>2. CASE ~AtHome(c)
    <3>1. Holder(c) \notin alive /\ Res(c) \notin alive
      BY <2>2 DEF IndInv, SettlersCounted
    <3>2. /\ CountsOK' /\ alive' = alive
          /\ \A r \in Refs \ {Holder(c)} : count'[r] = count[r]
      BY <1>1, <1>2, <3>1, FreeNothing
    <3>. QED BY <3>1, <3>2 DEF Same
  <2>. QED BY <2>1, <2>2
<1>. HIDE DEF R
<1>4. /\ phase' \in [Calls -> Phases] /\ phase'[c] = "done"
      /\ \A d \in Calls \ {c} : phase'[d] = phase[d]
  BY <1>1 DEF IndInv, TypeOK, Phases
<1>5. ArgumentsCounted'
  <2>1. \A d \in Calls : Need(d)' = Need(d)
    BY <1>1, <1>4 DEF Need, Owes
  <2>2. \A d \in Calls : Same(Arg(d))
    BY <1>3, Names, Apart DEF R
  <2>. QED BY <1>1, <2>1, <2>2, ArgumentsStay
<1>6. \A d \in Calls : AtHome(d)' <=> AtHome(d)
  BY <1>1 DEF AtHome
<1>7. SettlersCounted'
  <2>. SUFFICES ASSUME NEW d \in Calls
                PROVE  /\ Res(d) \in alive' <=> AtHome(d) /\ phase'[d] \in Unsettled
                       /\ Holder(d) \in alive' <=> AtHome(d) /\ phase'[d] \in Unsettled
                       /\ Res(d) \in alive' => count'[Res(d)] = 0 /\ count'[Holder(d)] = 0
    BY <1>6 DEF SettlersCounted
  <2>1. CASE d = c
    BY <1>3, <1>4, <2>1 DEF Unsettled, R
  <2>2. CASE d # c
    <3>1. Same(Res(d)) /\ Same(Holder(d))
      BY <1>3, <2>2, Names, Apart DEF R
    <3>. QED BY <1>4, <2>2, <3>1 DEF IndInv, SettlersCounted, Same
  <2>. QED BY <2>1, <2>2
<1>8. FunctionCounted'
  <2>1. Same(Func) /\ \A e \in Exports : Same(Export(e))
    BY <1>3, Names, Apart DEF R
  <2>. QED BY <1>1, <2>1, FunctionStays
<1>9. ResultsCounted'
  <2>1. \A v \in Results : Same(Value(v)) /\ Same(Native(v))
    BY <1>3, Names, Apart DEF R
  <2>. QED BY <1>1, <2>1, ResultsStay
<1>10. EnginesKnown'
  BY <1>1, <1>4, EnginesStay
<1>11. TypeOK'
  BY <1>1, <1>3, <1>4 DEF IndInv, TypeOK, CountsOK
<1>. QED BY <1>5, <1>7, <1>8, <1>9, <1>10, <1>11 DEF IndInv

----------------------------------------------------------------------------
(* The application and the engine. *)

\* Steps that concern no call.
LEMMA CallsStay ==
  ASSUME IndInv, UNCHANGED <<engine, up, stack, phase, home, kept, outcome>>,
         held' \in [Results -> [home : 0 .. MaxEngines, result : BOOLEAN, value : BOOLEAN]],
         \A v \in Results : held'[v].home <= engine,
         exported' \subseteq Exports, owned' \in BOOLEAN, CountsOK',
         \A c \in Calls : Same(Arg(c)) /\ Same(Res(c)) /\ Same(Holder(c))
  PROVE  TypeOK' /\ EnginesKnown' /\ ArgumentsCounted' /\ SettlersCounted'
<1>1. TypeOK'
  BY DEF IndInv, TypeOK, CountsOK
<1>2. EnginesKnown'
  BY DEF IndInv, EnginesKnown, AtHome
<1>3. ArgumentsCounted'
  <2>1. \A c \in Calls : Need(c)' = Need(c)
    BY DEF Need
  <2>. QED BY <2>1, ArgumentsStay
<1>4. SettlersCounted'
  BY SettlersStay
<1>. QED BY <1>1, <1>2, <1>3, <1>4

LEMMA GiveFunctionOK ==
  ASSUME IndInv, NEW e \in Exports, GiveFunction(e)
  PROVE  IndInv'
<1>1. /\ Func \in alive /\ e \notin exported /\ Create({Export(e)}, {}, {})
      /\ exported' = exported \cup {e}
      /\ UNCHANGED <<engine, up, stack, phase, home, kept, outcome, owned, held>>
  BY DEF GiveFunction
<1>2. CountsOK /\ Export(e) \in Refs /\ Func \in Refs /\ Export(e) # Func
  BY Basics, Names, Apart
<1>3. PICK R \in SUBSET Refs, D \in SUBSET Refs : R = {Export(e)} /\ D = {}
  BY <1>2
<1>4. PICK F \in SUBSET R : F = {}
  OBVIOUS
<1>5. \A r \in Refs : Holders(r, R) = IF r = Func THEN 1 ELSE 0
  <2>. TAKE r \in Refs
  <2>1. CASE r = Func
    <3>1. {o \in R : r \in Held(o)} = {Export(e)}
      BY <1>3, <2>1, Names
    <3>. QED BY <2>1, <3>1, FS_Singleton DEF Holders
  <2>2. CASE r # Func
    <3>1. {o \in R : r \in Held(o)} = {}
      BY <1>3, <2>2, Names
    <3>. QED BY <2>2, <3>1, FS_EmptySet DEF Holders
  <2>. QED BY <2>1, <2>2
<1>6. /\ Create(R, D, F) /\ \A r \in Refs : Holders(r, R) \in Nat
      /\ \A r \in F : Holders(r, R) >= 1
  BY <1>1, <1>3, <1>4, <1>5
<1>7. /\ CountsOK' /\ alive' = alive \cup R
      /\ \A r \in Refs \ (R \cup D) : count'[r] = count[r] + Holders(r, R)
      /\ \A r \in R \ (D \cup F) : count'[r] = Holders(r, R)
  BY <1>2, <1>6, CreateOK
<1>8. /\ count'[Export(e)] = 0 /\ count'[Func] = count[Func] + 1
      /\ Export(e) \in alive' /\ Func \in alive'
      /\ \A r \in Refs \ {Func, Export(e)} : Same(r)
  <2>1. /\ count'[Export(e)] = 0 /\ count'[Func] = count[Func] + 1
        /\ Export(e) \in alive' /\ Func \in alive'
    BY <1>1, <1>2, <1>3, <1>4, <1>5, <1>7
  <2>2. ASSUME NEW r \in Refs \ {Func, Export(e)} PROVE Same(r)
    <3>1. r \in Refs \ (R \cup D) /\ Holders(r, R) = 0 /\ count[r] \in Int
      BY <1>2, <1>3, <1>5 DEF CountsOK
    <3>. QED BY <1>3, <1>7, <3>1 DEF Same
  <2>. QED BY <2>1, <2>2
<1>9. TypeOK' /\ EnginesKnown' /\ ArgumentsCounted' /\ SettlersCounted'
  <2>1. \A c \in Calls : Same(Arg(c)) /\ Same(Res(c)) /\ Same(Holder(c))
    BY <1>8, Names, Apart
  <2>2. /\ exported' \subseteq Exports /\ owned' \in BOOLEAN
        /\ held' \in [Results -> [home : 0 .. MaxEngines, result : BOOLEAN, value : BOOLEAN]]
        /\ \A v \in Results : held'[v].home <= engine
    BY <1>1 DEF IndInv, TypeOK, EnginesKnown
  <2>. QED BY <1>1, <1>7, <2>1, <2>2, CallsStay
<1>10. FunctionCounted'
  <2>1. IsFiniteSet(exported) /\ count[Func] = Cardinality(exported) - Is(~owned)
    BY DEF IndInv, FunctionCounted
  <2>2. /\ IsFiniteSet(exported') /\ Cardinality(exported') = Cardinality(exported) + 1
        /\ Cardinality(exported) \in Nat
    BY <1>1, <2>1, FS_AddElement, FS_CardinalityType
  <2>3. count'[Func] = Cardinality(exported') - Is(~owned')
    BY <1>1, <1>8, <2>1, <2>2 DEF Is
  <2>4. \A x \in Exports \ {e} : Same(Export(x))
    BY <1>8, Names, Apart
  <2>5. \A x \in Exports : Export(x) \in alive' <=> x \in exported'
    BY <1>1, <1>8, <2>4 DEF IndInv, FunctionCounted, Same
  <2>6. \A x \in exported' : count'[Export(x)] = 0
    BY <1>1, <1>8, <2>4 DEF IndInv, TypeOK, FunctionCounted, Same
  <2>. QED BY <1>1, <1>8, <2>2, <2>3, <2>5, <2>6 DEF FunctionCounted
<1>11. ResultsCounted'
  <2>1. \A v \in Results : Same(Value(v)) /\ Same(Native(v))
    BY <1>8, Names, Apart
  <2>. QED BY <1>1, <2>1, ResultsStay
<1>. QED BY <1>9, <1>10, <1>11 DEF IndInv

LEMMA FreeFunctionOK ==
  ASSUME IndInv, FreeFunction
  PROVE  IndInv'
<1>1. /\ owned = TRUE /\ owned' = FALSE /\ Free({Func})
      /\ UNCHANGED <<engine, up, stack, phase, home, kept, outcome, exported, held>>
  BY DEF FreeFunction, IndInv, TypeOK
<1>2. CountsOK /\ Func \in Refs /\ Held(Func) = {}
  BY Basics, Names
<1>3. /\ CountsOK'
      /\ \A r \in Refs \ {Func} : count'[r] = count[r] /\ (r \in alive' <=> r \in alive)
      /\ count'[Func] = count[Func] - 1
      /\ Func \in alive' <=> Func \in alive /\ count[Func] >= 1
  BY <1>1, <1>2, FreePlain
<1>4. \A r \in Refs \ {Func} : Same(r)
  BY <1>3 DEF Same
<1>5. TypeOK' /\ EnginesKnown' /\ ArgumentsCounted' /\ SettlersCounted'
  <2>1. \A c \in Calls : Same(Arg(c)) /\ Same(Res(c)) /\ Same(Holder(c))
    BY <1>4, Names, Apart
  <2>2. /\ exported' \subseteq Exports /\ owned' \in BOOLEAN
        /\ held' \in [Results -> [home : 0 .. MaxEngines, result : BOOLEAN, value : BOOLEAN]]
        /\ \A v \in Results : held'[v].home <= engine
    BY <1>1 DEF IndInv, TypeOK, EnginesKnown
  <2>. QED BY <1>1, <1>3, <2>1, <2>2, CallsStay
<1>6. FunctionCounted'
  <2>1. /\ IsFiniteSet(exported) /\ Func \in alive
        /\ count[Func] = Cardinality(exported)
    <3>1. /\ IsFiniteSet(exported) /\ Func \in alive
          /\ count[Func] = Cardinality(exported) - Is(~owned)
      BY <1>1 DEF IndInv, FunctionCounted
    <3>. QED BY <1>1, <3>1, FS_CardinalityType DEF Is
  <2>2. Cardinality(exported) \in Nat /\ (Cardinality(exported) = 0 <=> exported = {})
    BY <2>1, FS_CardinalityType, FS_EmptySet
  <2>3. Func \in alive' <=> exported # {}
    BY <1>3, <2>1, <2>2
  <2>4. count'[Func] = Cardinality(exported') - Is(~owned')
    BY <1>1, <1>3, <2>1 DEF Is
  <2>5. \A e \in Exports : Same(Export(e))
    BY <1>4, Names, Apart
  <2>. QED BY <1>1, <2>1, <2>3, <2>4, <2>5 DEF IndInv, TypeOK, FunctionCounted, Same
<1>7. ResultsCounted'
  <2>1. \A v \in Results : Same(Value(v)) /\ Same(Native(v))
    BY <1>4, Names, Apart
  <2>. QED BY <1>1, <2>1, ResultsStay
<1>. QED BY <1>5, <1>6, <1>7 DEF IndInv

\* An export takes the function with it that nobody else needs.
LEMMA CollectOK ==
  ASSUME IndInv, NEW e \in Exports, Collect(e)
  PROVE  IndInv'
<1>1. /\ e \in exported /\ exported' = exported \ {e} /\ Free({Export(e)} \cap alive)
      /\ UNCHANGED <<engine, up, stack, phase, home, kept, outcome, owned, held>>
  BY DEF Collect
<1>2. /\ CountsOK /\ Export(e) \in Refs /\ Func \in Refs /\ Export(e) # Func
      /\ Held(Export(e)) = {Func}
  BY Basics, Names, Apart
<1>3. /\ Export(e) \in alive /\ count[Export(e)] = 0 /\ Func \in alive
      /\ IsFiniteSet(exported) /\ count[Func] = Cardinality(exported) - Is(~owned)
  BY <1>1 DEF IndInv, FunctionCounted
<1>4. Free({Export(e)})
  <2>1. {Export(e)} \cap alive = {Export(e)}
    BY <1>3
  <2>. QED BY <1>1, <2>1
<1>5. /\ CountsOK'
      /\ \A r \in Refs \ {Export(e), Func} :
           count'[r] = count[r] /\ (r \in alive' <=> r \in alive)
      /\ Export(e) \notin alive'
      /\ count'[Func] = count[Func] - 1
      /\ Func \in alive' <=> Func \in alive /\ count[Func] >= 1
  BY <1>2, <1>3, <1>4, FreeHolding
<1>6. \A r \in Refs \ {Export(e), Func} : Same(r)
  BY <1>5 DEF Same
<1>7. TypeOK' /\ EnginesKnown' /\ ArgumentsCounted' /\ SettlersCounted'
  <2>1. \A c \in Calls : Same(Arg(c)) /\ Same(Res(c)) /\ Same(Holder(c))
    BY <1>6, Names, Apart
  <2>2. /\ exported' \subseteq Exports /\ owned' \in BOOLEAN
        /\ held' \in [Results -> [home : 0 .. MaxEngines, result : BOOLEAN, value : BOOLEAN]]
        /\ \A v \in Results : held'[v].home <= engine
    BY <1>1 DEF IndInv, TypeOK, EnginesKnown
  <2>. QED BY <1>1, <1>5, <2>1, <2>2, CallsStay
<1>8. FunctionCounted'
  <2>1. PICK k \in Nat : k = Cardinality(exported')
    BY <1>1, <1>3, FS_RemoveElement, FS_CardinalityType
  <2>2. /\ IsFiniteSet(exported') /\ Cardinality(exported) = k + 1
        /\ k = 0 <=> exported' = {}
    <3>1. IsFiniteSet(exported') /\ Cardinality(exported') = Cardinality(exported) - 1
      BY <1>1, <1>3, FS_RemoveElement
    <3>2. Cardinality(exported) \in Nat
      BY <1>3, FS_CardinalityType
    <3>. QED BY <2>1, <3>1, <3>2, FS_EmptySet
  <2>3. owned \in BOOLEAN /\ count[Func] = (k + 1) - Is(~owned)
    <3>1. owned \in BOOLEAN
      BY DEF IndInv, TypeOK
    <3>2. count[Func] = Cardinality(exported) - Is(~owned) /\ Cardinality(exported) = k + 1
      BY <1>3, <2>2
    <3>. QED BY <3>1, <3>2
  <2>4. /\ count'[Func] = k - Is(~owned)
        /\ Func \in alive' <=> owned \/ k >= 1
    BY <1>3, <1>5, <2>1, <2>3 DEF Is
  <2>5. \A x \in Exports \ {e} : Same(Export(x))
    BY <1>6, Names, Apart
  <2>6. \A x \in Exports : Export(x) \in alive' <=> x \in exported'
    BY <1>1, <1>5, <2>5 DEF IndInv, FunctionCounted, Same
  <2>7. \A x \in exported' : count'[Export(x)] = 0
    BY <1>1, <2>5 DEF IndInv, TypeOK, FunctionCounted, Same
  <2>. QED BY <1>1, <2>1, <2>2, <2>4, <2>6, <2>7 DEF FunctionCounted
<1>9. ResultsCounted'
  <2>1. \A v \in Results : Same(Value(v)) /\ Same(Native(v))
    BY <1>6, Names, Apart
  <2>. QED BY <1>1, <2>1, ResultsStay
<1>. QED BY <1>7, <1>8, <1>9 DEF IndInv

\* A step that concerns one result.
LEMMA ResultOK ==
  ASSUME IndInv, NEW v \in Results, CountsOK',
         UNCHANGED <<engine, up, stack, phase, home, kept, outcome, exported, owned>>,
         held' \in [Results -> [home : 0 .. MaxEngines, result : BOOLEAN, value : BOOLEAN]],
         held'[v].home <= engine,
         \A w \in Results \ {v} : held'[w] = held[w],
         \A r \in Refs \ {Value(v), Native(v)} : Same(r),
         Value(v) \in alive' <=> (up /\ held'[v].home = engine) /\ held'[v].value,
         Native(v) \in alive' <=> (up /\ held'[v].home = engine) /\ held'[v].result,
         Value(v) \in alive' => count'[Value(v)] = 0,
         Native(v) \in alive' => count'[Native(v)] = 0
  PROVE  IndInv'
<1>1. TypeOK' /\ EnginesKnown' /\ ArgumentsCounted' /\ SettlersCounted'
  <2>1. \A c \in Calls : Same(Arg(c)) /\ Same(Res(c)) /\ Same(Holder(c))
    BY Names, Apart
  <2>2. /\ exported' \subseteq Exports /\ owned' \in BOOLEAN
        /\ \A w \in Results : held'[w].home <= engine
    BY DEF IndInv, TypeOK, EnginesKnown
  <2>. QED BY <2>1, <2>2, CallsStay
<1>2. FunctionCounted'
  <2>1. Same(Func) /\ \A e \in Exports : Same(Export(e))
    BY Names, Apart
  <2>. QED BY <2>1, FunctionStays
<1>3. ResultsCounted'
  <2>1. ASSUME NEW w \in Results \ {v} PROVE Same(Value(w)) /\ Same(Native(w))
    BY Names, Apart
  <2>2. ASSUME NEW w \in Results \ {v}
        PROVE  LET here == up /\ held'[w].home = engine
               IN  /\ Value(w) \in alive' <=> here /\ held'[w].value
                   /\ Native(w) \in alive' <=> here /\ held'[w].result
                   /\ Value(w) \in alive' => count'[Value(w)] = 0
                   /\ Native(w) \in alive' => count'[Native(w)] = 0
    BY <2>1 DEF IndInv, ResultsCounted, Same
  <2>. QED BY <2>2 DEF ResultsCounted
<1>. QED BY <1>1, <1>2, <1>3 DEF IndInv

LEMMA EvaluateOK ==
  ASSUME IndInv, NEW v \in Results, Evaluate(v)
  PROVE  IndInv'
<1>1. /\ up /\ Create({Value(v), Native(v)}, {}, {})
      /\ held' = [held EXCEPT ![v] = [home |-> engine, result |-> TRUE, value |-> TRUE]]
      /\ UNCHANGED <<engine, up, stack, phase, home, kept, outcome, exported, owned>>
  BY DEF Evaluate
<1>2. PICK R \in SUBSET Refs, D \in SUBSET Refs : R = {Value(v), Native(v)} /\ D = {}
  BY Names
<1>3. CountsOK /\ Create(R, D, {}) /\ \A r \in Refs : Holders(r, R) = 0
  BY <1>1, <1>2, Basics, Names, NoHolders
<1>4. /\ CountsOK' /\ alive' = alive \cup R
      /\ \A r \in Refs \ (R \cup D) : count'[r] = count[r]
      /\ \A r \in R \ D : count'[r] = 0
  BY <1>3, CreatePlain
<1>5. \A r \in Refs \ {Value(v), Native(v)} : Same(r)
  BY <1>2, <1>4 DEF Same
<1>6. /\ held' \in [Results -> [home : 0 .. MaxEngines, result : BOOLEAN, value : BOOLEAN]]
      /\ held'[v].home = engine /\ held'[v].value = TRUE /\ held'[v].result = TRUE
      /\ engine <= engine
      /\ \A w \in Results \ {v} : held'[w] = held[w]
  BY <1>1, EnginesAssumption DEF IndInv, TypeOK
<1>7. /\ Value(v) \in alive' /\ Native(v) \in alive'
      /\ count'[Value(v)] = 0 /\ count'[Native(v)] = 0
  BY <1>2, <1>4
<1>. QED BY <1>1, <1>4, <1>5, <1>6, <1>7, ResultOK

LEMMA FreeValueOK ==
  ASSUME IndInv, NEW v \in Results, FreeValue(v)
  PROVE  IndInv'
<1>1. /\ held' = [held EXCEPT ![v].value = FALSE] /\ Free({Value(v)})
      /\ UNCHANGED <<engine, up, stack, phase, home, kept, outcome, exported, owned>>
  BY DEF FreeValue
<1>2. CountsOK /\ {Value(v), Native(v)} \subseteq Refs /\ Held(Value(v)) = {} /\ Value(v) # Native(v)
  BY Basics, Names, Apart
<1>3. /\ CountsOK'
      /\ \A r \in Refs \ {Value(v)} : count'[r] = count[r] /\ (r \in alive' <=> r \in alive)
      /\ Value(v) \in alive' <=> Value(v) \in alive /\ count[Value(v)] >= 1
  BY <1>1, <1>2, FreePlain
<1>4. /\ Value(v) \in alive => count[Value(v)] = 0
      /\ Native(v) \in alive => count[Native(v)] = 0
      /\ Native(v) \in alive <=> (up /\ held[v].home = engine) /\ held[v].result
      /\ held[v].home <= engine
  BY DEF IndInv, ResultsCounted, EnginesKnown
<1>5. /\ held' \in [Results -> [home : 0 .. MaxEngines, result : BOOLEAN, value : BOOLEAN]]
      /\ held'[v].home = held[v].home /\ held'[v].value = FALSE
      /\ held'[v].result = held[v].result
      /\ \A w \in Results \ {v} : held'[w] = held[w]
  BY <1>1 DEF IndInv, TypeOK
<1>6. Value(v) \notin alive'
  BY <1>3, <1>4
<1>7. /\ \A r \in Refs \ {Value(v), Native(v)} : Same(r)
      /\ Same(Native(v))
  BY <1>2, <1>3 DEF Same
<1>. QED BY <1>1, <1>3, <1>4, <1>5, <1>6, <1>7, ResultOK DEF Same

LEMMA FinalizeOK ==
  ASSUME IndInv, NEW v \in Results, Finalize(v)
  PROVE  IndInv'
<1>1. /\ held' = [held EXCEPT ![v].result = FALSE] /\ Less({}, {Native(v)} \cap alive)
      /\ UNCHANGED <<engine, up, stack, phase, home, kept, outcome, exported, owned>>
  BY DEF Finalize
<1>2. CountsOK /\ {Value(v), Native(v)} \subseteq Refs /\ Held(Native(v)) = {} /\ Value(v) # Native(v)
  BY Basics, Names, Apart
<1>3. /\ CountsOK' /\ alive' = alive \ {Native(v)}
      /\ \A r \in Refs : count'[r] = count[r]
  BY <1>1, <1>2, DestroyPlain
<1>4. /\ Value(v) \in alive => count[Value(v)] = 0
      /\ Value(v) \in alive <=> (up /\ held[v].home = engine) /\ held[v].value
      /\ held[v].home <= engine
  BY DEF IndInv, ResultsCounted, EnginesKnown
<1>5. /\ held' \in [Results -> [home : 0 .. MaxEngines, result : BOOLEAN, value : BOOLEAN]]
      /\ held'[v].home = held[v].home /\ held'[v].result = FALSE
      /\ held'[v].value = held[v].value
      /\ \A w \in Results \ {v} : held'[w] = held[w]
  BY <1>1 DEF IndInv, TypeOK
<1>6. Native(v) \notin alive'
  BY <1>3
<1>7. /\ \A r \in Refs \ {Value(v), Native(v)} : Same(r)
      /\ Same(Value(v))
  BY <1>2, <1>3 DEF Same
<1>. QED BY <1>1, <1>3, <1>4, <1>5, <1>6, <1>7, ResultOK DEF Same

\* What an engine that is closed had holds each other and the exported function.
LEMMA HoldersOfAll ==
  ASSUME IndInv
  PROVE  LET O == InEngine \cap alive
         IN  /\ \A r \in Refs : Holders(r, O) \in Nat
             /\ Holders(Func, O) = Cardinality(exported)
<1>. DEFINE O == InEngine \cap alive
<1>1. O \subseteq Refs
  BY Names
<1>2. Holders(Func, O) = Cardinality(exported) /\ Cardinality(exported) \in Nat
  <2>. DEFINE S == {o \in O : Func \in Held(o)}
              f == [e \in exported |-> Export(e)]
  <2>1. /\ IsFiniteSet(exported) /\ exported \subseteq Exports
        /\ \A e \in Exports : Export(e) \in alive <=> e \in exported
    BY DEF IndInv, TypeOK, FunctionCounted
  <2>2. ASSUME NEW o PROVE o \in S <=> \E e \in exported : o = Export(e)
    <3>1. ASSUME o \in S PROVE \E e \in exported : o = Export(e)
      <4>1. o \in Refs /\ o \in alive /\ Func \in Held(o)
        BY <1>1, <3>1
      <4>2. \A c \in Calls : Func # Res(c)
        BY Apart
      <4>3. PICK e \in Exports : o = Export(e)
        BY <4>1, <4>2, Holding
      <4>. QED BY <2>1, <4>1, <4>3
    <3>2. ASSUME NEW e \in exported, o = Export(e) PROVE o \in S
      BY <2>1, <3>2, Names
    <3>. QED BY <3>1, <3>2
  <2>3. f \in Bijection(exported, S)
    <3>1. f \in [exported -> S]
      BY <2>2
    <3>2. \A a, b \in exported : f[a] = f[b] => a = b
      BY <2>1, Apart
    <3>3. \A s \in S : \E e \in exported : f[e] = s
      BY <2>2
    <3>. HIDE DEF f, S
    <3>. QED BY <3>1, <3>2, <3>3, Fun_IsBij
  <2>4. ExistsBijection(exported, S)
    BY <2>3 DEF ExistsBijection
  <2>. HIDE DEF S
  <2>5. Cardinality(S) = Cardinality(exported)
    BY <2>1, <2>4, FS_Bijection
  <2>. QED BY <2>1, <2>5, FS_CardinalityType DEF S, Holders
<1>3. ASSUME NEW r \in Refs, r # Func PROVE Holders(r, O) \in Nat
  <2>. DEFINE S == {o \in O : r \in Held(o)}
  <2>1. ASSUME NEW o \in S, NEW p \in S PROVE o = p
    <3>1. ASSUME NEW x \in S PROVE \E c \in Calls : x = Holder(c) /\ r = Res(c)
      BY <1>1, <1>3, <3>1, Holding
    <3>2. PICK c \in Calls : o = Holder(c) /\ r = Res(c)
      BY <3>1
    <3>3. PICK d \in Calls : p = Holder(d) /\ r = Res(d)
      BY <3>1
    <3>. QED BY <3>2, <3>3, Apart
  <2>2. CASE S = {}
    BY <2>2, FS_EmptySet DEF Holders
  <2>3. CASE S # {}
    <3>1. PICK o \in S : S = {o}
      BY <2>1, <2>3
    <3>2. Cardinality(S) = 1
      BY <3>1, FS_Singleton
    <3>. QED BY <3>2 DEF Holders
  <2>. QED BY <2>2, <2>3
<1>. QED BY <1>2, <1>3

\* close() leaves the exported function, if the application holds it, and nothing else.
LEMMA CloseOK ==
  ASSUME IndInv, Close
  PROVE  IndInv'
<1>1. /\ stack = <<>> /\ up' = FALSE /\ exported' = {}
      /\ Less({}, InEngine \cap alive)
      /\ UNCHANGED <<engine, stack, phase, home, kept, outcome, owned, held>>
  BY DEF Close
<1>2. PICK O : O = InEngine \cap alive
  OBVIOUS
<1>3. /\ \A r \in Refs : Holders(r, O) \in Nat
      /\ Holders(Func, O) = Cardinality(exported)
  BY <1>2, HoldersOfAll
<1>4. CountsOK /\ Less({}, O)
  BY <1>1, <1>2, Basics
<1>5. /\ CountsOK'
      /\ \A r \in Refs \ {} : /\ count'[r] = count[r] - Holders(r, O)
                              /\ r \in alive' <=> r \in alive \ O /\ count[r] >= Holders(r, O)
  BY <1>3, <1>4, LessOK
<1>6. \A r \in InEngine : r \notin alive'
  BY <1>2, <1>5, Names
<1>7. \A c \in Calls : ~AtHome(c)'
  BY <1>1 DEF AtHome
<1>8. ArgumentsCounted' /\ SettlersCounted'
  BY <1>6, <1>7, Names DEF ArgumentsCounted, SettlersCounted
<1>9. ResultsCounted'
  BY <1>1, <1>6, Names DEF ResultsCounted
<1>10. FunctionCounted'
  <2>1. /\ IsFiniteSet(exported) /\ count[Func] = Cardinality(exported) - Is(~owned)
        /\ Func \in alive <=> owned \/ exported # {}
    BY DEF IndInv, FunctionCounted
  <2>2. PICK k \in Nat : k = Cardinality(exported)
    BY <2>1, FS_CardinalityType
  <2>3. owned \in BOOLEAN
    BY DEF IndInv, TypeOK
  <2>4. Func \in Refs /\ Func \notin O
    BY <1>2, Names
  <2>5. /\ count'[Func] = (k - Is(~owned)) - k
        /\ Func \in alive' <=> Func \in alive /\ k - Is(~owned) >= k
    BY <1>3, <1>5, <2>1, <2>2, <2>4
  <2>6. count'[Func] = 0 - Is(~owned) /\ (Func \in alive' <=> owned)
    BY <2>1, <2>2, <2>3, <2>5 DEF Is
  <2>7. IsFiniteSet({}) /\ Cardinality({}) = 0
    BY FS_EmptySet
  <2>. QED BY <1>1, <1>6, <2>6, <2>7, Names DEF FunctionCounted
<1>11. EnginesKnown'
  <2>1. \A i \in 1 .. Len(stack) : FALSE
    BY <1>1
  <2>. QED BY <1>1, <2>1 DEF IndInv, EnginesKnown
<1>12. TypeOK'
  BY <1>1, <1>5 DEF IndInv, TypeOK, CountsOK
<1>. QED BY <1>8, <1>9, <1>10, <1>11, <1>12 DEF IndInv

\* A new engine has nothing of the old ones.
LEMMA EnsureEngineOK ==
  ASSUME IndInv, EnsureEngine
  PROVE  IndInv'
<1>1. /\ ~up /\ engine < MaxEngines /\ engine' = engine + 1 /\ up' = TRUE
      /\ UNCHANGED <<stack, phase, home, kept, outcome, exported, owned, held, count, alive>>
  BY DEF EnsureEngine
<1>2. engine \in Nat \ {0} /\ engine' \in 1 .. MaxEngines
  BY <1>1, Basics, EnginesAssumption
<1>3. \A c \in Calls : /\ ~AtHome(c) /\ ~AtHome(c)'
                       /\ home[c] <= engine' /\ (phase[c] = "idle" => home[c] = 0 /\ kept[c] = 0)
  BY <1>1, <1>2, Basics DEF IndInv, EnginesKnown, AtHome
<1>4. \A v \in Results : held[v].home <= engine' /\ ~(held[v].home = engine')
  BY <1>1, <1>2, Basics DEF IndInv, EnginesKnown
<1>5. ArgumentsCounted'
  BY <1>1, <1>3 DEF IndInv, ArgumentsCounted
<1>6. SettlersCounted'
  BY <1>1, <1>3 DEF IndInv, SettlersCounted
<1>7. FunctionCounted'
  BY <1>1 DEF IndInv, FunctionCounted
<1>8. ResultsCounted'
  BY <1>1, <1>4 DEF IndInv, ResultsCounted
<1>9. EnginesKnown'
  <2>1. \A i \in 1 .. Len(stack) : FALSE
    BY <1>1 DEF IndInv, EnginesKnown, AtHome
  <2>. QED BY <1>1, <1>3, <1>4, <2>1 DEF EnginesKnown
<1>10. TypeOK'
  BY <1>1, <1>2 DEF IndInv, TypeOK
<1>. QED BY <1>5, <1>6, <1>7, <1>8, <1>9, <1>10 DEF IndInv

----------------------------------------------------------------------------
LEMMA InitOK == Init => IndInv
<1>. SUFFICES ASSUME Init PROVE IndInv
  OBVIOUS
<1>1. TypeOK
  BY EnginesAssumption, KeptAssumption, Names DEF Init, TypeOK, Phases, Outcomes
<1>2. EnginesKnown
  BY DEF Init, EnginesKnown, AtHome
<1>3. \A c \in Calls : ~AtHome(c)
  BY DEF Init, AtHome
<1>4. \A r \in InEngine : r \notin alive
  BY Names DEF Init
<1>5. ArgumentsCounted /\ SettlersCounted
  BY <1>3, <1>4, Names DEF ArgumentsCounted, SettlersCounted
<1>6. FunctionCounted
  <2>1. IsFiniteSet({}) /\ Cardinality({}) = 0
    BY FS_EmptySet
  <2>. QED BY <1>4, <2>1, Names DEF Init, FunctionCounted, Is
<1>7. ResultsCounted
  BY <1>4, Names DEF Init, ResultsCounted
<1>. QED BY <1>1, <1>2, <1>5, <1>6, <1>7 DEF IndInv

LEMMA StutterOK == IndInv /\ UNCHANGED vars => IndInv'
<1>. SUFFICES ASSUME IndInv, UNCHANGED vars PROVE IndInv'
  OBVIOUS
<1>1. \A r : Same(r)
  BY DEF vars, Same
<1>2. ArgumentsCounted' /\ SettlersCounted' /\ FunctionCounted' /\ ResultsCounted'
  <2>1. \A c \in Calls : Need(c)' = Need(c)
    BY DEF vars, Need
  <2>. QED BY <1>1, <2>1, ArgumentsStay, SettlersStay, FunctionStays, ResultsStay DEF vars
<1>3. EnginesKnown'
  BY EnginesStay DEF vars
<1>4. TypeOK'
  BY DEF IndInv, TypeOK, vars
<1>. QED BY <1>2, <1>3, <1>4 DEF IndInv

LEMMA NextOK == IndInv /\ [Next]_vars => IndInv'
<1>. SUFFICES ASSUME IndInv, [Next]_vars PROVE IndInv'
  OBVIOUS
<1>1. CASE UNCHANGED vars
  BY <1>1, StutterOK
<1>2. ASSUME NEW c \in Calls,
             \/ HandlerReturns(c) \/ Convert(c) \/ ReleaseThrown(c)
             \/ Complete(c) \/ AnswerEnds(c) \/ AnswerFails(c)
      PROVE  IndInv'
  BY <1>2, PayingOK
<1>3. ASSUME NEW c \in Calls,
             \/ Call(c) \/ CallFails(c) \/ HandlerDefers(c) \/ Answer(c) \/ FreeSettlers(c)
             \/ ConvertError(c) \/ ThrewArgument(c) \/ Keep(c) \/ Drop(c)
      PROVE  IndInv'
  BY <1>3, CallOK, ErrorOK, HandlerDefersOK, AnswerOK, FreeSettlersOK, KeepOK, DropOK
<1>4. ASSUME NEW e \in Exports, GiveFunction(e) \/ Collect(e) PROVE IndInv'
  BY <1>4, GiveFunctionOK, CollectOK
<1>5. ASSUME NEW v \in Results, Evaluate(v) \/ FreeValue(v) \/ Finalize(v) PROVE IndInv'
  BY <1>5, EvaluateOK, FreeValueOK, FinalizeOK
<1>6. CASE FreeFunction \/ Close \/ EnsureEngine
  BY <1>6, FreeFunctionOK, CloseOK, EnsureEngineOK
<1>. QED BY <1>1, <1>2, <1>3, <1>4, <1>5, <1>6 DEF Next, Act

LEMMA Invariance == Spec => []IndInv
BY InitOK, NextOK, PTL DEF Spec

\* Every variable keeps its type, and no reference that is there has a count
\* below 0.
THEOREM TypeCorrect == Spec => []TypeOK
<1>1. IndInv => TypeOK
  BY DEF IndInv
<1>. QED BY <1>1, Invariance, PTL

\* What is counted is there when somebody needs it.
LEMMA Meaning == IndInv => ReferencesLive
<1>. SUFFICES ASSUME IndInv PROVE ReferencesLive
  OBVIOUS
<1>1. ArgumentsLive
  <2>. SUFFICES ASSUME NEW c \in Calls
                PROVE  Arg(c) \in alive <=> /\ AtHome(c)
                                            /\ phase[c] \notin {"failing", "answered", "done"} \/ kept[c] > 0
    BY DEF ArgumentsLive
  <2>1. Arg(c) \in alive <=> AtHome(c) /\ kept[c] + Owes(phase[c]) >= 0
    BY DEF IndInv, ArgumentsCounted, Need
  <2>2. kept[c] \in Nat /\ phase[c] \in Phases /\ (phase[c] = "idle" => ~AtHome(c))
    BY Basics DEF IndInv, TypeOK
  <2>3. CASE phase[c] \in {"failing", "answered", "done"}
    BY <2>1, <2>2, <2>3 DEF Owes
  <2>4. CASE phase[c] \in Phases \ {"failing", "answered", "done", "idle"}
    BY <2>1, <2>2, <2>4 DEF Owes, Phases
  <2>5. CASE phase[c] = "idle"
    BY <2>1, <2>2, <2>5
  <2>. QED BY <2>2, <2>3, <2>4, <2>5
<1>2. SettlersLive
  BY DEF IndInv, SettlersCounted, SettlersLive, Res, Holder, Unsettled
<1>3. FunctionLives
  BY DEF IndInv, FunctionCounted, FunctionLives
<1>4. ResultsLive
  BY DEF IndInv, ResultsCounted, ResultsLive
<1>. QED BY <1>1, <1>2, <1>3, <1>4 DEF ReferencesLive

\* No reference but an argument that is thrown is destroyed before its time, none
\* but an argument of a failed call stays, and no reference to an engine survives
\* it, however calls, futures, errors, the application, the collectors and close()
\* take their turns.
THEOREM ReferencesAreSafe == Spec => []ReferencesLive
BY Meaning, Invariance, PTL

\* An answer is lost exactly when the engine it was for is gone.
LEMMA AnswersStep ==
  ASSUME IndInv, [Next]_vars, NEW c \in Calls, outcome'[c] # outcome[c]
  PROVE  outcome'[c] = "lost" <=> ~AtHome(c)
<1>1. outcome \in [Calls -> Outcomes]
  BY DEF IndInv, TypeOK
<1>2. PICK d \in Calls : \/ Convert(d) \/ ConvertError(d) \/ ThrewArgument(d)
                          \/ Answer(d) \/ AnswerFails(d)
  BY DEF Next, Act, vars, Call, CallFails, HandlerReturns, ReleaseThrown, HandlerDefers, Complete, AnswerEnds, FreeSettlers,
         Keep, Drop, GiveFunction, Collect, Evaluate, FreeValue, Finalize, FreeFunction,
         Close, EnsureEngine, Settled
<1>3. CASE Convert(d) \/ ConvertError(d) \/ ThrewArgument(d)
  <2>1. PICK o \in {"delivered", "crashed"} : outcome' = [outcome EXCEPT ![d] = o]
    BY <1>3 DEF Convert, ConvertError, ThrewArgument
  <2>2. AtHome(d)
    BY <1>3, TopIsAtHome DEF Convert, ConvertError, ThrewArgument
  <2>. QED BY <1>1, <2>1, <2>2
<1>4. CASE Answer(d)
  <2>1. outcome' = [outcome EXCEPT ![d] = "delivered"] /\ Res(d) \in alive
    BY <1>4 DEF Answer, CanSettle
  <2>2. AtHome(d)
    BY <2>1 DEF IndInv, SettlersCounted
  <2>. QED BY <1>1, <2>1, <2>2
<1>5. CASE AnswerFails(d)
  <2>1. /\ outcome' = [outcome EXCEPT ![d] = "lost"]
        /\ phase[d] = "released" /\ Res(d) \notin alive
    BY <1>5 DEF AnswerFails, CanSettle
  <2>2. ~AtHome(d)
    BY <2>1 DEF IndInv, SettlersCounted, Unsettled
  <2>. QED BY <1>1, <2>1, <2>2
<1>. QED BY <1>2, <1>3, <1>4, <1>5

\* Answers reach the engine of the call they answer or none.
THEOREM AnswersAreSafe == Spec => AnswersFindTheirEngine
<1>1. IndInv /\ [Next]_vars =>
        [\A c \in Calls : outcome'[c] # outcome[c] =>
           (outcome'[c] = "lost" <=> ~AtHome(c))]_vars
  BY AnswersStep
<1>. QED BY <1>1, Invariance, PTL DEF Spec, AnswersFindTheirEngine
=============================================================================
