----------------------------- MODULE LedgerProofs -----------------------------
(***************************************************************************)
(* For every number of accounts, requests, operations, payments and signers: *)
(* a transaction takes effect within the window its caller stated, a batch   *)
(* that is refused is answered with the payment that broke it, a payment     *)
(* that succeeded leaves no cached balance that it changed, the preflight of *)
(* a revocation judges as the ledger does, a refreshed supply is the         *)
(* ledger's, a failure is laid to its first operation and to whoever can     *)
(* mend it, all that read an envelope agree, and as many signers as a caller *)
(* is told to ask suffice.                                                   *)
(***************************************************************************)
EXTENDS MCLedger, Numbers, FiniteSetTheorems, SequenceTheorems, TLAPS

-----------------------------------------------------------------------------
(* Induction over the payments of a transaction *)

\* One payment more.
Step(h, from, to) == IF PayCode(h, from, to) = "op_success" THEN Moved(h, {from}, {to}) ELSE h

\* f is what the first n payments leave, one after the other.
IsHistory(f, n, from, pays) ==
  f = [i \in 0..n |-> IF i = 0 THEN holds ELSE Step(f[i - 1], from, pays[i])]

LEMMA HistoryExists ==
  ASSUME NEW from, NEW pays, NEW n \in Nat
  PROVE  \E f : IsHistory(f, n, from, pays)
  <1> DEFINE T == {k \in Nat : ~ \E f : IsHistory(f, k, from, pays)}
  <1>1. SUFFICES ASSUME T # {} PROVE FALSE
    OBVIOUS
  <1>2. PICK k \in T : \A j \in T : k <= j
    <2>1. T \in SUBSET Nat
      OBVIOUS
    <2> HIDE DEF T
    <2>2. QED
      BY <1>1, <2>1, LeastNumber
  <1>3. k # 0
    <2> DEFINE f == [i \in 0..0 |-> holds]
    <2>1. IsHistory(f, 0, from, pays)
      BY DEF IsHistory
    <2>2. QED
      BY <2>1
  <1>4. k - 1 \in Nat /\ k - 1 \notin T
    BY <1>2, <1>3
  <1>5. PICK g : IsHistory(g, k - 1, from, pays)
    BY <1>4
  <1> DEFINE f == [i \in 0..k |-> IF i = k THEN Step(g[k - 1], from, pays[k]) ELSE g[i]]
  <1>6. IsHistory(f, k, from, pays)
    <2>1. ASSUME NEW i \in 0..k, i # 0
          PROVE  f[i] = Step(f[i - 1], from, pays[i])
      <3>1. i - 1 \in 0..(k - 1) /\ f[i - 1] = g[i - 1]
        BY <2>1
      <3>2. CASE i = k
        BY <3>1, <3>2
      <3>3. CASE i # k
        <4>1. i \in 0..(k - 1) /\ f[i] = g[i]
          BY <3>3
        <4>2. g[i] = Step(g[i - 1], from, pays[i])
          BY <1>5, <2>1, <4>1 DEF IsHistory
        <4>3. QED
          BY <3>1, <4>1, <4>2
      <3>4. QED
        BY <3>2, <3>3
    <2>2. f[0] = holds
      <3>1. 0 \in 0..(k - 1) /\ f[0] = g[0]
        BY <1>3
      <3>2. QED
        BY <1>5, <3>1 DEF IsHistory
    <2>3. QED
      BY <2>1, <2>2 DEF IsHistory
  <1>7. QED
    BY <1>2, <1>6

\* What the recursion computes.
LEMMA HoldingsSteps ==
  ASSUME NEW r, Len(req[r].pays) \in Nat
  PROVE  /\ Holdings(r)[0] = holds
         /\ \A i \in 1..Len(req[r].pays) :
              Holdings(r)[i] = Step(Holdings(r)[i - 1], req[r].from, req[r].pays[i])
  <1>1. Holdings(r) = CHOOSE f : IsHistory(f, Len(req[r].pays), req[r].from, req[r].pays)
    BY Zenon DEF Holdings, IsHistory, Step
  <1>2. IsHistory(Holdings(r), Len(req[r].pays), req[r].from, req[r].pays)
    BY <1>1, HistoryExists
  <1>3. QED
    BY <1>2 DEF IsHistory

-----------------------------------------------------------------------------
(* What a transaction does to the ledger *)

Code == {"op_success", "op_src_no_trust", "op_underfunded", "op_no_trust", "op_line_full",
         "op_does_not_exist"}
Codes == Seq(Code)
Payees == Seq(Account)
Units == [Account -> Int]
Held == [Account -> Nat]

Paid(r) == {req[r].pays[i] : i \in DOMAIN req[r].pays}

LEMMA CodeType ==
  /\ \A h, a : CodeOf(CannotGive(h, a)) \in Code /\ CodeOf(CannotTake(h, a)) \in Code
  /\ \A h, from, to : PayCode(h, from, to) \in Code
  <1>1. ASSUME NEW S \in SUBSET Code PROVE CodeOf(S) \in Code
    BY DEF CodeOf, Code
  <1>2. \A h, a : CannotGive(h, a) \in SUBSET Code
    BY DEF CannotGive, Code
  <1>3. \A h, a : CannotTake(h, a) \in SUBSET Code
    BY DEF CannotTake, Code
  <1>4. "op_success" \in Code
    BY DEF Code
  <1>5. \A h, from, to : PayCode(h, from, to) \in Code
    BY <1>1, <1>2, <1>3, <1>4 DEF PayCode
  <1>6. QED
    BY <1>1, <1>2, <1>3, <1>5

LEMMA MovedType ==
  ASSUME NEW h \in Units, NEW from, NEW to
  PROVE  /\ Moved(h, from, to) \in Units
         /\ \A a \in Account \ (from \cup to) : Moved(h, from, to)[a] = h[a]
  BY DEF Moved, Units

\* However many payments are made one after the other, only the payer and the paid have
\* their holdings changed.
LEMMA HoldingsOfOthers ==
  ASSUME NEW r, holds \in Units, req[r].pays \in Payees, NEW n \in 0..Len(req[r].pays)
  PROVE  /\ Holdings(r)[n] \in Units
         /\ \A a \in Account \ ({req[r].from} \cup Paid(r)) : Holdings(r)[n][a] = holds[a]
  <1> DEFINE size == Len(req[r].pays)
             Fine(i) == /\ Holdings(r)[i] \in Units
                        /\ \A a \in Account \ ({req[r].from} \cup Paid(r)) :
                             Holdings(r)[i][a] = holds[a]
             T == {i \in 0..size : ~ Fine(i)}
  <1>1. size \in Nat
    BY DEF Payees
  <1>2. SUFFICES ASSUME T # {} PROVE FALSE
    OBVIOUS
  <1>3. PICK i \in T : \A j \in T : i <= j
    <2>1. T \in SUBSET Nat
      BY <1>1
    <2> HIDE DEF T
    <2>2. QED
      BY <1>2, <2>1, LeastNumber
  <1>4. i # 0
    BY <1>1, HoldingsSteps
  <1>5. i \in 1..size /\ i - 1 \in 0..size /\ i - 1 \notin T
    BY <1>1, <1>3, <1>4
  <1>6. Fine(i - 1)
    BY <1>5
  <1>7. Holdings(r)[i] = Step(Holdings(r)[i - 1], req[r].from, req[r].pays[i])
    BY <1>1, <1>5, HoldingsSteps
  <1>8. req[r].pays[i] \in Paid(r)
    BY <1>5 DEF Paid, Payees
  <1>9. Fine(i)
    <2> DEFINE h == Holdings(r)[i - 1]
               from == req[r].from
               to == req[r].pays[i]
    <2>1. h \in Units /\ \A a \in Account \ ({from} \cup Paid(r)) : h[a] = holds[a]
      BY <1>6
    <2>2. Holdings(r)[i] = h \/ Holdings(r)[i] = Moved(h, {from}, {to})
      BY <1>7 DEF Step
    <2>3. to \in Paid(r)
      BY <1>8
    <2> HIDE DEF h, from, to
    <2>4. /\ Moved(h, {from}, {to}) \in Units
          /\ \A a \in Account \ ({from} \cup {to}) : Moved(h, {from}, {to})[a] = h[a]
      BY <2>1, MovedType
    <2>5. /\ Holdings(r)[i] \in Units
          /\ \A a \in Account \ ({from} \cup Paid(r)) : Holdings(r)[i][a] = holds[a]
      BY <2>1, <2>2, <2>3, <2>4
    <2>6. QED
      BY <2>5 DEF from
  <1>10. QED
    BY <1>3, <1>9

LEMMA OutcomeType ==
  ASSUME NEW r, holds \in Units, req[r].pays \in Payees
  PROVE  /\ Outcome(r).holds \in Units
         /\ Outcome(r).codes \in Codes
         /\ req[r].kind = "createClaimable" =>
              \A a \in Account \ {req[r].from} : Outcome(r).holds[a] = holds[a]
         /\ \A a \in Account \ ({req[r].from} \cup Paid(r)) : Outcome(r).holds[a] = holds[a]
         /\ req[r].kind \notin {"createClaimable", "claim"} /\ req[r].pays = <<>> =>
              Outcome(r).holds = holds
  <1> DEFINE from == req[r].from
             pays == req[r].pays
             size == Len(pays)
  <1>1. size \in Nat
    BY DEF Payees
  <1>2. CASE req[r].kind = "createClaimable"
    <2>1. /\ Outcome(r).holds = Moved(holds, {from}, {})
          /\ Outcome(r).codes = <<CodeOf(CannotGive(holds, from))>>
      BY <1>2 DEF Outcome
    <2>2. Outcome(r).codes \in Codes
      BY <2>1, CodeType DEF Codes
    <2> HIDE DEF from
    <2>3. /\ Outcome(r).holds \in Units
          /\ \A a \in Account \ {from} : Outcome(r).holds[a] = holds[a]
      BY <2>1, MovedType
    <2>4. QED
      BY <1>2, <2>2, <2>3 DEF from
  <1>3. CASE req[r].kind = "claim"
    <2>1. /\ Outcome(r).holds = Moved(holds, {}, {from})
          /\ Outcome(r).codes = <<IF locked[from] = 0 THEN "op_does_not_exist"
                                  ELSE CodeOf(CannotTake(holds, from))>>
      BY <1>3 DEF Outcome
    <2>2. Outcome(r).codes \in Codes
      BY <2>1, CodeType DEF Codes, Code
    <2> HIDE DEF from
    <2>3. /\ Outcome(r).holds \in Units
          /\ \A a \in Account \ {from} : Outcome(r).holds[a] = holds[a]
      BY <2>1, MovedType
    <2>4. QED
      BY <1>3, <2>2, <2>3 DEF from
  <1>4. CASE req[r].kind \notin {"createClaimable", "claim"}
    <2>1. /\ Outcome(r).holds = Holdings(r)[size]
          /\ Outcome(r).codes = [i \in 1..size |-> PayCode(Holdings(r)[i - 1], from, pays[i])]
      BY <1>4 DEF Outcome
    <2>2. Outcome(r).codes \in Codes
      BY <1>1, <2>1, CodeType DEF Codes
    <2>3. size \in 0..Len(req[r].pays)
      BY <1>1
    <2>4. /\ Holdings(r)[size] \in Units
          /\ \A a \in Account \ ({req[r].from} \cup Paid(r)) : Holdings(r)[size][a] = holds[a]
      BY <2>3, HoldingsOfOthers
    <2>5. pays = <<>> => Holdings(r)[size] = holds
      BY <1>1, HoldingsSteps
    <2>6. QED
      BY <1>4, <2>1, <2>2, <2>4, <2>5
  <1>5. QED
    BY <1>2, <1>3, <1>4

\* Where the codes first name a failure.
LEMMA FirstFailure ==
  ASSUME NEW codes \in Codes
  PROVE  /\ Succeeds(codes) => FailedAt(codes) = 0
         /\ ~Succeeds(codes) => /\ FailedAt(codes) \in 1..Len(codes)
                               /\ codes[FailedAt(codes)] # "op_success"
                               /\ \A j \in 1..(FailedAt(codes) - 1) : codes[j] = "op_success"
  <1> DEFINE T == {i \in DOMAIN codes : codes[i] # "op_success"}
  <1>1. Len(codes) \in Nat /\ DOMAIN codes = 1..Len(codes)
    BY DEF Codes
  <1>2. FailedAt(codes) = IF T = {} THEN 0 ELSE CHOOSE x \in T : \A y \in T : x <= y
    BY Zenon DEF FailedAt, Min
  <1>3. T = {} <=> Succeeds(codes)
    BY DEF Succeeds
  <1>4. ASSUME T # {}
        PROVE  FailedAt(codes) \in T /\ \A y \in T : FailedAt(codes) <= y
    <2>1. T \in SUBSET Nat
      BY <1>1
    <2> HIDE DEF T
    <2>2. \E x \in T : \A y \in T : x <= y
      BY <1>4, <2>1, LeastNumber
    <2>3. QED
      BY <1>2, <1>4, <2>2
  <1>5. Succeeds(codes) => FailedAt(codes) = 0
    BY <1>2, <1>3
  <1>6. ASSUME ~Succeeds(codes)
        PROVE  /\ FailedAt(codes) \in 1..Len(codes)
               /\ codes[FailedAt(codes)] # "op_success"
               /\ \A j \in 1..(FailedAt(codes) - 1) : codes[j] = "op_success"
    <2> DEFINE first == FailedAt(codes)
    <2>1. /\ first \in 1..Len(codes) /\ codes[first] # "op_success"
          /\ \A y \in 1..Len(codes) : codes[y] # "op_success" => first <= y
      BY <1>1, <1>3, <1>4, <1>6
    <2> HIDE DEF first
    <2>2. \A j \in 1..(first - 1) : j \in 1..Len(codes) /\ ~ (first <= j)
      BY <1>1, <2>1
    <2>3. \A j \in 1..(first - 1) : codes[j] = "op_success"
      BY <2>1, <2>2
    <2>4. QED
      BY <2>1, <2>3 DEF first
  <1>7. QED
    BY <1>5, <1>6

-----------------------------------------------------------------------------
(* What the accounts hold, and what the ledger makes of it *)

\* When a payment succeeds.
LEMMA PaySucceeds ==
  ASSUME NEW h, NEW from, NEW to
  PROVE  PayCode(h, from, to) = "op_success" <=>
           /\ from = Issuer \/ (from \in trusts /\ h[from] # 0)
           /\ from = to \/ HasRoom(h, to)
  <1>1. ASSUME NEW S \in SUBSET {"op_src_no_trust", "op_underfunded", "op_no_trust", "op_line_full"}
        PROVE  CodeOf(S) = "op_success" <=> S = {}
    BY DEF CodeOf
  <1>2. /\ CannotGive(h, from) \in SUBSET {"op_src_no_trust", "op_underfunded"}
        /\ CannotGive(h, from) = {} <=> from = Issuer \/ (from \in trusts /\ h[from] # 0)
    BY DEF CannotGive
  <1>3. /\ CannotTake(h, to) \in SUBSET {"op_no_trust", "op_line_full"}
        /\ CannotTake(h, to) = {} <=> HasRoom(h, to)
    BY DEF CannotTake
  <1>4. /\ CodeOf(CannotGive(h, from)) = "op_success" <=> CannotGive(h, from) = {}
        /\ CodeOf(CannotTake(h, to)) = "op_success" <=> CannotTake(h, to) = {}
    BY <1>1, <1>2, <1>3
  <1>5. QED
    BY <1>2, <1>3, <1>4 DEF PayCode

\* Nobody holds less than nothing, however many payments are made.
LEMMA HoldingsHeld ==
  ASSUME NEW r, holds \in Held, req[r].pays \in Payees, NEW n \in 0..Len(req[r].pays)
  PROVE  Holdings(r)[n] \in Held
  <1> DEFINE size == Len(req[r].pays)
             T == {i \in 0..size : Holdings(r)[i] \notin Held}
  <1>1. size \in Nat
    BY DEF Payees
  <1>2. SUFFICES ASSUME T # {} PROVE FALSE
    OBVIOUS
  <1>3. PICK i \in T : \A j \in T : i <= j
    <2>1. T \in SUBSET Nat
      BY <1>1
    <2> HIDE DEF T
    <2>2. QED
      BY <1>2, <2>1, LeastNumber
  <1>4. i # 0
    BY <1>1, HoldingsSteps
  <1>5. i \in 1..size /\ i - 1 \in 0..size /\ i - 1 \notin T
    BY <1>1, <1>3, <1>4
  <1> DEFINE h == Holdings(r)[i - 1]
             from == req[r].from
             to == req[r].pays[i]
  <1>6. h \in Held
    BY <1>5
  <1>7. Holdings(r)[i] = Step(h, from, to)
    BY <1>1, <1>5, HoldingsSteps
  <1> HIDE DEF h, from, to
  <1>8. Step(h, from, to) \in Held
    <2>1. CASE PayCode(h, from, to) = "op_success"
      <3>1. from = Issuer \/ h[from] # 0
        BY <2>1, PaySucceeds
      <3>2. Moved(h, {from}, {to}) \in Held
        BY <1>6, <3>1 DEF Moved, Held
      <3>3. QED
        BY <2>1, <3>2 DEF Step
    <2>2. QED
      BY <1>6, <2>1 DEF Step
  <1>9. QED
    BY <1>3, <1>7, <1>8

LEMMA AmongSteps ==
  ASSUME NEW r, NEW n \in Nat, NEW A
  PROVE  /\ Among(r, n, A) \in SUBSET (1..n)
         /\ IsFiniteSet(Among(r, n, A)) /\ Cardinality(Among(r, n, A)) \in Nat
         /\ n > 0 => Cardinality(Among(r, n, A)) =
                       Cardinality(Among(r, n - 1, A)) + (IF req[r].pays[n] \in A THEN 1 ELSE 0)
  <1>1. \A m \in Nat : /\ Among(r, m, A) \in SUBSET (1..m)
                       /\ IsFiniteSet(Among(r, m, A)) /\ Cardinality(Among(r, m, A)) \in Nat
    <2>1. \A m \in Nat : Among(r, m, A) \in SUBSET (1..m)
      BY DEF Among
    <2>2. \A m \in Nat : IsFiniteSet(1..m)
      BY FS_Interval
    <2>3. QED
      BY <2>1, <2>2, FS_Subset, FS_CardinalityType
  <1>2. ASSUME n > 0, req[r].pays[n] \in A
        PROVE  Cardinality(Among(r, n, A)) = Cardinality(Among(r, n - 1, A)) + 1
    <2>1. Among(r, n, A) = Among(r, n - 1, A) \cup {n} /\ n \notin Among(r, n - 1, A)
      BY <1>2 DEF Among
    <2>2. IsFiniteSet(Among(r, n - 1, A))
      BY <1>1, <1>2
    <2> DEFINE S == Among(r, n - 1, A)
    <2> HIDE DEF S
    <2>3. Cardinality(S \cup {n}) = Cardinality(S) + 1
      BY <2>1, <2>2, FS_AddElement DEF S
    <2>4. QED
      BY <2>1, <2>3 DEF S
  <1>3. ASSUME n > 0, req[r].pays[n] \notin A
        PROVE  Among(r, n, A) = Among(r, n - 1, A)
    BY <1>3 DEF Among
  <1>4. CASE n = 0
    BY <1>1, <1>4
  <1>5. CASE n > 0
    <2>1. n - 1 \in Nat
      BY <1>5
    <2>2. Cardinality(Among(r, n - 1, A)) \in Nat
      BY <1>1, <2>1
    <2>3. QED
      BY <1>1, <1>2, <1>3, <2>2
  <1>6. QED
    BY <1>4, <1>5

\* While the payments of r succeed, what is held is what was held but for them, and it was
\* enough for them.
Counted(r, n) ==
  LET from == req[r].from
      h == Holdings(r)[n]
      given == Cardinality(Among(r, n, Account \ {from}))
  IN  /\ from # Issuer => h[from] = holds[from] - given
      /\ \A a \in Account \ {from, Issuer} : h[a] = holds[a] + Cardinality(Among(r, n, {a}))
      /\ n > 0 => Affordable(r, n)

LEMMA PaymentCounted ==
  ASSUME NEW r, holds \in Held, req[r].pays \in Payees, req[r].from \in Account,
         NEW n \in 1..Len(req[r].pays), Counted(r, n - 1)
  PROVE  /\ PayCode(Holdings(r)[n - 1], req[r].from, req[r].pays[n]) = "op_success" <=> Affordable(r, n)
         /\ PayCode(Holdings(r)[n - 1], req[r].from, req[r].pays[n]) = "op_success" => Counted(r, n)
  <1> DEFINE from == req[r].from
             to == req[r].pays[n]
             h == Holdings(r)[n - 1]
             ok == PayCode(h, from, to) = "op_success"
             given(m) == Cardinality(Among(r, m, Account \ {from}))
             got(m, a) == Cardinality(Among(r, m, {a}))
  <1>1. /\ Len(req[r].pays) \in Nat /\ n \in Nat /\ n - 1 \in Nat /\ n > 0 /\ to \in Account
        /\ n - 1 \in 0..Len(req[r].pays) /\ from \in Account
    BY DEF Payees
  <1>2. h \in Held
    BY <1>1, HoldingsHeld
  <1>3. /\ \A m \in Nat : given(m) \in Nat /\ \A a : got(m, a) \in Nat
        /\ given(n) = given(n - 1) + (IF to # from THEN 1 ELSE 0)
        /\ \A a : got(n, a) = got(n - 1, a) + (IF to = a THEN 1 ELSE 0)
    <2>1. \A m \in Nat : given(m) \in Nat /\ \A a : got(m, a) \in Nat
      BY AmongSteps
    <2>2. given(n) = given(n - 1) + (IF to \in Account \ {from} THEN 1 ELSE 0)
      BY <1>1, AmongSteps
    <2>3. \A a : got(n, a) = got(n - 1, a) + (IF to \in {a} THEN 1 ELSE 0)
      BY <1>1, AmongSteps
    <2> HIDE DEF given, got
    <2>4. QED
      BY <1>1, <2>1, <2>2, <2>3
  <1>4. \A a : Among(r, n - 1, {a}) # {} <=> got(n - 1, a) > 0
    <2>1. \A a : IsFiniteSet(Among(r, n - 1, {a})) /\ got(n - 1, a) \in Nat
      BY <1>1, AmongSteps
    <2>2. QED
      BY <2>1, FS_EmptySet
  <1>5. \A a : Among(r, n, {a}) # {} <=> got(n, a) > 0
    <2>1. \A a : IsFiniteSet(Among(r, n, {a})) /\ got(n, a) \in Nat
      BY <1>1, AmongSteps
    <2>2. QED
      BY <2>1, FS_EmptySet
  <1>6. /\ from # Issuer => h[from] = holds[from] - given(n - 1)
        /\ \A a \in Account \ {from, Issuer} : h[a] = holds[a] + got(n - 1, a)
        /\ n - 1 > 0 => Affordable(r, n - 1)
    BY Zenon DEF Counted
  <1>7. Affordable(r, n) <=>
          /\ from # Issuer => from \in trusts /\ given(n - 1) < holds[from]
          /\ \A a \in Account \ {from, Issuer} :
               got(n, a) > 0 => a \in trusts /\ holds[a] + got(n, a) <= Limit
    <2>1. Affordable(r, n) <=>
            /\ from # Issuer => from \in trusts /\ given(n - 1) < holds[from]
            /\ \A a \in Account \ {from, Issuer} :
                 Among(r, n, {a}) # {} => a \in trusts /\ holds[a] + got(n, a) <= Limit
      BY DEF Affordable
    <2>2. QED
      BY <1>5, <2>1
  <1>8. \A a \in Account \ {from, Issuer} :
          got(n - 1, a) > 0 => a \in trusts /\ holds[a] + got(n - 1, a) <= Limit
    <2>1. CASE n - 1 > 0
      BY <1>4, <1>6, <2>1 DEF Affordable
    <2>2. CASE n - 1 = 0
      <3>1. \A a : Among(r, n - 1, {a}) = {}
        BY <2>2 DEF Among
      <3>2. QED
        BY <1>4, <3>1
    <2>3. QED
      BY <1>1, <2>1, <2>2
  <1>9. ok <=> /\ from = Issuer \/ (from \in trusts /\ h[from] # 0)
               /\ from = to \/ to = Issuer \/ (to \in trusts /\ h[to] < Limit)
    BY PaySucceeds DEF HasRoom
  <1>10. ok => Holdings(r)[n] = Moved(h, {from}, {to})
    BY <1>1, HoldingsSteps DEF Step
  <1>11. \A a \in Account : h[a] \in Nat /\ holds[a] \in Nat
    BY <1>2 DEF Held
  <1>12. Limit \in Nat
    BY LimitAssumption
  <1>13. Counted(r, n) <=>
           /\ from # Issuer => Holdings(r)[n][from] = holds[from] - given(n)
           /\ \A a \in Account \ {from, Issuer} : Holdings(r)[n][a] = holds[a] + got(n, a)
           /\ n > 0 => Affordable(r, n)
    BY Zenon DEF Counted
  <1> HIDE DEF h, ok, given, got, from, to
  <1>14. from # Issuer => (h[from] # 0 <=> given(n - 1) < holds[from])
    BY <1>1, <1>3, <1>6, <1>11
  <1>15. (from = to \/ to = Issuer \/ (to \in trusts /\ h[to] < Limit)) <=>
           \A a \in Account \ {from, Issuer} :
             got(n, a) > 0 => a \in trusts /\ holds[a] + got(n, a) <= Limit
    <2>1. \A a \in Account \ {from, Issuer} : a # to =>
            (got(n, a) > 0 => a \in trusts /\ holds[a] + got(n, a) <= Limit)
      <3>1. \A a : a # to => got(n, a) = got(n - 1, a)
        BY <1>1, <1>3
      <3>2. QED
        BY <1>8, <3>1
    <2>2. to \notin {from, Issuer} =>
            /\ got(n, to) = got(n - 1, to) + 1 /\ got(n - 1, to) \in Nat
            /\ h[to] = holds[to] + got(n - 1, to)
      BY <1>1, <1>3, <1>6
    <2>3. to \notin {from, Issuer} =>
            (h[to] < Limit <=> holds[to] + got(n, to) <= Limit) /\ got(n, to) > 0
      BY <1>1, <1>11, <1>12, <2>2
    <2>4. QED
      BY <1>1, <2>1, <2>3
  <1>16. ok <=> Affordable(r, n)
    BY <1>7, <1>9, <1>14, <1>15
  <1>17. ASSUME ok PROVE Counted(r, n)
    <2>1. \A a \in Account : Holdings(r)[n][a] =
            h[a] + (IF a \in {to} \ {Issuer} THEN 1 ELSE 0) - (IF a \in {from} \ {Issuer} THEN 1 ELSE 0)
      BY <1>10, <1>17 DEF Moved
    <2>2. from # Issuer => Holdings(r)[n][from] = holds[from] - given(n)
      <3>1. given(n - 1) \in Nat /\ given(n) = given(n - 1) + (IF to # from THEN 1 ELSE 0)
        BY <1>1, <1>3
      <3>2. holds[from] \in Nat /\ (from # Issuer => h[from] = holds[from] - given(n - 1))
        BY <1>1, <1>6, <1>11
      <3>3. from # Issuer => Holdings(r)[n][from] = h[from] + (IF to = from THEN 1 ELSE 0) - 1
        BY <1>1, <2>1
      <3>4. QED
        BY <3>1, <3>2, <3>3
    <2>3. ASSUME NEW a \in Account \ {from, Issuer}
          PROVE  Holdings(r)[n][a] = holds[a] + got(n, a)
      <3>1. got(n - 1, a) \in Nat /\ got(n, a) = got(n - 1, a) + (IF to = a THEN 1 ELSE 0)
        BY <1>1, <1>3
      <3>2. holds[a] \in Nat /\ h[a] = holds[a] + got(n - 1, a)
        BY <1>6, <1>11
      <3>3. Holdings(r)[n][a] = h[a] + (IF to = a THEN 1 ELSE 0) - 0
        BY <2>1
      <3>4. QED
        BY <3>1, <3>2, <3>3
    <2>4. QED
      BY <1>13, <1>16, <1>17, <2>2, <2>3
  <1>18. QED
    BY <1>16, <1>17 DEF ok, h, from, to

\* The payments before the first that fails were affordable together, and with it they are
\* not.
LEMMA CauseOfFailure ==
  ASSUME NEW r, holds \in Held, req[r].pays \in Payees, req[r].from \in Account,
         NEW n \in 1..Len(req[r].pays),
         \A i \in 1..(n - 1) :
           PayCode(Holdings(r)[i - 1], req[r].from, req[r].pays[i]) = "op_success",
         PayCode(Holdings(r)[n - 1], req[r].from, req[r].pays[n]) # "op_success"
  PROVE  ~Affordable(r, n) /\ (n > 1 => Affordable(r, n - 1))
  <1> DEFINE T == {i \in 0..(n - 1) : ~ Counted(r, i)}
  <1>1. Len(req[r].pays) \in Nat /\ n \in Nat
    BY DEF Payees
  <1>2. Counted(r, 0)
    <2>1. \A A : Among(r, 0, A) = {}
      BY DEF Among
    <2>2. \A A : Cardinality(Among(r, 0, A)) = 0
      BY <2>1, FS_EmptySet
    <2>3. Holdings(r)[0] = holds
      BY <1>1, HoldingsSteps
    <2>4. \A a \in Account : holds[a] \in Nat
      BY DEF Held
    <2>5. QED
      BY <2>2, <2>3, <2>4 DEF Counted
  <1>3. T = {}
    <2>1. SUFFICES ASSUME T # {} PROVE FALSE
      OBVIOUS
    <2>2. PICK i \in T : \A j \in T : i <= j
      <3>1. T \in SUBSET Nat
        BY <1>1
      <3> HIDE DEF T
      <3>2. QED
        BY <2>1, <3>1, LeastNumber
    <2>3. /\ i \in 1..(n - 1) /\ i \in 1..Len(req[r].pays) /\ i - 1 \in 0..(n - 1) /\ i - 1 \notin T
      BY <1>1, <1>2, <2>2
    <2>4. Counted(r, i - 1)
      BY <2>3
    <2>5. Counted(r, i)
      BY <2>3, <2>4, PaymentCounted
    <2>6. QED
      BY <2>2, <2>5
  <1>4. Counted(r, n - 1)
    BY <1>1, <1>3
  <1>5. ~Affordable(r, n)
    BY <1>4, PaymentCounted
  <1>6. n > 1 => Affordable(r, n - 1)
    BY <1>1, <1>4 DEF Counted
  <1>7. QED
    BY <1>5, <1>6

-----------------------------------------------------------------------------
(* What a request is about, from its call to its answer *)

Place == {"new", "queued", "load", "wallet", "send", "evict", "refused", "done"}
Unbounded == {"distributeAsset", "buildIssue", "submitBatchPayment", "buildAirdrop"}
Bounded == {"burnAsset", "submitPayment", "buildBurn", "buildUnsigned", "createClaimable",
            "claim", "manageData"}
Route == {"submit", "transfer", "bumped", "sponsored"}
Kind == Unbounded \cup Bounded \cup Route \cup {"issueAsset", "none"}
Bound == Bounds \cup {NoBounds}
Window == [lo : Int, hi : Int]
Reply == {"none", "invalid", "unknown", "refused", "ok"}
PaymentRecord == [pc : Place, kind : Kind, from : Account, pays : Payees, bounds : Bound,
                  since : Nat, window : Window, sends : Nat, codes : Codes, blame : Nat,
                  answer : Reply]

\* A transaction that is built has the window of the bounds it was asked with, resolved
\* at its since.
Timed(q) ==
  /\ q.bounds.min # {} => q.window.lo = The(q.bounds.min)
  /\ q.window.hi = IF q.bounds.max = {} THEN q.since + Timeout ELSE The(q.bounds.max)

\* issueAsset resolves before it waits, the others when they build.
HasWindow(q) == \/ q.pc \in {"wallet", "send"}
                \/ q.kind = "issueAsset" /\ q.pc \in {"queued", "load"}

Sound(q) ==
  /\ HasWindow(q) => Timed(q)
  /\ q.kind \in Unbounded => q.bounds = NoBounds
  /\ q.kind = "manageData" => q.pays = <<>>

Requests == {q \in PaymentRecord : Sound(q)}

PaymentInv ==
  /\ now \in Nat
  /\ holds \in Held
  /\ req \in [Request -> Requests]

LEMMA BoundType ==
  ASSUME NEW b \in Bound
  PROVE  /\ b.min # {} => The(b.min) \in Int
         /\ b.max # {} => The(b.max) \in Int
  <1>1. b.min \subseteq Int /\ b.max \subseteq Int
    BY BoundsAssumption DEF Bound, NoBounds
  <1>2. \A S : S # {} => The(S) \in S
    BY DEF The
  <1>3. QED
    BY <1>1, <1>2

LEMMA ResolveType ==
  ASSUME NEW b \in Bound, NEW t \in Nat
  PROVE  /\ Resolve(b, t) \in Window
         /\ b.min # {} => Resolve(b, t).lo = The(b.min)
         /\ Resolve(b, t).hi = IF b.max = {} THEN t + Timeout ELSE The(b.max)
  <1>1. ResolvedMin(b) \in Int /\ ResolvedMax(b, t) \in Int
    BY BoundType, TimeoutAssumption DEF ResolvedMin, ResolvedMax
  <1>2. QED
    BY <1>1 DEF Resolve, Window, ResolvedMin, ResolvedMax

LEMMA TimeoutType ==
  ASSUME NEW t \in Nat
  PROVE  /\ WithTimeout(t) \in Window
         /\ WithTimeout(t).hi = t + Timeout
  BY TimeoutAssumption DEF WithTimeout, Window

LEMMA NewIsSound == New \in Requests
  <1>1. /\ "new" \in Place /\ "none" \in Kind /\ Issuer \in Account /\ <<>> \in Payees
        /\ NoBounds \in Bound /\ 0 \in Nat /\ NoWindow \in Window /\ <<>> \in Codes
        /\ "none" \in Reply
    BY AccountAssumption
    DEF Place, Kind, Payees, Bound, Window, NoWindow, Codes, Reply
  <1>2. New \in PaymentRecord
    BY <1>1 DEF New, PaymentRecord
  <1>3. Sound(New)
    BY DEF New, Sound, HasWindow, Unbounded
  <1>4. QED
    BY <1>2, <1>3 DEF Requests

LEMMA EndedIsSound ==
  ASSUME NEW answer \in Reply
  PROVE  [New EXCEPT !.pc = "done", !.answer = answer] \in Requests
  <1>1. New \in PaymentRecord
    BY NewIsSound DEF Requests
  <1>2. "done" \in Place
    BY DEF Place
  <1> DEFINE q == [New EXCEPT !.pc = "done", !.answer = answer]
  <1>3. q \in PaymentRecord /\ q.pc = "done" /\ q.kind = New.kind
    BY <1>1, <1>2 DEF PaymentRecord
  <1>4. New.kind = "none"
    BY DEF New
  <1>5. Sound(q)
    BY <1>3, <1>4 DEF Sound, HasWindow, Unbounded
  <1>6. QED
    BY <1>3, <1>5 DEF Requests

\* A request that loads the account, or waits for its turn to.
LEMMA AskedIsSound ==
  ASSUME NEW kind \in Bounded \cup Unbounded, NEW from \in Account, NEW pays \in Payees,
         NEW b \in Bound,
         kind \in Unbounded => b = NoBounds, kind = "manageData" => pays = <<>>
  PROVE  /\ Ask(kind, from, pays, b) \in Requests
         /\ [Ask(kind, from, pays, b) EXCEPT !.pc = "queued"] \in Requests
  <1> DEFINE ask == Ask(kind, from, pays, b)
             q == [ask EXCEPT !.pc = "queued"]
  <1>1. New \in PaymentRecord
    BY NewIsSound DEF Requests
  <1>2. kind \in Kind /\ kind # "issueAsset" /\ "queued" \in Place /\ "load" \in Place
    BY DEF Kind, Place, Bounded, Unbounded
  <1>3. /\ ask \in PaymentRecord
        /\ ask.pc = "load" /\ ask.kind = kind /\ ask.pays = pays /\ ask.bounds = b
    BY <1>1, <1>2 DEF Ask, PaymentRecord
  <1> HIDE DEF ask
  <1>4. q \in PaymentRecord /\ q.pc = "queued" /\ q.kind = kind /\ q.pays = pays /\ q.bounds = b
    BY <1>2, <1>3 DEF PaymentRecord
  <1> HIDE DEF q
  <1>5. Sound(q) /\ Sound(ask)
    BY <1>2, <1>3, <1>4 DEF Sound, HasWindow
  <1>6. QED
    BY <1>3, <1>4, <1>5 DEF Requests, q, ask

LEMMA IssuanceIsSound ==
  ASSUME NEW to \in Account, NEW b \in Bound, NEW t \in Nat
  PROVE  [Ask("issueAsset", Issuer, <<to>>, b) EXCEPT
            !.pc = "queued", !.since = t, !.window = Resolve(b, t)] \in Requests
  <1> DEFINE ask == Ask("issueAsset", Issuer, <<to>>, b)
             w == Resolve(b, t)
             q == [ask EXCEPT !.pc = "queued", !.since = t, !.window = w]
  <1>1. New \in PaymentRecord
    BY NewIsSound DEF Requests
  <1>2. "issueAsset" \in Kind /\ "queued" \in Place /\ "load" \in Place
    BY DEF Kind, Place
  <1>3. ask \in PaymentRecord /\ ask.kind = "issueAsset" /\ ask.bounds = b
    <2>1. <<to>> \in Payees /\ Issuer \in Account
      BY AccountAssumption DEF Payees
    <2>2. QED
      BY <1>1, <1>2, <2>1 DEF Ask, PaymentRecord
  <1>4. /\ w \in Window
        /\ b.min # {} => w.lo = The(b.min)
        /\ w.hi = IF b.max = {} THEN t + Timeout ELSE The(b.max)
    BY ResolveType
  <1> HIDE DEF ask, w
  <1>5. /\ q \in PaymentRecord /\ q.pc = "queued" /\ q.kind = "issueAsset" /\ q.bounds = b
        /\ q.window = w /\ q.since = t
    BY <1>2, <1>3, <1>4 DEF PaymentRecord
  <1> HIDE DEF q
  <1>6. Timed(q)
    BY <1>4, <1>5 DEF Timed
  <1>7. Sound(q)
    BY <1>5, <1>6 DEF Sound, Unbounded
  <1>8. QED
    BY <1>5, <1>7 DEF Requests, q, ask, w

-----------------------------------------------------------------------------
(* The steps *)

LEMMA InitPayment == Init => PaymentInv
  <1> SUFFICES ASSUME Init PROVE PaymentInv
    OBVIOUS
  <1>1. holds \in Held
    BY DEF Init, Held
  <1>2. now \in Nat /\ req \in [Request -> Requests]
    BY NewIsSound DEF Init
  <1>3. QED
    BY <1>1, <1>2 DEF PaymentInv

LEMMA OneRequest ==
  ASSUME PaymentInv, NEW r \in Request, NEW q \in Requests, req' = [req EXCEPT ![r] = q],
         now' = now, holds' \in Held
  PROVE  PaymentInv'
  BY DEF PaymentInv

LEMMA EndStep ==
  ASSUME PaymentInv, NEW r \in Request, NEW answer \in Reply, End(r, answer),
         now' = now, holds' \in Held
  PROVE  PaymentInv'
  BY EndedIsSound, OneRequest DEF End

LEMMA InvalidStep ==
  ASSUME PaymentInv, NEW r \in Request, Invalid(r)
  PROVE  PaymentInv'
  <1>1. "invalid" \in Reply
    BY DEF Reply
  <1>2. QED
    BY <1>1, EndStep DEF Invalid, ledger, PaymentInv

LEMMA AwaitStep ==
  ASSUME PaymentInv, NEW r \in Request, NEW from, NEW q \in Requests, Await(r, from, q)
  PROVE  PaymentInv'
  BY OneRequest DEF Await, ledger, PaymentInv

Called(r, from, to, b) ==
  \/ from = Issuer /\ IssueAsset(r, to, b)
  \/ from # Issuer /\ to = Issuer /\ BurnAsset(r, from, b)
  \/ from = Issuer /\ to # Issuer /\ DistributeAsset(r, to)
  \/ from # to /\ SubmitPayment(r, from, to, b)
  \/ to # Issuer /\ CreateClaimable(r, from, to, b)
  \/ from = to /\ (ClaimClaimable(r, from, b) \/ ManageDatum(r, from, b))
  \/ from = Issuer /\ to # Issuer /\ BuildIssue(r, to)
  \/ from # Issuer /\ to = Issuer /\ BuildBurn(r, from)
  \/ from # to /\ BuildUnsignedPayment(r, from, to)

LEMMA CalledStep ==
  ASSUME PaymentInv, NEW r \in Request, NEW from \in Account, NEW to \in Account,
         NEW b \in Bounds, Called(r, from, to, b)
  PROVE  PaymentInv'
  <1>1. /\ b \in Bound /\ NoBounds \in Bound /\ Issuer \in Account /\ now \in Nat
        /\ <<to>> \in Payees /\ <<Issuer>> \in Payees /\ <<from>> \in Payees /\ <<>> \in Payees
    BY AccountAssumption DEF Bound, Payees, PaymentInv
  <1>2. CASE IssueAsset(r, to, b)
    BY <1>1, <1>2, InvalidStep, AwaitStep, IssuanceIsSound DEF IssueAsset
  <1>3. CASE BurnAsset(r, from, b)
    <2>1. "burnAsset" \in Bounded /\ "burnAsset" \notin Unbounded
      BY DEF Bounded, Unbounded
    <2>2. QED
      BY <1>1, <1>3, <2>1, AwaitStep, AskedIsSound DEF BurnAsset
  <1>4. CASE DistributeAsset(r, to)
    <2>1. "distributeAsset" \in Unbounded
      BY DEF Unbounded
    <2>2. QED
      BY <1>1, <1>4, <2>1, AwaitStep, AskedIsSound DEF DistributeAsset
  <1>5. CASE SubmitPayment(r, from, to, b)
    <2>1. "submitPayment" \in Bounded /\ "submitPayment" \notin Unbounded
      BY DEF Bounded, Unbounded
    <2>2. QED
      BY <1>1, <1>5, <2>1, AwaitStep, AskedIsSound DEF SubmitPayment
  <1>6. CASE CreateClaimable(r, from, to, b)
    <2>1. "createClaimable" \in Bounded /\ "createClaimable" \notin Unbounded
      BY DEF Bounded, Unbounded
    <2>2. QED
      BY <1>1, <1>6, <2>1, AwaitStep, AskedIsSound DEF CreateClaimable
  <1>7. CASE ClaimClaimable(r, from, b)
    <2>1. "claim" \in Bounded /\ "claim" \notin Unbounded
      BY DEF Bounded, Unbounded
    <2>2. QED
      BY <1>1, <1>7, <2>1, AwaitStep, AskedIsSound DEF ClaimClaimable
  <1>8. CASE ManageDatum(r, from, b)
    <2>1. "manageData" \in Bounded /\ "manageData" \notin Unbounded
      BY DEF Bounded, Unbounded
    <2>2. QED
      BY <1>1, <1>8, <2>1, InvalidStep, AwaitStep, AskedIsSound DEF ManageDatum
  <1>9. CASE BuildIssue(r, to)
    <2>1. "buildIssue" \in Unbounded
      BY DEF Unbounded
    <2>2. QED
      BY <1>1, <1>9, <2>1, AwaitStep, AskedIsSound DEF BuildIssue
  <1>10. CASE BuildBurn(r, from)
    <2>1. "buildBurn" \in Bounded /\ "buildBurn" \notin Unbounded
      BY DEF Bounded, Unbounded
    <2>2. QED
      BY <1>1, <1>10, <2>1, AwaitStep, AskedIsSound DEF BuildBurn
  <1>11. CASE BuildUnsignedPayment(r, from, to)
    <2>1. "buildUnsigned" \in Bounded /\ "buildUnsigned" \notin Unbounded
      BY DEF Bounded, Unbounded
    <2>2. QED
      BY <1>1, <1>11, <2>1, AwaitStep, AskedIsSound DEF BuildUnsignedPayment
  <1>12. QED
    BY <1>2, <1>3, <1>4, <1>5, <1>6, <1>7, <1>8, <1>9, <1>10, <1>11 DEF Called

LEMMA BatchStep ==
  ASSUME PaymentInv, NEW r \in Request, NEW from \in Account, NEW n \in 0..(MaxBatch + 1),
         NEW pays \in [1..n -> Account], SubmitBatchPayment(r, from, pays)
  PROVE  PaymentInv'
  <1>1. pays \in Payees /\ NoBounds \in Bound
    BY DEF Payees, Bound
  <1>2. "submitBatchPayment" \in Unbounded
    BY DEF Unbounded
  <1>3. QED
    BY <1>1, <1>2, InvalidStep, AwaitStep, AskedIsSound DEF SubmitBatchPayment

LEMMA AirdropStep ==
  ASSUME PaymentInv, NEW r \in Request, BuildAirdrop(r)
  PROVE  PaymentInv'
  <1>0. PICK members \in SUBSET (Account \ {Issuer}) : \E pays \in SetToSeqs(members) :
          IF ValidBatch(pays)
          THEN Await(r, Issuer, Ask("buildAirdrop", Issuer, pays, NoBounds))
          ELSE Invalid(r)
    BY Zenon DEF BuildAirdrop
  <1>1. PICK pays \in SetToSeqs(members) :
          IF ValidBatch(pays)
          THEN Await(r, Issuer, Ask("buildAirdrop", Issuer, pays, NoBounds))
          ELSE Invalid(r)
    BY <1>0, Zenon
  <1>2. pays \in Payees
    <2>1. Cardinality(members) \in Nat
      BY AccountAssumption, FS_Subset, FS_CardinalityType
    <2>2. pays \in [1..Cardinality(members) -> members]
      BY Zenon DEF SetToSeqs
    <2>3. pays \in [1..Cardinality(members) -> Account]
      BY <2>2
    <2>4. QED
      BY <2>1, <2>3 DEF Payees
  <1>3. "buildAirdrop" \in Unbounded /\ Issuer \in Account /\ NoBounds \in Bound
    BY AccountAssumption DEF Unbounded, Bound
  <1>4. QED
    BY <1>1, <1>2, <1>3, InvalidStep, AwaitStep, AskedIsSound

LEMMA RequestType ==
  ASSUME PaymentInv, NEW r \in Request
  PROVE  req[r] \in PaymentRecord /\ Sound(req[r])
  BY DEF PaymentInv, Requests

LEMMA TurnStep ==
  ASSUME PaymentInv, NEW r \in Request, Turn(r)
  PROVE  PaymentInv'
  <1> DEFINE q == [req[r] EXCEPT !.pc = "load"]
  <1>1. req[r] \in PaymentRecord /\ Sound(req[r]) /\ req[r].pc = "queued" /\ "load" \in Place
    BY RequestType DEF Turn, Place
  <1>2. req' = [req EXCEPT ![r] = q]
    BY DEF Turn
  <1>3. /\ q \in PaymentRecord /\ q.pc = "load"
        /\ q.kind = req[r].kind /\ q.pays = req[r].pays /\ q.bounds = req[r].bounds
        /\ q.window = req[r].window /\ q.since = req[r].since
    BY <1>1 DEF PaymentRecord
  <1> HIDE DEF q
  <1>4. Sound(q)
    BY <1>1, <1>3 DEF Sound, HasWindow, Timed
  <1>5. q \in Requests
    BY <1>3, <1>4 DEF Requests
  <1>6. QED
    BY <1>2, <1>5, OneRequest DEF Turn, ledger, PaymentInv

\* The transaction is built, with a window that is that of its bounds.
LEMMA BuiltStep ==
  ASSUME PaymentInv, NEW r \in Request, NEW window \in Window, NEW since \in Nat,
         req[r].bounds.min # {} => window.lo = The(req[r].bounds.min),
         window.hi = IF req[r].bounds.max = {} THEN since + Timeout ELSE The(req[r].bounds.max),
         Built(r, window, since), UNCHANGED ledger
  PROVE  PaymentInv'
  <1>1. PICK pc \in {"wallet", "send"} :
          req' = [req EXCEPT ![r].pc = pc, ![r].window = window, ![r].since = since]
    BY DEF Built
  <1> DEFINE q == [req[r] EXCEPT !.pc = pc, !.window = window, !.since = since]
  <1>2. req[r] \in PaymentRecord /\ Sound(req[r]) /\ pc \in Place
    BY RequestType DEF Place
  <1>3. req' = [req EXCEPT ![r] = q]
    BY <1>1
  <1>4. /\ q \in PaymentRecord /\ q.pc = pc
        /\ q.kind = req[r].kind /\ q.pays = req[r].pays /\ q.bounds = req[r].bounds
        /\ q.window = window /\ q.since = since
    BY <1>2 DEF PaymentRecord
  <1> HIDE DEF q
  <1>5. Timed(q)
    BY <1>4 DEF Timed
  <1>6. Sound(q)
    BY <1>2, <1>4, <1>5 DEF Sound
  <1>7. q \in Requests
    BY <1>4, <1>6 DEF Requests
  <1>8. QED
    BY <1>3, <1>7, OneRequest DEF ledger, PaymentInv

LEMMA BuildStep ==
  ASSUME PaymentInv, NEW r \in Request,
         BuildIssuance(r) \/ BuildTimed(r) \/ BuildBatch(r) \/ BuildBounded(r)
  PROVE  PaymentInv'
  <1>1. /\ req[r] \in PaymentRecord /\ Sound(req[r])
        /\ req[r].bounds \in Bound /\ req[r].since \in Nat /\ req[r].window \in Window
        /\ now \in Nat /\ "invalid" \in Reply
    BY RequestType DEF PaymentInv, PaymentRecord, Reply
  <1>2. CASE BuildIssuance(r)
    <2>1. Timed(req[r])
      BY <1>1, <1>2 DEF BuildIssuance, Builds, Sound, HasWindow
    <2>2. QED
      BY <1>1, <1>2, <2>1, BuiltStep DEF BuildIssuance, Builds, Timed
  <1>3. CASE BuildTimed(r) \/ BuildBatch(r)
    <2>1. req[r].kind \in Unbounded /\ UNCHANGED ledger /\ Built(r, WithTimeout(now), now)
      BY <1>3 DEF BuildTimed, BuildBatch, Builds, Unbounded
    <2>2. req[r].bounds.min = {} /\ req[r].bounds.max = {}
      BY <1>1, <2>1 DEF Sound, NoBounds
    <2>3. WithTimeout(now) \in Window /\ WithTimeout(now).hi = now + Timeout
      BY <1>1, TimeoutType
    <2>4. QED
      BY <1>1, <2>1, <2>2, <2>3, BuiltStep
  <1>4. CASE BuildBounded(r)
    <2>1. UNCHANGED ledger
      BY <1>4 DEF BuildBounded, Builds
    <2>2. CASE Built(r, Resolve(req[r].bounds, now), now)
      BY <1>1, <2>1, <2>2, ResolveType, BuiltStep
    <2>3. CASE End(r, "invalid")
      BY <1>1, <2>1, <2>3, EndStep DEF ledger, PaymentInv
    <2>4. QED
      BY <1>4, <2>2, <2>3 DEF BuildBounded
  <1>5. QED
    BY <1>2, <1>3, <1>4

LEMMA HandsInStep ==
  ASSUME PaymentInv, NEW r \in Request, NEW route \in Route, HandsIn(r, route)
  PROVE  PaymentInv'
  <1> DEFINE q == [req[r] EXCEPT !.pc = "send", !.kind = route]
  <1>1. /\ req[r] \in PaymentRecord /\ Sound(req[r]) /\ req[r].pc = "wallet"
        /\ "send" \in Place /\ route \in Kind
    BY RequestType DEF HandsIn, Place, Kind
  <1>2. req' = [req EXCEPT ![r] = q]
    BY DEF HandsIn
  <1>3. /\ q \in PaymentRecord /\ q.pc = "send" /\ q.kind = route
        /\ q.pays = req[r].pays /\ q.bounds = req[r].bounds
        /\ q.window = req[r].window /\ q.since = req[r].since
    BY <1>1 DEF PaymentRecord
  <1> HIDE DEF q
  <1>4. Timed(q)
    BY <1>1, <1>3 DEF Sound, HasWindow, Timed
  <1>5. Sound(q)
    BY <1>3, <1>4 DEF Sound, Unbounded, Route
  <1>6. q \in Requests
    BY <1>3, <1>5 DEF Requests
  <1>7. QED
    BY <1>2, <1>6, OneRequest DEF HandsIn, ledger, PaymentInv

LEMMA ApplyEffect ==
  ASSUME PaymentInv, NEW r \in Request, Apply(r)
  PROVE  holds' \in Held
  <1> DEFINE from == req[r].from
             pays == req[r].pays
             codes == Outcome(r).codes
  <1>1. holds \in Held /\ pays \in Payees
    BY RequestType DEF PaymentInv, PaymentRecord
  <1>2. holds' = Outcome(r).holds /\ Succeeds(codes)
    BY DEF Apply
  <1>3. CASE req[r].kind = "createClaimable"
    <2>1. Outcome(r).holds = Moved(holds, {from}, {}) /\ codes = <<CodeOf(CannotGive(holds, from))>>
      BY <1>3 DEF Outcome
    <2>2. CodeOf(CannotGive(holds, from)) = "op_success"
      BY <1>2, <2>1 DEF Succeeds
    <2>3. from = Issuer \/ holds[from] # 0
      BY <2>2 DEF CodeOf, CannotGive
    <2> HIDE DEF from
    <2>4. Moved(holds, {from}, {}) \in Held
      BY <1>1, <2>3 DEF Moved, Held
    <2>5. QED
      BY <1>2, <2>1, <2>4
  <1>4. CASE req[r].kind = "claim"
    <2>1. Outcome(r).holds = Moved(holds, {}, {from})
      BY <1>4 DEF Outcome
    <2> HIDE DEF from
    <2>2. Moved(holds, {}, {from}) \in Held
      BY <1>1 DEF Moved, Held
    <2>3. QED
      BY <1>2, <2>1, <2>2
  <1>5. CASE req[r].kind \notin {"createClaimable", "claim"}
    <2>1. Outcome(r).holds = Holdings(r)[Len(pays)]
      BY <1>5 DEF Outcome
    <2>2. Len(pays) \in 0..Len(pays)
      BY <1>1 DEF Payees
    <2>3. QED
      BY <1>1, <1>2, <2>1, <2>2, HoldingsHeld
  <1>6. QED
    BY <1>3, <1>4, <1>5

LEMMA AppliedStep ==
  ASSUME PaymentInv, NEW r \in Request, Applied(r)
  PROVE  PaymentInv'
  <1> DEFINE q == [req[r] EXCEPT !.pc = "evict"]
  <1>1. req[r] \in PaymentRecord /\ Sound(req[r]) /\ "evict" \in Place
    BY RequestType DEF Place
  <1>2. req' = [req EXCEPT ![r] = q] /\ now' = now /\ holds' \in Held
    BY ApplyEffect DEF Applied
  <1>3. /\ q \in PaymentRecord /\ q.pc = "evict"
        /\ q.kind = req[r].kind /\ q.pays = req[r].pays /\ q.bounds = req[r].bounds
    BY <1>1 DEF PaymentRecord
  <1> HIDE DEF q
  <1>4. Sound(q)
    BY <1>1, <1>3 DEF Sound, HasWindow
  <1>5. q \in Requests
    BY <1>3, <1>4 DEF Requests
  <1>6. QED
    BY <1>2, <1>5, OneRequest

\* What Horizon may report, and what is made of it.
LEMMA ReportType ==
  ASSUME PaymentInv, NEW r \in Request, NEW codes \in Reports(r)
  PROVE  /\ codes \in Codes
         /\ codes # <<>> => ~Succeeds(codes) /\ codes = Outcome(r).codes
         /\ Blame(r, codes) \in Nat
         /\ codes = <<>> => Blame(r, codes) = 0
  <1>1. holds \in Units /\ req[r].pays \in Payees
    BY RequestType DEF PaymentInv, PaymentRecord, Held, Units
  <1>2. codes = <<>> \/ (codes = Outcome(r).codes /\ ~Succeeds(codes))
    BY DEF Reports
  <1>3. <<>> \in Codes /\ Succeeds(<<>>)
    BY DEF Codes, Succeeds
  <1>4. codes \in Codes
    BY <1>1, <1>2, <1>3, OutcomeType
  <1>5. Blame(r, codes) \in Nat /\ (codes = <<>> => Blame(r, codes) = 0)
    <2>1. FailedAt(codes) \in Nat /\ (codes = <<>> => FailedAt(codes) = 0)
      <3>1. Len(codes) \in Nat
        BY <1>4 DEF Codes
      <3>2. QED
        BY <1>3, <1>4, <3>1, FirstFailure
    <2>2. QED
      BY <2>1 DEF Blame
  <1>6. QED
    BY <1>2, <1>4, <1>5

LEMMA RefusedStep ==
  ASSUME PaymentInv, NEW r \in Request, Refused(r)
  PROVE  PaymentInv'
  <1>1. PICK codes \in Reports(r) :
          req' = [req EXCEPT ![r] = [New EXCEPT !.pc = "refused", !.codes = codes,
                                                !.blame = Blame(r, codes)]]
    BY DEF Refused
  <1> DEFINE blame == Blame(r, codes)
             q == [New EXCEPT !.pc = "refused", !.codes = codes, !.blame = blame]
  <1>2. codes \in Codes /\ blame \in Nat /\ "refused" \in Place
    BY ReportType DEF Place
  <1>3. New \in PaymentRecord /\ New.kind = "none"
    <2>1. New \in PaymentRecord
      BY NewIsSound DEF Requests
    <2>2. QED
      BY <2>1 DEF New
  <1>4. req' = [req EXCEPT ![r] = q]
    BY <1>1
  <1> HIDE DEF blame
  <1>5. q \in PaymentRecord /\ q.pc = "refused" /\ q.kind = "none"
    BY <1>2, <1>3 DEF PaymentRecord
  <1> HIDE DEF q
  <1>6. Sound(q)
    BY <1>5 DEF Sound, HasWindow, Unbounded
  <1>7. q \in Requests
    BY <1>5, <1>6 DEF Requests
  <1>8. now' = now /\ holds' \in Held
    BY DEF Refused, ledger, PaymentInv
  <1>9. QED
    BY <1>4, <1>7, <1>8, OneRequest

LEMMA BusyStep ==
  ASSUME PaymentInv, NEW r \in Request, Busy(r)
  PROVE  PaymentInv'
  <1> DEFINE n == req[r].sends + 1
             q == [req[r] EXCEPT !.sends = n]
  <1>1. /\ req[r] \in PaymentRecord /\ Sound(req[r]) /\ n \in Nat /\ "unknown" \in Reply
        /\ now' = now /\ holds' = holds /\ holds \in Held
    BY RequestType DEF Busy, ledger, Reply, PaymentInv, PaymentRecord
  <1>2. CASE End(r, "unknown")
    BY <1>1, <1>2, EndStep
  <1>3. CASE req' = [req EXCEPT ![r].sends = @ + 1]
    <2>1. req' = [req EXCEPT ![r] = q]
      BY <1>3
    <2> HIDE DEF n
    <2>2. /\ q \in PaymentRecord /\ q.pc = req[r].pc /\ q.codes = req[r].codes
          /\ q.blame = req[r].blame /\ q.window = req[r].window /\ q.since = req[r].since
          /\ q.kind = req[r].kind /\ q.pays = req[r].pays /\ q.bounds = req[r].bounds
      BY <1>1 DEF PaymentRecord
    <2> HIDE DEF q
    <2>3. Sound(q)
      BY <1>1, <2>2 DEF Sound, HasWindow, Timed
    <2>4. q \in Requests
      BY <2>2, <2>3 DEF Requests
    <2>5. QED
      BY <1>1, <2>1, <2>4, OneRequest
  <1>4. QED
    BY <1>2, <1>3 DEF Busy

LEMMA EndingStep ==
  ASSUME PaymentInv, NEW r \in Request, LoadFails(r) \/ Fail(r) \/ Lost(r) \/ Answer(r)
  PROVE  PaymentInv'
  <1>1. "unknown" \in Reply /\ "refused" \in Reply /\ "ok" \in Reply /\ holds \in Held
    BY DEF Reply, PaymentInv
  <1>2. CASE Lost(r)
    BY <1>1, <1>2, ApplyEffect, EndStep DEF Lost
  <1>3. CASE LoadFails(r) \/ Fail(r) \/ Answer(r)
    BY <1>1, <1>3, EndStep DEF LoadFails, Fail, Answer, ledger
  <1>4. QED
    BY <1>2, <1>3

Proceeds(r) ==
  \/ BuildAirdrop(r) \/ Turn(r) \/ LoadFails(r)
  \/ BuildIssuance(r) \/ BuildTimed(r) \/ BuildBatch(r) \/ BuildBounded(r)
  \/ WalletSubmits(r) \/ WalletTransfers(r) \/ SubmitFeeBump(r)
  \/ Applied(r) \/ Refused(r) \/ Fail(r) \/ Busy(r) \/ Lost(r) \/ Answer(r)

LEMMA ProceedsStep ==
  ASSUME PaymentInv, NEW r \in Request, Proceeds(r)
  PROVE  PaymentInv'
  <1>1. CASE WalletSubmits(r) \/ WalletTransfers(r) \/ SubmitFeeBump(r)
    <2>1. Route = {"submit", "transfer", "bumped", "sponsored"}
      BY DEF Route
    <2>2. PICK route \in Route : HandsIn(r, route)
      BY <1>1, <2>1 DEF WalletSubmits, WalletTransfers, SubmitFeeBump
    <2>3. QED
      BY <2>2, HandsInStep
  <1>2. QED
    BY <1>1, AirdropStep, TurnStep, BuildStep, AppliedStep, RefusedStep, BusyStep, EndingStep
    DEF Proceeds

\* A step is a call, a request that goes on, or time.
LEMMA NextSplit ==
  Next <=> \/ \E r \in Request, from, to \in Account, b \in Bounds : Called(r, from, to, b)
           \/ \E r \in Request, from \in Account, n \in 0..(MaxBatch + 1) :
                \E pays \in [1..n -> Account] : SubmitBatchPayment(r, from, pays)
           \/ \E r \in Request : Proceeds(r)
           \/ Tick
  BY Zenon DEF Next, Called, Proceeds

LEMMA NextPayment == PaymentInv /\ [Next]_vars => PaymentInv'
  <1> SUFFICES ASSUME PaymentInv, [Next]_vars PROVE PaymentInv'
    OBVIOUS
  <1>1. CASE UNCHANGED vars
    BY <1>1 DEF vars, PaymentInv
  <1>2. CASE Tick
    BY <1>2 DEF Tick, PaymentInv
  <1>3. ASSUME NEW r \in Request, NEW from \in Account, NEW to \in Account, NEW b \in Bounds,
               Called(r, from, to, b)
        PROVE  PaymentInv'
    BY <1>3, CalledStep
  <1>4. ASSUME NEW r \in Request, NEW from \in Account, NEW n \in 0..(MaxBatch + 1),
               NEW pays \in [1..n -> Account], SubmitBatchPayment(r, from, pays)
        PROVE  PaymentInv'
    BY <1>4, BatchStep
  <1>5. ASSUME NEW r \in Request, Proceeds(r) PROVE PaymentInv'
    BY <1>5, ProceedsStep
  <1>6. QED
    BY <1>1, <1>2, <1>3, <1>4, <1>5, NextSplit, Zenon

LEMMA Invariance == Spec => []PaymentInv
  BY InitPayment, NextPayment, PTL DEF Spec

-----------------------------------------------------------------------------
(* What follows *)

\* Only a transaction that is sent changes what accounts hold and may claim.
LEMMA OnlySentApplies ==
  ASSUME PaymentInv, Next, <<holds, locked>>' # <<holds, locked>>
  PROVE  \E r \in Request : /\ req[r].pc = "send"
                            /\ Apply(r)
                            /\ Applied(r) \/ Lost(r)
                            /\ \A p \in Request \ {r} : req'[p] = req[p]
  <1>1. ASSUME NEW r, UNCHANGED ledger PROVE FALSE
    BY <1>1 DEF ledger
  <1>2. ~Tick
    BY DEF Tick
  <1>3. ASSUME NEW r \in Request, Invalid(r) PROVE FALSE
    BY <1>1, <1>3 DEF Invalid
  <1>4. ASSUME NEW r \in Request, NEW from, NEW q, Await(r, from, q) PROVE FALSE
    BY <1>1, <1>4 DEF Await
  <1>5. ASSUME NEW r \in Request, NEW from, NEW to, NEW b, Called(r, from, to, b) PROVE FALSE
    BY <1>3, <1>4, <1>5
    DEF Called, IssueAsset, BurnAsset, DistributeAsset, SubmitPayment, CreateClaimable,
        ClaimClaimable, ManageDatum, BuildIssue, BuildBurn, BuildUnsignedPayment
  <1>6. ASSUME NEW r \in Request, NEW from, NEW pays, SubmitBatchPayment(r, from, pays)
        PROVE  FALSE
    BY <1>3, <1>4, <1>6 DEF SubmitBatchPayment
  <1>7. ASSUME NEW r \in Request, BuildAirdrop(r) PROVE FALSE
    BY <1>3, <1>4, <1>7, Zenon DEF BuildAirdrop
  <1>8. ASSUME NEW r \in Request, Proceeds(r), ~Applied(r), ~Lost(r) PROVE FALSE
    BY <1>1, <1>7, <1>8
    DEF Proceeds, Turn, LoadFails, BuildIssuance, BuildTimed, BuildBatch, BuildBounded, Builds,
        WalletSubmits, WalletTransfers, SubmitFeeBump, HandsIn, Refused, Fail, Busy, Answer
  <1>9. PICK r \in Request : Applied(r) \/ Lost(r)
    BY <1>2, <1>5, <1>6, <1>8, NextSplit, Zenon
  <1>10. req[r].pc = "send" /\ Apply(r)
    BY <1>9 DEF Applied, Lost
  <1>11. \A p \in Request \ {r} : req'[p] = req[p]
    BY <1>9 DEF Applied, Lost, End, PaymentInv
  <1>12. QED
    BY <1>9, <1>10, <1>11

\* Only Horizon's answer makes a request a refused one.
LEMMA RefusesOnly ==
  ASSUME PaymentInv, Next, NEW r \in Request, req[r].pc = "send", req'[r].pc = "refused"
  PROVE  Refused(r)
  <1>1. ASSUME NEW p \in Request, NEW answer, End(p, answer) PROVE FALSE
    BY <1>1 DEF End, New, PaymentInv
  <1>2. ASSUME NEW p \in Request, req[p].pc # "send", NEW q, req' = [req EXCEPT ![p] = q] PROVE FALSE
    BY <1>2 DEF PaymentInv
  <1>3. ASSUME NEW p \in Request, Invalid(p) PROVE FALSE
    BY <1>1, <1>3 DEF Invalid
  <1>4. ASSUME NEW p \in Request, NEW from, NEW q, req[p].pc # "send", Await(p, from, q) PROVE FALSE
    BY <1>2, <1>4 DEF Await
  <1>5. ASSUME NEW p \in Request, NEW from, NEW to, NEW b, Called(p, from, to, b) PROVE FALSE
    BY <1>3, <1>4, <1>5
    DEF Called, IssueAsset, BurnAsset, DistributeAsset, SubmitPayment, CreateClaimable,
        ClaimClaimable, ManageDatum, BuildIssue, BuildBurn, BuildUnsignedPayment, MayAsk
  <1>6. ASSUME NEW p \in Request, NEW from, NEW pays, SubmitBatchPayment(p, from, pays) PROVE FALSE
    BY <1>3, <1>4, <1>6 DEF SubmitBatchPayment, MayAsk
  <1>7. ASSUME NEW p \in Request, BuildAirdrop(p) PROVE FALSE
    <2>1. req[p].pc # "send"
      BY <1>7 DEF BuildAirdrop, MayAsk
    <2>2. PICK members \in SUBSET (Account \ {Issuer}) : \E pays \in SetToSeqs(members) :
            IF ValidBatch(pays)
            THEN Await(p, Issuer, Ask("buildAirdrop", Issuer, pays, NoBounds))
            ELSE Invalid(p)
      BY <1>7, Zenon DEF BuildAirdrop
    <2>3. QED
      BY <1>3, <1>4, <2>1, <2>2, Zenon
  <1>8. ASSUME NEW p \in Request, Turn(p) PROVE FALSE
    <2>1. \A x \in Request : x # p => req'[x] = req[x]
      BY <1>8 DEF Turn, PaymentInv
    <2>2. req[p].pc = "queued"
      BY <1>8 DEF Turn
    <2>3. QED
      BY <2>1, <2>2
  <1>9. ASSUME NEW p \in Request, NEW window, NEW since, req[p].pc = "load", Built(p, window, since)
        PROVE  FALSE
    <2>1. \A x \in Request : x # p => req'[x] = req[x]
      BY <1>9 DEF Built, PaymentInv
    <2>2. QED
      BY <1>9, <2>1
  <1>10. ASSUME NEW p \in Request,
                BuildIssuance(p) \/ BuildTimed(p) \/ BuildBatch(p) \/ BuildBounded(p)
         PROVE  FALSE
    BY <1>1, <1>9, <1>10 DEF BuildIssuance, BuildTimed, BuildBatch, BuildBounded, Builds
  <1>11. ASSUME NEW p \in Request, NEW route, HandsIn(p, route) PROVE FALSE
    <2>1. \A x \in Request : x # p => req'[x] = req[x]
      BY <1>11 DEF HandsIn, PaymentInv
    <2>2. req[p].pc = "wallet"
      BY <1>11 DEF HandsIn
    <2>3. QED
      BY <2>1, <2>2
  <1>12. ASSUME NEW p \in Request, LoadFails(p) \/ Fail(p) \/ Lost(p) \/ Answer(p) PROVE FALSE
    BY <1>1, <1>12 DEF LoadFails, Fail, Lost, Answer
  <1>13. ASSUME NEW p \in Request, Applied(p) PROVE FALSE
    <2>1. /\ req \in [Request -> Requests] /\ req' = [req EXCEPT ![p].pc = "evict"]
      BY <1>13 DEF Applied, PaymentInv
    <2>2. p # r
      <3>1. req[r] \in PaymentRecord
        BY RequestType
      <3>2. QED
        BY <2>1, <3>1 DEF PaymentRecord
    <2>3. QED
      BY <2>1, <2>2
  <1>14. ASSUME NEW p \in Request, Busy(p) PROVE FALSE
    <2>1. CASE End(p, "unknown")
      BY <1>1, <2>1
    <2>2. CASE req' = [req EXCEPT ![p].sends = @ + 1]
      <3>1. req[p] \in PaymentRecord /\ req \in [Request -> Requests]
        BY RequestType DEF PaymentInv
      <3>2. req'[r].pc = req[r].pc
        BY <2>2, <3>1 DEF PaymentRecord
      <3>3. QED
        BY <3>2
    <2>3. QED
      BY <1>14, <2>1, <2>2 DEF Busy
  <1>15. ASSUME NEW p \in Request, Refused(p) PROVE p = r
    <2>1. PICK q : req' = [req EXCEPT ![p] = q]
      BY <1>15 DEF Refused
    <2>2. QED
      BY <2>1 DEF PaymentInv
  <1>16. ASSUME NEW p \in Request, Proceeds(p) PROVE p = r /\ Refused(r)
    BY <1>7, <1>8, <1>10, <1>11, <1>12, <1>13, <1>14, <1>15, <1>16
    DEF Proceeds, WalletSubmits, WalletTransfers, SubmitFeeBump
  <1>17. ~Tick
    BY DEF Tick
  <1>18. QED
    BY <1>5, <1>6, <1>16, <1>17, NextSplit, Zenon

\* A transaction takes effect within the window its caller stated, or within a period of
\* the resolution of its window, however long it waited for its turn, for Horizon or for
\* the wallet (applyTimeBounds, withAccount).
THEOREM InWindow == Spec => AppliedInWindow
  <1>1. ASSUME PaymentInv, Next, <<holds, locked>>' # <<holds, locked>>,
               NEW r \in Request, req'[r] # req[r]
        PROVE  LET b == req[r].bounds
               IN  /\ b.min # {} => now >= The(b.min)
                   /\ b.max # {} => The(b.max) = 0 \/ now <= The(b.max)
                   /\ b.max = {} => now <= req[r].since + Timeout
    <2>1. req[r].pc = "send" /\ Apply(r)
      BY <1>1, OnlySentApplies
    <2>2. Timed(req[r]) /\ req[r].since \in Nat /\ req[r].bounds \in Bound
      BY <1>1, <2>1, RequestType DEF Sound, HasWindow, PaymentRecord
    <2>3. req[r].window.lo <= now /\ (req[r].window.hi = 0 \/ now <= req[r].window.hi)
      BY <2>1 DEF Apply, Includes
    <2>4. now \in Nat /\ req[r].since + Timeout # 0
      BY <1>1, <2>2, TimeoutAssumption DEF PaymentInv
    <2>5. req[r].bounds.min # {} => The(req[r].bounds.min) \in Int
      BY <2>2, BoundType
    <2>6. req[r].bounds.min # {} => now >= The(req[r].bounds.min)
      BY <2>2, <2>3, <2>4, <2>5 DEF Timed
    <2>7. /\ req[r].bounds.max # {} => The(req[r].bounds.max) = 0 \/ now <= The(req[r].bounds.max)
          /\ req[r].bounds.max = {} => now <= req[r].since + Timeout
      BY <2>2, <2>3, <2>4 DEF Timed
    <2>8. QED
      BY <2>6, <2>7
  <1>2. PaymentInv /\ [Next]_vars =>
          [\A r \in Request :
             <<holds, locked>>' # <<holds, locked>> /\ req'[r] # req[r] =>
               LET b == req[r].bounds
               IN  /\ b.min # {} => now >= The(b.min)
                   /\ b.max # {} => The(b.max) = 0 \/ now <= The(b.max)
                   /\ b.max = {} => now <= req[r].since + Timeout]_vars
    BY <1>1, Zenon
  <1>3. QED
    BY <1>2, Invariance, PTL DEF Spec, AppliedInWindow

\* A batch of any length that is refused for its payments is answered with the entry that
\* what the accounts held was not enough for, though it was for the entries before it; one
\* that is refused as a whole is answered without an entry (attributeFailure).
THEOREM BatchesBlameTheCause == Spec => BlamesTheCause
  <1> DEFINE Rightly(r) ==
        req[r].kind = "submitBatchPayment" /\ req[r].pc = "send" /\ req'[r].pc = "refused" =>
          LET entry == req'[r].blame
          IN  IF req'[r].codes = <<>> THEN entry = 0
              ELSE /\ entry \in DOMAIN req[r].pays
                   /\ ~Affordable(r, entry)
                   /\ entry > 1 => Affordable(r, entry - 1)
  <1>1. ASSUME PaymentInv, Next, NEW r \in Request,
               req[r].kind = "submitBatchPayment", req[r].pc = "send", req'[r].pc = "refused"
        PROVE  LET entry == req'[r].blame
               IN  IF req'[r].codes = <<>> THEN entry = 0
                   ELSE /\ entry \in DOMAIN req[r].pays
                        /\ ~Affordable(r, entry)
                        /\ entry > 1 => Affordable(r, entry - 1)
    <2>1. Refused(r)
      BY <1>1, RefusesOnly
    <2>2. PICK codes \in Reports(r) :
            req' = [req EXCEPT ![r] = [New EXCEPT !.pc = "refused", !.codes = codes,
                                                  !.blame = Blame(r, codes)]]
      BY <2>1 DEF Refused
    <2>3. req'[r].codes = codes /\ req'[r].blame = Blame(r, codes)
      BY <1>1, <2>2 DEF New, PaymentInv
    <2> DEFINE pays == req[r].pays
    <2>4. /\ holds \in Held /\ pays \in Payees /\ req[r].from \in Account
          /\ codes \in Codes
          /\ codes # <<>> => ~Succeeds(codes) /\ codes = Outcome(r).codes
          /\ codes = <<>> => Blame(r, codes) = 0
      BY <1>1, RequestType, ReportType DEF PaymentInv, PaymentRecord
    <2>5. ASSUME codes # <<>>
          PROVE  /\ Blame(r, codes) \in DOMAIN pays
                 /\ ~Affordable(r, Blame(r, codes))
                 /\ Blame(r, codes) > 1 => Affordable(r, Blame(r, codes) - 1)
      <3>1. Outcome(r).codes =
              [i \in 1..Len(pays) |-> PayCode(Holdings(r)[i - 1], req[r].from, pays[i])]
        BY <1>1 DEF Outcome
      <3>2. /\ DOMAIN codes = 1..Len(pays) /\ Len(codes) \in Nat /\ DOMAIN codes = 1..Len(codes)
            /\ Len(pays) \in Nat /\ DOMAIN pays = 1..Len(pays)
        BY <2>4, <2>5, <3>1 DEF Codes, Payees
      <3>3. \A i \in 1..Len(pays) :
              codes[i] = PayCode(Holdings(r)[i - 1], req[r].from, pays[i])
        BY <2>4, <2>5, <3>1
      <3> DEFINE n == FailedAt(codes)
      <3>4. /\ n \in 1..Len(codes) /\ codes[n] # "op_success"
            /\ \A j \in 1..(n - 1) : codes[j] = "op_success"
        BY <2>4, <2>5, FirstFailure
      <3> HIDE DEF n
      <3>5. n \in 1..Len(pays)
        BY <3>2, <3>4
      <3>6. Blame(r, codes) = n
        BY <1>1, <3>2, <3>5 DEF Blame, n
      <3>7. \A i \in 1..(n - 1) : i \in 1..Len(pays)
        BY <3>2, <3>5
      <3>8. ~Affordable(r, n) /\ (n > 1 => Affordable(r, n - 1))
        BY <2>4, <3>3, <3>4, <3>5, <3>7, CauseOfFailure
      <3>9. QED
        BY <3>2, <3>5, <3>6, <3>8
    <2>6. QED
      BY <2>3, <2>4, <2>5
  <1>2. PaymentInv /\ [Next]_vars => [\A r \in Request : Rightly(r)]_vars
    BY <1>1, Zenon
  <1>3. QED
    BY <1>2, Invariance, PTL DEF Spec, BlamesTheCause

\* A payment that is answered with success evicts the cached balance of every account
\* whose holdings it changed, however many payments it made (invalidateBalanceCache),
\* but for the routes that a wallet's transaction may take without eviction.
THEOREM WhatChangedIsEvicted == Spec => ChangedAreEvicted
  <1>1. ASSUME PaymentInv, Next, NEW r \in Request, req[r].pc = "send", req'[r].pc = "evict",
               req[r].kind \notin {"submit", "bumped", "sponsored"}
        PROVE  {a \in Account : holds'[a] # holds[a]} \subseteq Evicted(r)
    <2>1. CASE <<holds, locked>>' = <<holds, locked>>
      BY <2>1
    <2>2. CASE <<holds, locked>>' # <<holds, locked>>
      <3>1. Apply(r) /\ holds' = Outcome(r).holds
        BY <1>1, <2>2, OnlySentApplies DEF Apply
      <3>2. holds \in Units /\ req[r].pays \in Payees /\ Sound(req[r])
        BY <1>1, RequestType DEF PaymentInv, PaymentRecord, Held, Units
      <3>3. /\ req[r].kind = "createClaimable" =>
                 \A a \in Account \ {req[r].from} : holds'[a] = holds[a]
            /\ \A a \in Account \ ({req[r].from} \cup Paid(r)) : holds'[a] = holds[a]
            /\ req[r].kind = "manageData" => holds' = holds
        BY <3>1, <3>2, OutcomeType DEF Sound
      <3>4. CASE req[r].kind = "createClaimable"
        BY <3>3, <3>4 DEF Evicted
      <3>5. CASE req[r].kind = "manageData"
        BY <3>3, <3>5
      <3>6. CASE req[r].kind \notin {"createClaimable", "manageData"}
        <4>1. Evicted(r) = {req[r].from} \cup Paid(r)
          BY <1>1, <3>6 DEF Evicted, Paid
        <4>2. QED
          BY <3>3, <4>1
      <3>7. QED
        BY <3>4, <3>5, <3>6
    <2>3. QED
      BY <2>1, <2>2
  <1>2. PaymentInv /\ [Next]_vars => [ChangesOnlyEvicted({"submit", "bumped", "sponsored"})]_vars
    BY <1>1 DEF ChangesOnlyEvicted
  <1>3. QED
    BY <1>2, Invariance, PTL DEF Spec, ChangedAreEvicted

-----------------------------------------------------------------------------
(* Trustlines: what a request relies on *)

Authorization == Trust!AuthFlags
TrustLine == [limit : Int, balance : Nat, offers : Nat, auth : Authorization]
Flags == SUBSET {"maintain", "full"}
Operator == {"changeTrust", "setTrustLineFlags"}
Operation == [op : Operator, limit : Int, set : Flags, clear : Flags]
TrustPlace == {"new", "read", "queued", "send", "wallet", "done"}
TrustKind == {"none", "establish", "revoke", "unsigned", "authorize", "deauthorize"}
TrustCodes == {"op_success", "op_invalid_limit", "op_no_trust_line", "op_invalid_state"}
TrustReply == TrustCodes \cup {"none", "404", "409", "unknown", "ok", "tx_refused"}
Seen == SUBSET TrustLine
TrustRecord == [pc : TrustPlace, kind : TrustKind, does : Operation, seen : Seen,
                answer : TrustReply]

\* At most one line.
OneLine == line = {} \/ \E l \in TrustLine : line = {l}

\* A revocation asks to remove the line; once past its checks it has seen one that
\* nothing keeps alive.
Revokes(q) ==
  q.kind = "revoke" =>
    /\ q.does.op = "changeTrust" /\ q.does.limit = 0
    /\ q.pc \in {"read", "queued", "send", "done"}
    /\ q.pc \in {"queued", "send"} => Trust!Revocable(q.seen)

Changes == {q \in TrustRecord : Revokes(q)}

TrustInv == OneLine /\ change \in [Change -> Changes]

\* The checks of revokeTrustline look at what the ledger looks at.
LEMMA RevocableIsAccepted ==
  ASSUME OneLine
  PROVE  Trust!Revocable(line) <=> Trust!TrustCode(0) = "op_success"
  <1>1. CASE line = {}
    BY <1>1 DEF Trust!Revocable, Trust!TrustCode
  <1>2. ASSUME NEW l \in TrustLine, line = {l}
        PROVE  Trust!Revocable(line) <=> Trust!TrustCode(0) = "op_success"
    <2>1. Trust!Line = l /\ l.balance \in Nat /\ l.offers \in Nat
      BY <1>2 DEF Trust!Line, TrustLine
    <2>2. Trust!Revocable(line) <=> l.balance = 0 /\ l.offers = 0
      BY <1>2 DEF Trust!Revocable
    <2>3. Trust!TrustCode(0) = "op_success" <=> ~ (0 < l.balance + l.offers)
      BY <1>2, <2>1 DEF Trust!TrustCode
    <2>4. QED
      BY <2>1, <2>2, <2>3
  <1>3. QED
    BY <1>1, <1>2 DEF OneLine

LEMMA TrustNewIsSound ==
  ASSUME NEW kind \in TrustKind, NEW does \in Operation, NEW pc \in TrustPlace,
         kind = "revoke" => does.op = "changeTrust" /\ does.limit = 0 /\ pc = "read"
  PROVE  [Trust!New EXCEPT !.kind = kind, !.does = does, !.pc = pc] \in Changes
  <1>1. Trust!New \in TrustRecord
    <2>1. /\ "new" \in TrustPlace /\ "none" \in TrustKind /\ {} \in Seen /\ "none" \in TrustReply
          /\ Trust!ChangeTrust(0) \in Operation
      BY DEF TrustPlace, TrustKind, Seen, TrustReply, Trust!ChangeTrust, Operation, Operator, Flags
    <2>2. QED
      BY <2>1 DEF Trust!New, TrustRecord
  <1> DEFINE q == [Trust!New EXCEPT !.kind = kind, !.does = does, !.pc = pc]
  <1>2. q \in TrustRecord /\ q.kind = kind /\ q.does = does /\ q.pc = pc
    BY <1>1 DEF TrustRecord
  <1> HIDE DEF q
  <1>3. Revokes(q)
    BY <1>2 DEF Revokes
  <1>4. QED
    BY <1>2, <1>3 DEF Changes, q

LEMMA InitTrust == Trust!Init => TrustInv
  <1> SUFFICES ASSUME Trust!Init PROVE TrustInv
    OBVIOUS
  <1>1. OneLine
    <2>1. Trust!Lines \subseteq TrustLine
      BY DEF Trust!Lines, TrustLine, Authorization
    <2>2. QED
      BY <2>1 DEF Trust!Init, OneLine
  <1>2. Trust!New \in Changes
    <2>1. /\ "new" \in TrustPlace /\ "none" \in TrustKind /\ {} \in Seen /\ "none" \in TrustReply
          /\ Trust!ChangeTrust(0) \in Operation
      BY DEF TrustPlace, TrustKind, Seen, TrustReply, Trust!ChangeTrust, Operation, Operator, Flags
    <2>2. Trust!New \in TrustRecord /\ Trust!New.kind = "none"
      BY <2>1 DEF Trust!New, TrustRecord
    <2>3. QED
      BY <2>2 DEF Changes, Revokes
  <1>3. QED
    BY <1>1, <1>2 DEF Trust!Init, TrustInv

LEMMA OneChange ==
  ASSUME TrustInv, NEW r \in Change, NEW q \in Changes, change' = [change EXCEPT ![r] = q],
         OneLine'
  PROVE  TrustInv'
  BY DEF TrustInv

LEMMA ChangeType ==
  ASSUME TrustInv, NEW r \in Change
  PROVE  change[r] \in TrustRecord /\ Revokes(change[r])
  BY DEF TrustInv, Changes

LEMMA TrustStartStep ==
  ASSUME TrustInv, NEW r \in Change, NEW kind \in TrustKind, NEW does \in Operation,
         NEW pc \in TrustPlace, Trust!Start(r, kind, does, pc),
         kind = "revoke" => does.op = "changeTrust" /\ does.limit = 0 /\ pc = "read"
  PROVE  TrustInv'
  BY TrustNewIsSound, OneChange DEF Trust!Start, TrustInv, OneLine

LEMMA TrustCallStep ==
  ASSUME TrustInv, NEW r \in Change,
         \/ \E limit \in 1..MaxLimit : \/ Trust!EstablishTrustline(r, limit)
                                       \/ Trust!BuildUnsignedTrustline(r, limit)
         \/ Trust!RevokeTrustline(r) \/ Trust!AuthorizeTrustline(r)
         \/ \E keep \in BOOLEAN : Trust!RevokeTrustlineAuthorization(r, keep)
  PROVE  TrustInv'
  <1>1. \A limit \in Int : /\ Trust!ChangeTrust(limit) \in Operation
                           /\ Trust!ChangeTrust(limit).op = "changeTrust"
                           /\ Trust!ChangeTrust(limit).limit = limit
    BY DEF Trust!ChangeTrust, Operation, Operator, Flags
  <1>2. \A set, clear \in Flags : Trust!SetFlags(set, clear) \in Operation
    BY DEF Trust!SetFlags, Operation, Operator
  <1>3. /\ "queued" \in TrustPlace /\ "wallet" \in TrustPlace /\ "read" \in TrustPlace
        /\ "send" \in TrustPlace
        /\ "establish" \in TrustKind /\ "unsigned" \in TrustKind /\ "revoke" \in TrustKind
        /\ "authorize" \in TrustKind /\ "deauthorize" \in TrustKind
    BY DEF TrustPlace, TrustKind
  <1>4. ASSUME NEW limit \in 1..MaxLimit,
               Trust!EstablishTrustline(r, limit) \/ Trust!BuildUnsignedTrustline(r, limit)
        PROVE  TrustInv'
    <2>1. limit \in Int
      OBVIOUS
    <2>2. QED
      BY <1>1, <1>3, <1>4, <2>1, TrustStartStep
      DEF Trust!EstablishTrustline, Trust!BuildUnsignedTrustline
  <1>5. CASE Trust!RevokeTrustline(r)
    BY <1>1, <1>3, <1>5, TrustStartStep DEF Trust!RevokeTrustline
  <1>6. ASSUME NEW kind \in {"authorize", "deauthorize"}, NEW set \in Flags, NEW clear \in Flags,
               Trust!SetTrustlineFlags(r, kind, set, clear)
        PROVE  TrustInv'
    BY <1>2, <1>3, <1>6, TrustStartStep DEF Trust!SetTrustlineFlags
  <1>7. {} \in Flags /\ {"full"} \in Flags /\ {"maintain"} \in Flags /\ {"full", "maintain"} \in Flags
    BY DEF Flags
  <1>8. QED
    BY <1>4, <1>5, <1>6, <1>7 DEF Trust!AuthorizeTrustline, Trust!RevokeTrustlineAuthorization

\* A request goes on to another place, having seen what it has seen.
LEMMA TrustGoStep ==
  ASSUME TrustInv, NEW r \in Change, NEW pc \in TrustPlace,
         change' = [change EXCEPT ![r].pc = pc], line' = line,
         change[r].kind = "revoke" => pc = "send" /\ change[r].pc = "queued"
  PROVE  TrustInv'
  <1> DEFINE q == [change[r] EXCEPT !.pc = pc]
  <1>1. change[r] \in TrustRecord /\ Revokes(change[r])
    BY ChangeType
  <1>2. change' = [change EXCEPT ![r] = q]
    OBVIOUS
  <1>3. /\ q \in TrustRecord /\ q.pc = pc /\ q.kind = change[r].kind /\ q.does = change[r].does
        /\ q.seen = change[r].seen
    BY <1>1 DEF TrustRecord
  <1> HIDE DEF q
  <1>4. Revokes(q)
    BY <1>1, <1>3 DEF Revokes
  <1>5. QED
    BY <1>2, <1>3, <1>4, OneChange DEF Changes, TrustInv, OneLine

LEMMA TrustEndStep ==
  ASSUME TrustInv, NEW r \in Change, NEW answer \in TrustReply, Trust!End(r, answer), OneLine'
  PROVE  TrustInv'
  <1> DEFINE q == [change[r] EXCEPT !.pc = "done", !.answer = answer]
  <1>1. change[r] \in TrustRecord /\ Revokes(change[r]) /\ "done" \in TrustPlace
    BY ChangeType DEF TrustPlace
  <1>2. change' = [change EXCEPT ![r] = q]
    BY DEF Trust!End
  <1>3. /\ q \in TrustRecord /\ q.pc = "done" /\ q.kind = change[r].kind
        /\ q.does = change[r].does
    BY <1>1 DEF TrustRecord
  <1> HIDE DEF q
  <1>4. Revokes(q)
    BY <1>1, <1>3 DEF Revokes
  <1>5. QED
    BY <1>2, <1>3, <1>4, OneChange DEF Changes

LEMMA PreflightStep ==
  ASSUME TrustInv, NEW r \in Change, Trust!Preflight(r)
  PROVE  TrustInv'
  <1>1. "404" \in TrustReply /\ "409" \in TrustReply /\ "queued" \in TrustPlace /\ OneLine'
    BY DEF TrustReply, TrustPlace, Trust!Preflight, TrustInv, OneLine
  <1>2. CASE ~ Trust!Revocable(line)
    BY <1>1, <1>2, TrustEndStep DEF Trust!Preflight
  <1>3. CASE Trust!Revocable(line)
    <2> DEFINE q == [change[r] EXCEPT !.pc = "queued", !.seen = line]
    <2>1. /\ change[r] \in TrustRecord /\ Revokes(change[r])
          /\ line \in Seen
      BY ChangeType DEF TrustInv, OneLine, Seen
    <2>2. change' = [change EXCEPT ![r] = q]
      BY <1>3 DEF Trust!Preflight
    <2>3. /\ q \in TrustRecord /\ q.pc = "queued" /\ q.kind = change[r].kind
          /\ q.does = change[r].does /\ q.seen = line
      BY <1>1, <2>1 DEF TrustRecord
    <2> HIDE DEF q
    <2>4. Revokes(q)
      BY <1>3, <2>1, <2>3 DEF Revokes
    <2>5. QED
      BY <1>1, <2>2, <2>3, <2>4, OneChange DEF Changes
  <1>4. QED
    BY <1>2, <1>3

\* What the ledger applies leaves at most one line.
LEMMA ApplyKeepsOneLine ==
  ASSUME OneLine, NEW does \in Operation, Trust!Apply(does)
  PROVE  OneLine'
  <1>1. CASE does.op = "changeTrust"
    <2> DEFINE limit == does.limit
    <2>1. limit \in Int /\ line' = Trust!Trusted(limit)
      BY <1>1 DEF Operation, Trust!Apply
    <2> HIDE DEF limit
    <2>2. CASE limit = 0
      BY <2>1, <2>2 DEF Trust!Trusted, OneLine
    <2>3. CASE limit # 0 /\ line = {}
      <3> DEFINE l == [limit |-> limit, balance |-> 0, offers |-> 0, auth |-> {"full"}]
      <3>1. l \in TrustLine
        BY <2>1 DEF TrustLine, Authorization, Trust!AuthFlags
      <3>2. line' = {l}
        BY <2>1, <2>3 DEF Trust!Trusted
      <3>3. QED
        BY <3>1, <3>2 DEF OneLine
    <2>4. ASSUME limit # 0, NEW k \in TrustLine, line = {k}
          PROVE  OneLine'
      <3> DEFINE l == [k EXCEPT !.limit = limit]
      <3>1. l \in TrustLine
        BY <2>1 DEF TrustLine
      <3>2. Trust!Line = k
        BY <2>4 DEF Trust!Line
      <3>3. line' = {l}
        BY <2>1, <2>4, <3>2 DEF Trust!Trusted
      <3>4. QED
        BY <3>1, <3>3 DEF OneLine
    <2>5. QED
      BY <2>2, <2>3, <2>4 DEF OneLine
  <1>2. CASE does.op # "changeTrust"
    <2>1. /\ line' = Trust!Flagged(does.set, does.clear)
          /\ Trust!FlagsCode(does.set, does.clear) = "op_success"
      BY <1>2 DEF Trust!Apply, Trust!Code
    <2>2. PICK k \in TrustLine : line = {k}
      BY <2>1 DEF OneLine, Trust!FlagsCode
    <2>3. Trust!Line = k
      BY <2>2 DEF Trust!Line
    <2> DEFINE auth == (k.auth \ does.clear) \cup does.set
               offers == IF auth = {} THEN 0 ELSE k.offers
               l == [k EXCEPT !.auth = auth, !.offers = offers]
    <2>4. auth \in Authorization
      BY <2>1, <2>2, <2>3 DEF Trust!FlagsCode, Authorization
    <2>5. line' = {l}
      BY <2>1, <2>2, <2>3 DEF Trust!Flagged, TrustLine
    <2>6. offers \in Nat
      BY DEF TrustLine
    <2> HIDE DEF auth, offers
    <2>7. l \in TrustLine
      BY <2>4, <2>6 DEF TrustLine
    <2>8. QED
      BY <2>5, <2>7 DEF OneLine
  <1>3. QED
    BY <1>1, <1>2

LEMMA CodeIsReply == \A does : Trust!Code(does) \in TrustCodes /\ Trust!Code(does) \in TrustReply
  BY DEF Trust!Code, Trust!TrustCode, Trust!FlagsCode, TrustCodes, TrustReply

LEMMA TrustSubmitStep ==
  ASSUME TrustInv, NEW r \in Change,
         Trust!Applied(r) \/ Trust!Refused(r) \/ Trust!Lost(r) \/ Trust!LoadFails(r)
  PROVE  TrustInv'
  <1>1. /\ "ok" \in TrustReply /\ "tx_refused" \in TrustReply /\ "unknown" \in TrustReply
        /\ OneLine /\ change[r].does \in Operation
    BY ChangeType DEF TrustReply, TrustInv, TrustRecord
  <1>2. line' = line => OneLine'
    BY <1>1 DEF OneLine
  <1>3. Trust!Apply(change[r].does) => OneLine'
    BY <1>1, ApplyKeepsOneLine
  <1>4. CASE Trust!Applied(r) \/ Trust!Lost(r)
    BY <1>1, <1>2, <1>3, <1>4, TrustEndStep DEF Trust!Applied, Trust!Lost
  <1>5. CASE Trust!Refused(r) \/ Trust!LoadFails(r)
    BY <1>1, <1>2, <1>5, CodeIsReply, TrustEndStep DEF Trust!Refused, Trust!LoadFails
  <1>6. QED
    BY <1>4, <1>5

LEMMA MoveStep ==
  ASSUME TrustInv, Trust!Move
  PROVE  TrustInv'
  <1>1. PICK l \in Trust!Lines : line' = {l}
    BY DEF Trust!Move
  <1>2. l \in TrustLine
    BY DEF Trust!Lines, TrustLine, Authorization
  <1>3. QED
    BY <1>1, <1>2 DEF Trust!Move, TrustInv, OneLine

LEMMA NextTrust == TrustInv /\ [Trust!Next]_(Trust!vars) => TrustInv'
  <1> SUFFICES ASSUME TrustInv, [Trust!Next]_(Trust!vars) PROVE TrustInv'
    OBVIOUS
  <1>1. CASE UNCHANGED Trust!vars
    BY <1>1 DEF Trust!vars, TrustInv, OneLine
  <1>2. ASSUME NEW r \in Change, Trust!Turn(r) \/ Trust!WalletSends(r)
        PROVE  TrustInv'
    <2>1. "send" \in TrustPlace
      BY DEF TrustPlace
    <2>2. change[r].kind = "revoke" => change[r].pc # "wallet"
      BY ChangeType DEF Revokes
    <2>3. QED
      BY <1>2, <2>1, <2>2, TrustGoStep DEF Trust!Turn, Trust!WalletSends
  <1>3. QED
    BY <1>1, <1>2, TrustCallStep, PreflightStep, TrustSubmitStep, MoveStep DEF Trust!Next

\* The checks before a revocation are those of the ledger (revokeTrustline): what passes
\* them is refused for its limit only if the line has changed meanwhile, and what fails
\* them would have been refused.
THEOREM PreflightIsTheLedgers == Trust!Spec => PreflightIsExact
  <1> DEFINE Exact(r) ==
               change[r].kind = "revoke" /\ change'[r].pc = "done" /\ change[r].pc # "done" =>
                 /\ change'[r].answer = "op_invalid_limit" => line # change[r].seen
                 /\ change'[r].answer \in {"404", "409"} => Trust!TrustCode(0) # "op_success"
  <1>1. ASSUME TrustInv, Trust!Next, NEW r \in Change
        PROVE  Exact(r)
    <2>1. SUFFICES ASSUME change[r].kind = "revoke", change'[r].pc = "done", change[r].pc # "done"
                   PROVE  Exact(r)
      BY <2>1
    <2>2. /\ change \in [Change -> Changes]
          /\ change[r] \in TrustRecord /\ Revokes(change[r]) /\ OneLine
      BY <1>1, ChangeType DEF TrustInv
    <2>3. ASSUME NEW answer, Trust!End(r, answer) PROVE change'[r].answer = answer
      BY <2>2, <2>3 DEF Trust!End, TrustRecord
    <2>4. \/ Trust!Preflight(r) /\ ~ Trust!Revocable(line)
          \/ Trust!Applied(r) \/ Trust!Refused(r) \/ Trust!Lost(r) \/ Trust!LoadFails(r)
      <3>1. ASSUME NEW p \in Change, NEW kind, NEW does, NEW pc, pc # "done",
                   Trust!Start(p, kind, does, pc)
            PROVE  FALSE
        <4>1. CASE p = r
          BY <2>1, <2>2, <3>1, <4>1 DEF Trust!Start, Trust!New
        <4>2. CASE p # r
          BY <2>1, <2>2, <3>1, <4>2 DEF Trust!Start
        <4>3. QED
          BY <4>1, <4>2
      <3>2. ASSUME NEW p \in Change, NEW kind, NEW set, NEW clear,
                   Trust!SetTrustlineFlags(p, kind, set, clear)
            PROVE  FALSE
        BY <3>1, <3>2, Zenon DEF Trust!SetTrustlineFlags
      <3>3. ASSUME NEW p \in Change, NEW limit,
                   \/ Trust!EstablishTrustline(p, limit) \/ Trust!BuildUnsignedTrustline(p, limit)
                   \/ Trust!RevokeTrustline(p) \/ Trust!AuthorizeTrustline(p)
                   \/ Trust!RevokeTrustlineAuthorization(p, limit)
            PROVE  FALSE
        BY <3>1, <3>2, <3>3
        DEF Trust!EstablishTrustline, Trust!BuildUnsignedTrustline, Trust!RevokeTrustline,
            Trust!AuthorizeTrustline, Trust!RevokeTrustlineAuthorization
      <3>4. ASSUME NEW p \in Change, Trust!Turn(p) \/ Trust!WalletSends(p)
            PROVE  FALSE
        BY <2>1, <2>2, <3>4 DEF Trust!Turn, Trust!WalletSends, TrustRecord
      <3>5. ~ Trust!Move
        BY <2>1 DEF Trust!Move
      <3>6. PICK p \in Change : \/ Trust!Preflight(p) \/ Trust!Applied(p) \/ Trust!Refused(p)
                                \/ Trust!Lost(p) \/ Trust!LoadFails(p)
        BY <1>1, <3>3, <3>4, <3>5, Zenon DEF Trust!Next
      <3>7. p = r
        BY <2>1, <2>2, <3>6
        DEF Trust!Preflight, Trust!Applied, Trust!Refused, Trust!Lost, Trust!LoadFails, Trust!End
      <3>8. ~ (Trust!Preflight(r) /\ Trust!Revocable(line))
        BY <2>1, <2>2 DEF Trust!Preflight, TrustRecord
      <3>9. QED
        BY <3>6, <3>7, <3>8
    <2>5. CASE Trust!Preflight(r) /\ ~ Trust!Revocable(line)
      <3>1. change'[r].answer \in {"404", "409"}
        BY <2>3, <2>5 DEF Trust!Preflight
      <3>2. QED
        BY <2>2, <2>5, <3>1, RevocableIsAccepted
    <2>6. CASE Trust!Refused(r)
      <3>1. change[r].does.op = "changeTrust" /\ change[r].does.limit = 0
            /\ Trust!Revocable(change[r].seen)
        BY <2>1, <2>2, <2>6 DEF Revokes, Trust!Refused
      <3>2. \/ change'[r].answer = Trust!TrustCode(0) /\ Trust!TrustCode(0) # "op_success"
            \/ change'[r].answer = "tx_refused"
        BY <2>3, <2>6, <3>1 DEF Trust!Refused, Trust!Code
      <3>3. Trust!TrustCode(0) \in TrustCodes
        BY DEF Trust!TrustCode, TrustCodes
      <3>4. QED
        BY <2>2, <3>1, <3>2, <3>3, RevocableIsAccepted DEF TrustCodes
    <2>7. CASE Trust!Applied(r) \/ Trust!Lost(r) \/ Trust!LoadFails(r)
      BY <2>3, <2>7 DEF Trust!Applied, Trust!Lost, Trust!LoadFails
    <2>8. QED
      BY <2>4, <2>5, <2>6, <2>7
  <1>2. TrustInv /\ [Trust!Next]_(Trust!vars) => [\A r \in Change : Exact(r)]_(Trust!vars)
    BY <1>1
  <1>3. QED
    BY <1>2, InitTrust, NextTrust, PTL DEF Trust!Spec, PreflightIsExact, Trust!PreflightIsExact

-----------------------------------------------------------------------------
(* The recorded supply: what is read is written before the next submission *)

SupplyPlace == {"new", "submit", "read", "update", "done"}
SupplyKind == {"issue", "burn"}
SupplyAnswer == {"none", "ok", "refused", "unavailable", "invalid"}
SupplyRecord == [pc : SupplyPlace, kind : SupplyKind, refresh : BOOLEAN, applied : BOOLEAN,
                 read : Int, answer : SupplyAnswer]

\* A submission that is not answered yet holds no answer, and what it has read is still
\* the ledger's supply.
Fresh(q) ==
  /\ submission[q].pc # "done" => submission[q].answer = "none"
  /\ submission[q].pc = "update" => submission[q].read = supply

AtMostOneOpen == \A p, q \in Supply!Open : p = q

SupplyInv ==
  /\ supply \in Int /\ row \in Int
  /\ submission \in [Submission -> SupplyRecord]
  /\ AtMostOneOpen
  /\ \A q \in Submission : Fresh(q)

LEMMA InitSupply == Supply!Init => SupplyInv
  <1> SUFFICES ASSUME Supply!Init PROVE SupplyInv
    OBVIOUS
  <1>1. Supply!New \in SupplyRecord /\ Supply!New.pc = "new" /\ Supply!New.answer = "none"
    BY DEF Supply!New, SupplyRecord, SupplyPlace, SupplyKind, SupplyAnswer
  <1>2. submission = [q \in Submission |-> Supply!New] /\ supply \in Int /\ row \in Int
    BY DEF Supply!Init
  <1>3. AtMostOneOpen /\ \A q \in Submission : Fresh(q)
    BY <1>1, <1>2 DEF AtMostOneOpen, Supply!Open, Fresh
  <1>4. QED
    BY <1>1, <1>2, <1>3 DEF SupplyInv

LEMMA SameCardinality == \A S : Supply!Cardinality(S) = Cardinality(S)
  BY Zenon DEF Supply!Cardinality, Cardinality

\* A submission is received when none is open.
LEMMA NoneOpen ==
  ASSUME MaxOpen = 1, AtMostOneOpen, Cardinality(Supply!Open) < MaxOpen
  PROVE  Supply!Open = {}
  <1>1. SUFFICES ASSUME NEW q \in Supply!Open PROVE FALSE
    OBVIOUS
  <1>2. Supply!Open = {q}
    BY DEF AtMostOneOpen
  <1>3. Cardinality({q}) = 1
    BY FS_Singleton
  <1>4. QED
    BY <1>2, <1>3

\* The others are not touched, and what they have read stays as it is.
LEMMA OneSubmission ==
  ASSUME SupplyInv, NEW q \in Submission, NEW new \in SupplyRecord,
         submission' = [submission EXCEPT ![q] = new],
         supply' \in Int, row' \in Int,
         q \in Supply!Open \/ Supply!Open = {},
         new.pc # "done" => new.answer = "none",
         new.pc = "update" => new.read = supply'
  PROVE  SupplyInv'
  <1>1. submission \in [Submission -> SupplyRecord] /\ \A p \in Submission : Fresh(p)
    BY DEF SupplyInv
  <1>2. \A p \in Submission \ {q} : p \notin Supply!Open
    BY DEF SupplyInv, AtMostOneOpen
  <1>3. submission'[q] = new /\ \A p \in Submission \ {q} : submission'[p] = submission[p]
    BY <1>1
  <1>4. \A p \in Submission \ {q} : p \notin Supply!Open'
    BY <1>2, <1>3 DEF Supply!Open
  <1>5. AtMostOneOpen'
    BY <1>4 DEF AtMostOneOpen, Supply!Open
  <1>6. ASSUME NEW p \in Submission PROVE Fresh(p)'
    <2>1. CASE p = q
      BY <1>3, <2>1 DEF Fresh
    <2>2. CASE p # q
      BY <1>1, <1>2, <1>3, <2>2 DEF Fresh, Supply!Open
    <2>3. QED
      BY <2>1, <2>2
  <1>7. submission' \in [Submission -> SupplyRecord]
    BY <1>1
  <1>8. QED
    BY <1>5, <1>6, <1>7 DEF SupplyInv

LEMMA SupplyAnswerStep ==
  ASSUME SupplyInv, NEW q \in Supply!Open, NEW a \in SupplyAnswer, Supply!Answer(q, a),
         supply' \in Int, row' \in Int
  PROVE  SupplyInv'
  <1> DEFINE new == [submission[q] EXCEPT !.pc = "done", !.answer = a]
  <1>1. q \in Submission /\ submission[q] \in SupplyRecord /\ "done" \in SupplyPlace
    BY DEF Supply!Open, SupplyInv, SupplyPlace
  <1>2. new \in SupplyRecord /\ new.pc = "done"
    BY <1>1 DEF SupplyRecord
  <1>3. submission' = [submission EXCEPT ![q] = new]
    BY DEF Supply!Answer
  <1> HIDE DEF new
  <1>4. QED
    BY <1>1, <1>2, <1>3, OneSubmission

LEMMA SupplyReceiveStep ==
  ASSUME MaxOpen = 1, SupplyInv, NEW q \in Submission, Supply!Receive(q)
  PROVE  SupplyInv'
  <1>1. PICK kind \in {"issue", "burn"}, refresh \in BOOLEAN :
          submission' = [submission EXCEPT ![q] = [Supply!New EXCEPT !.pc = "submit",
                                                     !.kind = kind, !.refresh = refresh]]
    BY Zenon DEF Supply!Receive
  <1> DEFINE new == [Supply!New EXCEPT !.pc = "submit", !.kind = kind, !.refresh = refresh]
  <1>2. Supply!New \in SupplyRecord /\ Supply!New.answer = "none"
    BY DEF Supply!New, SupplyRecord, SupplyPlace, SupplyKind, SupplyAnswer
  <1>3. "submit" \in SupplyPlace /\ kind \in SupplyKind
    BY DEF SupplyPlace, SupplyKind
  <1>4. new \in SupplyRecord /\ new.pc = "submit" /\ new.answer = "none"
    BY <1>2, <1>3 DEF SupplyRecord
  <1> HIDE DEF new
  <1>5. Supply!Open = {}
    BY NoneOpen, SameCardinality DEF SupplyInv, Supply!Receive
  <1>6. supply' \in Int /\ row' \in Int
    BY DEF SupplyInv, Supply!Receive
  <1>7. QED
    BY <1>1, <1>4, <1>5, <1>6, OneSubmission DEF new

LEMMA SupplySubmitStep ==
  ASSUME SupplyInv, NEW q \in Submission, Supply!Submit(q) \/ Supply!Lose(q)
  PROVE  SupplyInv'
  <1>1. /\ q \in Supply!Open /\ submission[q] \in SupplyRecord /\ Fresh(q)
        /\ supply \in Int /\ row' \in Int /\ submission[q].pc = "submit"
    BY DEF SupplyInv, Supply!Open, Supply!Submit, Supply!Lose
  <1>2. Supply!Applies(q) => supply' \in Int
    BY <1>1 DEF Supply!Applies
  <1>3. /\ "read" \in SupplyPlace /\ "done" \in SupplyPlace
        /\ "none" \in SupplyAnswer /\ "ok" \in SupplyAnswer /\ "invalid" \in SupplyAnswer
    BY DEF SupplyPlace, SupplyAnswer
  <1>4. CASE Supply!Submit(q)
    <2> DEFINE place == IF submission[q].refresh THEN "read" ELSE "done"
               answer == IF submission[q].refresh THEN "none" ELSE "ok"
               new == [submission[q] EXCEPT !.applied = TRUE, !.pc = place, !.answer = answer]
    <2>1. /\ place \in SupplyPlace /\ answer \in SupplyAnswer
          /\ place # "done" => answer = "none"
          /\ place # "update"
      BY <1>3
    <2>2. submission' = [submission EXCEPT ![q] = new]
      BY <1>4 DEF Supply!Submit
    <2> HIDE DEF place, answer
    <2>3. new \in SupplyRecord /\ new.pc = place /\ new.answer = answer
      BY <1>1, <2>1 DEF SupplyRecord
    <2> HIDE DEF new
    <2>4. supply' \in Int
      BY <1>2, <1>4 DEF Supply!Submit
    <2>5. QED
      BY <1>1, <2>1, <2>2, <2>3, <2>4, OneSubmission
  <1>5. CASE Supply!Lose(q)
    <2>1. CASE /\ Supply!Applies(q)
               /\ submission' = [submission EXCEPT ![q].pc = "done", ![q].answer = "invalid",
                                                   ![q].applied = TRUE]
      <3> DEFINE new == [submission[q] EXCEPT !.pc = "done", !.answer = "invalid",
                                              !.applied = TRUE]
      <3>1. new \in SupplyRecord /\ new.pc = "done"
        BY <1>1, <1>3 DEF SupplyRecord
      <3>2. submission' = [submission EXCEPT ![q] = new] /\ supply' \in Int
        BY <1>2, <2>1
      <3> HIDE DEF new
      <3>3. QED
        BY <1>1, <3>1, <3>2, OneSubmission
    <2>2. CASE UNCHANGED supply /\ Supply!Answer(q, "invalid")
      BY <1>1, <1>3, <2>2, SupplyAnswerStep
    <2>3. QED
      BY <1>5, <2>1, <2>2 DEF Supply!Lose
  <1>6. QED
    BY <1>4, <1>5

LEMMA SupplyRecordStep ==
  ASSUME SupplyInv, NEW q \in Submission,
         \/ Supply!Refuse(q) \/ Supply!ReadSupply(q) \/ Supply!ReadFails(q)
         \/ Supply!UpdateRow(q) \/ Supply!UpdateFails(q)
  PROVE  SupplyInv'
  <1>1. /\ q \in Supply!Open /\ submission[q] \in SupplyRecord /\ Fresh(q)
        /\ supply \in Int /\ row \in Int /\ submission[q].read \in Int
    BY DEF SupplyInv, Supply!Open, Supply!Refuse, Supply!ReadSupply, Supply!ReadFails,
           Supply!UpdateRow, Supply!UpdateFails, SupplyRecord
  <1>2. SupplyAnswer = {"none", "ok", "refused", "unavailable", "invalid"}
    BY DEF SupplyAnswer
  <1>3. CASE Supply!ReadSupply(q)
    <2> DEFINE new == [submission[q] EXCEPT !.pc = "update", !.read = supply]
    <2>1. "update" \in SupplyPlace /\ submission[q].answer = "none"
      BY <1>1, <1>3 DEF SupplyPlace, Fresh, Supply!ReadSupply
    <2>2. /\ submission' = [submission EXCEPT ![q] = new]
          /\ supply' = supply /\ row' = row
      BY <1>3 DEF Supply!ReadSupply
    <2>3. new \in SupplyRecord /\ new.pc = "update" /\ new.read = supply /\ new.answer = "none"
      BY <1>1, <2>1 DEF SupplyRecord
    <2> HIDE DEF new
    <2>4. QED
      BY <1>1, <2>2, <2>3, OneSubmission
  <1>4. CASE Supply!Refuse(q) \/ Supply!ReadFails(q) \/ Supply!UpdateFails(q)
    BY <1>1, <1>2, <1>4, SupplyAnswerStep DEF Supply!Refuse, Supply!ReadFails, Supply!UpdateFails
  <1>5. CASE Supply!UpdateRow(q)
    BY <1>1, <1>2, <1>5, SupplyAnswerStep DEF Supply!UpdateRow
  <1>6. QED
    BY <1>3, <1>4, <1>5

LEMMA NextSupply ==
  ASSUME MaxOpen = 1
  PROVE  SupplyInv /\ [Supply!Next]_(Supply!vars) => SupplyInv'
  <1> SUFFICES ASSUME SupplyInv, [Supply!Next]_(Supply!vars) PROVE SupplyInv'
    OBVIOUS
  <1>1. CASE UNCHANGED Supply!vars
    BY <1>1 DEF Supply!vars, SupplyInv, AtMostOneOpen, Supply!Open, Fresh
  <1>2. QED
    BY <1>1, SupplyReceiveStep, SupplySubmitStep, SupplyRecordStep DEF Supply!Next

\* While submissions follow one another (MaxOpen = 1), one that is answered with success
\* after refreshSupply leaves the ledger's supply in the table, however many there are
\* and whatever earlier ones failed to record.
THEOREM RefreshIsCurrent == ASSUME MaxOpen = 1 PROVE Supply!Spec => RefreshedMeansCurrent
  <1> DEFINE Current(q) == submission[q].refresh /\ submission[q].pc # "done"
                           /\ submission'[q].answer = "ok" => row' = supply'
  <1>1. ASSUME SupplyInv, Supply!Next, NEW q \in Submission PROVE Current(q)
    <2>1. SUFFICES ASSUME submission[q].refresh, submission[q].pc # "done",
                          submission'[q].answer = "ok"
                   PROVE  row' = supply'
      OBVIOUS
    <2>2. /\ submission \in [Submission -> SupplyRecord] /\ submission[q] \in SupplyRecord
          /\ submission[q].answer = "none" /\ Fresh(q)
      BY <1>1, <2>1 DEF SupplyInv, Fresh
    <2>3. ASSUME NEW a, Supply!Answer(q, a) PROVE submission'[q].answer = a
      BY <2>2, <2>3 DEF Supply!Answer, SupplyRecord
    <2>4. PICK p \in Submission :
            \/ Supply!Receive(p) \/ Supply!Submit(p) \/ Supply!Refuse(p) \/ Supply!Lose(p)
            \/ Supply!ReadSupply(p) \/ Supply!ReadFails(p) \/ Supply!UpdateRow(p)
            \/ Supply!UpdateFails(p)
      BY <1>1, Zenon DEF Supply!Next
    <2>5. p = q
      <3>1. ASSUME p # q PROVE submission'[q] = submission[q]
        BY <2>2, <2>4, <3>1
        DEF Supply!Receive, Supply!Submit, Supply!Refuse, Supply!Lose, Supply!ReadSupply,
            Supply!ReadFails, Supply!UpdateRow, Supply!UpdateFails, Supply!Answer
      <3>2. QED
        BY <2>1, <2>2, <3>1
    <2>6. CASE Supply!UpdateRow(q)
      BY <2>2, <2>6 DEF Supply!UpdateRow, Fresh
    <2>7. ~ Supply!Receive(q)
      BY <2>1, <2>2 DEF Supply!Receive, Supply!New, SupplyRecord
    <2>8. ~ Supply!Submit(q) /\ ~ Supply!ReadSupply(q)
      BY <2>1, <2>2 DEF Supply!Submit, Supply!ReadSupply, SupplyRecord
    <2>9. ~ Supply!Refuse(q) /\ ~ Supply!ReadFails(q) /\ ~ Supply!UpdateFails(q)
      BY <2>1, <2>3 DEF Supply!Refuse, Supply!ReadFails, Supply!UpdateFails
    <2>10. ~ Supply!Lose(q)
      <3>1. ~ Supply!Answer(q, "invalid")
        BY <2>1, <2>3
      <3>2. QED
        BY <2>1, <2>2, <3>1 DEF Supply!Lose, SupplyRecord
    <2>11. QED
      BY <2>4, <2>5, <2>6, <2>7, <2>8, <2>9, <2>10
  <1>2. SupplyInv /\ [Supply!Next]_(Supply!vars) => [\A q \in Submission : Current(q)]_(Supply!vars)
    BY <1>1
  <1>3. SupplyInv /\ [Supply!Next]_(Supply!vars) => SupplyInv'
    BY NextSupply
  <1>4. QED
    BY <1>2, <1>3, InitSupply, PTL DEF Supply!Spec, RefreshedMeansCurrent, Supply!RefreshedMeansCurrent

-----------------------------------------------------------------------------
(* What a failed call of Horizon becomes *)

\* Horizon's statuses are numbers, and so is the bound of operations.
Numbered == StatusCodes \subseteq Nat /\ MaxOperations \in Nat

\* Where one operation of a transaction failed, exactly the first of them is found.
LEMMA FirstIsFound ==
  ASSUME NEW n \in Nat, NEW ops \in [1..n -> Errors!OpCodes],
         NEW k \in 1..n, ops[k] # "op_success"
  PROVE  \E i \in 1..n : /\ Errors!FirstFailedOperation(ops) = {ops[i]}
                         /\ ops[i] # "op_success"
                         /\ \A j \in 1..(i - 1) : ops[j] = "op_success"
  <1> DEFINE failed == {i \in 1..n : ops[i] # "op_success"}
             first == {i \in failed : \A j \in failed : i <= j}
  <1>1. PICK i \in failed : \A j \in failed : i <= j
    <2>1. failed \subseteq Nat /\ k \in failed
      OBVIOUS
    <2> HIDE DEF failed
    <2>2. \E i \in failed : \A j \in failed : i <= j
      BY <2>1, LeastNumber
    <2>3. QED
      BY <2>2
  <1>2. first = {i}
    BY <1>1
  <1>3. DOMAIN ops = 1..n
    OBVIOUS
  <1>4. Errors!FirstFailedOperation(ops) = {ops[i]}
    <2>1. Errors!FirstFailedOperation(ops) = {ops[m] : m \in first}
      BY <1>3, Zenon DEF Errors!FirstFailedOperation
    <2> HIDE DEF first
    <2>2. QED
      BY <1>2, <2>1
  <1>5. \A j \in 1..(i - 1) : ops[j] = "op_success"
    BY <1>1
  <1>6. QED
    BY <1>1, <1>4, <1>5

\* Every failure is of one of three kinds.
LEMMA KindsOfFailure ==
  ASSUME Numbered, NEW f \in Errors!Failures
  PROVE  \/ f.status \in StatusCodes \cup {0} /\ f.tx = "none" /\ f.ops = <<>>
         \/ /\ f.status = 400 /\ f.ops = <<>>
            /\ f.tx \in {"tx_bad_seq", "tx_insufficient_balance", "tx_unheard_of"}
         \/ /\ f.status = 400 /\ f.tx = "tx_failed"
            /\ \E n \in Nat : /\ f.ops \in [1..n -> Errors!OpCodes]
                              /\ \E k \in 1..n : f.ops[k] # "op_success"
  <1>1. CASE f \in {[status |-> s, tx |-> "none", ops |-> <<>>] : s \in StatusCodes \cup {0}}
    BY <1>1
  <1>2. CASE f \in {[status |-> 400, tx |-> t, ops |-> <<>>] : t \in Errors!TxCodes \ {"none", "tx_failed"}}
    BY <1>2 DEF Errors!TxCodes
  <1>3. CASE f \in {[status |-> 400, tx |-> "tx_failed", ops |-> ops] :
                      ops \in {o \in Errors!SeqOf(Errors!OpCodes, MaxOperations) :
                                 \E i \in DOMAIN o : o[i] # "op_success"}}
    <2>1. PICK ops \in Errors!SeqOf(Errors!OpCodes, MaxOperations) :
            /\ \E i \in DOMAIN ops : ops[i] # "op_success"
            /\ f = [status |-> 400, tx |-> "tx_failed", ops |-> ops]
      BY <1>3
    <2>2. PICK n \in 0..MaxOperations : ops \in [1..n -> Errors!OpCodes]
      BY DEF Errors!SeqOf
    <2>3. n \in Nat /\ DOMAIN ops = 1..n
      BY <2>2 DEF Numbered
    <2>4. QED
      BY <2>1, <2>2, <2>3
  <1>4. QED
    BY <1>1, <1>2, <1>3, Zenon DEF Errors!Failures

LEMMA FailureIsRightlyBlamed ==
  ASSUME Numbered, NEW f \in Errors!Failures PROVE Errors!RightlyBlamed(f)
  \* Horizon did not judge the transaction.
  <1>1. CASE f.status \in StatusCodes \cup {0} /\ f.tx = "none" /\ f.ops = <<>>
    <2>0. f.status \in StatusCodes \cup {0} /\ f.tx = "none" /\ f.ops = <<>>
      BY <1>1, Zenon
    <2>1. f.status \in Nat
      <3>1. \A s \in StatusCodes \cup {0} : s \in Nat
        BY DEF Numbered
      <3>2. QED
        BY <2>0, <3>1
    <2>2. Errors!FirstFailedOperation(f.ops) = {}
      BY <1>1 DEF Errors!FirstFailedOperation
    <2>3. Errors!DescribeResultCodes(f) = {}
      BY <1>1, <2>2 DEF Errors!DescribeResultCodes
    <2>4. Errors!ToStellarError(f).about = {}
      BY <2>3 DEF Errors!ToStellarError
    <2>5. f.status = 0 \/ f.status >= 500 => Errors!ToStellarError(f).status = 502
      BY <2>1 DEF Errors!ToStellarError, Errors!MapStatus
    <2>6. f.status = 0 \/ f.status >= 500 => Errors!MapRaw(f).status = 502
      <3>1. Errors!MapRaw(f) = [status |-> IF f.status = 404 THEN 404 ELSE 502, about |-> {}]
        BY <2>0 DEF Errors!MapRaw, Errors!ExplainedTx
      <3>2. QED
        BY <2>1, <3>1
    <2>7. ~Errors!Judged(f) /\ f.tx \notin Errors!ExplainedTx
      BY <1>1 DEF Errors!Judged, Errors!ExplainedTx
    <2>8. f.ops = <<>>
      BY <2>0
    <2>9. QED
      BY <2>4, <2>5, <2>6, <2>7, <2>8 DEF Errors!RightlyBlamed, Errors!MapStellarError
  \* It did, and 400 is passed on.
  <1>2. ASSUME f.status = 400, f.tx # "none",
               \A c \in Errors!DescribeResultCodes(f) : c # "op_success",
               f.ops # <<>> => \A c \in Errors!DescribeResultCodes(f) :
                 \E i \in DOMAIN f.ops : /\ f.ops[i] = c
                                         /\ \A j \in 1..(i - 1) : f.ops[j] = "op_success"
        PROVE  Errors!RightlyBlamed(f)
    <2>1. /\ Errors!ToStellarError(f).status = 400
          /\ Errors!ToStellarError(f).about = Errors!DescribeResultCodes(f)
      BY <1>2 DEF Errors!ToStellarError, Errors!MapStatus
    <2>2. Errors!ResolveStatus(f, TRUE) = 400
      BY <2>1 DEF Errors!ResolveStatus
    <2>3. f.tx \in Errors!ExplainedTx => Errors!MapRaw(f).status \in {402, 422}
      <3> DEFINE first == IF f.ops = <<>> THEN {} ELSE {Head(f.ops)}
      <3>1. CASE first \cap (Shared \cup OnlyRoutes) # {}
        BY <3>1 DEF Errors!MapRaw, Errors!ExplainedTx
      <3>2. CASE first \cap (Shared \cup OnlyRoutes) = {}
        BY <3>2 DEF Errors!MapRaw, Errors!ExplainedTx
      <3>3. QED
        BY <3>1, <3>2
    <2>4. 400 \in Errors!Ours /\ 402 \in Errors!Ours /\ 422 \in Errors!Ours
      BY DEF Errors!Ours
    <2>5. f.tx \in Errors!ExplainedTx => Errors!MapRaw(f).status \in Errors!Ours
      BY <2>3, <2>4
    <2>6. ~(f.status = 0 \/ f.status >= 500)
      BY <1>2
    <2>7. /\ Errors!ToStellarError(f).status \in Errors!Ours
          /\ Errors!ResolveStatus(f, TRUE) \in Errors!Ours
      BY <2>1, <2>2, <2>4
    <2>8. /\ \A c \in Errors!ToStellarError(f).about : c # "op_success"
          /\ f.ops # <<>> => \A c \in Errors!ToStellarError(f).about :
                \E i \in DOMAIN f.ops : /\ f.ops[i] = c
                                        /\ \A j \in 1..(i - 1) : f.ops[j] = "op_success"
      <3> DEFINE Fits(about) ==
            /\ \A c \in about : c # "op_success"
            /\ f.ops # <<>> => \A c \in about :
                  \E i \in DOMAIN f.ops : /\ f.ops[i] = c
                                          /\ \A j \in 1..(i - 1) : f.ops[j] = "op_success"
      <3>1. Fits(Errors!DescribeResultCodes(f))
        BY <1>2
      <3> HIDE DEF Fits
      <3>2. Fits(Errors!ToStellarError(f).about)
        BY <2>1, <3>1
      <3>3. QED
        BY <3>2 DEF Fits
    <2>9. QED
      BY <2>5, <2>6, <2>7, <2>8, Zenon DEF Errors!RightlyBlamed, Errors!MapStellarError
  <1>3. CASE /\ f.status = 400 /\ f.ops = <<>>
             /\ f.tx \in {"tx_bad_seq", "tx_insufficient_balance", "tx_unheard_of"}
    <2>1. Errors!FirstFailedOperation(f.ops) = {}
      BY <1>3 DEF Errors!FirstFailedOperation
    <2>2. Errors!DescribeResultCodes(f) = {f.tx}
      BY <1>3, <2>1 DEF Errors!DescribeResultCodes
    <2>3. QED
      BY <1>2, <1>3, <2>2
  <1>4. CASE /\ f.status = 400 /\ f.tx = "tx_failed"
             /\ \E n \in Nat : /\ f.ops \in [1..n -> Errors!OpCodes]
                               /\ \E k \in 1..n : f.ops[k] # "op_success"
    <2>1. PICK n \in Nat : /\ f.ops \in [1..n -> Errors!OpCodes]
                           /\ \E k \in 1..n : f.ops[k] # "op_success"
      BY <1>4
    <2>2. PICK i \in 1..n : /\ Errors!FirstFailedOperation(f.ops) = {f.ops[i]}
                            /\ f.ops[i] # "op_success"
                            /\ \A j \in 1..(i - 1) : f.ops[j] = "op_success"
      BY <2>1, FirstIsFound
    <2>3. Errors!DescribeResultCodes(f) = {f.ops[i]}
      <3>1. {f.ops[i]} # {}
        OBVIOUS
      <3>2. QED
        BY <2>2, <3>1, Zenon DEF Errors!DescribeResultCodes
    <2>4. QED
      BY <1>2, <1>4, <2>1, <2>2, <2>3
  <1>5. QED
    BY <1>1, <1>3, <1>4, KindsOfFailure

\* Whatever Horizon answers, with any number of operations: what the network refused is the
\* caller's to mend, the network's own trouble is not, and the code a caller is told is the
\* first that failed.
THEOREM FailuresAreRightlyBlamed == ASSUME Numbered PROVE LedgerSpec => []RightlyBlamed
  <1> DEFINE Inv == part = "failures" => failure \in Errors!Failures
  <1>1. LedgerInit => Inv
    BY DEF LedgerInit
  <1>2. Inv /\ [LedgerNext]_<<part, supplies, payments, trustlines, signatures, inputs>> => Inv'
    BY DEF LedgerNext, inputs
  <1>3. Inv => RightlyBlamed
    BY FailureIsRightlyBlamed DEF RightlyBlamed
  <1>4. QED
    BY <1>1, <1>2, <1>3, PTL DEF LedgerSpec

-----------------------------------------------------------------------------
(* Readers of an envelope *)

\* A window is stated in seconds that the protocol knows, or there is none.
WindowsKnown ==
  /\ MaxUnix \in Nat /\ MaxContents \in Nat
  /\ \A b \in Windows : b = {} \/ \E lo, hi \in 0..MaxUnix : b = {[lo |-> lo, hi |-> hi]}

LEMMA WindowOfBounds ==
  ASSUME WindowsKnown, NEW b \in Windows
  PROVE  Reading!Window(b).lo \in 0..MaxUnix /\ Reading!Window(b).hi \in 0..MaxUnix
  <1>1. CASE b = {}
    BY <1>1 DEF Reading!Window, WindowsKnown
  <1>2. ASSUME NEW lo \in 0..MaxUnix, NEW hi \in 0..MaxUnix, b = {[lo |-> lo, hi |-> hi]}
        PROVE  Reading!Window(b).lo \in 0..MaxUnix /\ Reading!Window(b).hi \in 0..MaxUnix
    <2>1. Reading!The(b) = [lo |-> lo, hi |-> hi] /\ b # {}
      BY <1>2 DEF Reading!The
    <2>2. QED
      BY <2>1 DEF Reading!Window
  <1>3. QED
    BY <1>1, <1>2 DEF WindowsKnown

\* What validateXdr accepts is what the ledger can include from now on.
LEMMA ValidIsIncludable ==
  ASSUME WindowsKnown, NEW tx, tx.bounds \in Windows, ~Reading!Inverted(tx), NEW moment \in Nat
  PROVE  Reading!ValidateTransaction(tx, moment) = "valid" <=> Reading!CanBeIncluded(tx, moment)
  <1> DEFINE lo == Reading!Window(tx.bounds).lo
             hi == Reading!Window(tx.bounds).hi
  <1>1. lo \in Nat /\ hi \in Nat /\ lo <= MaxUnix /\ MaxUnix \in Nat
    BY WindowOfBounds DEF WindowsKnown
  <1>2. hi = 0 \/ lo <= hi
    BY <1>1 DEF Reading!Inverted
  <1>3. Reading!ValidateTransaction(tx, moment) = "valid" <=>
          tx.operations # <<>> /\ ~(hi > 0 /\ hi < moment)
    BY DEF Reading!ValidateTransaction
  <1>4. Reading!CanBeIncluded(tx, moment) <=>
          /\ tx.operations # <<>>
          /\ \E t \in moment..(moment + MaxUnix) : lo <= t /\ (hi = 0 \/ t <= hi)
    BY DEF Reading!CanBeIncluded, Reading!Includes
  <1> HIDE DEF lo, hi
  <1>5. ~(hi > 0 /\ hi < moment) => \E t \in moment..(moment + MaxUnix) : lo <= t /\ (hi = 0 \/ t <= hi)
    <2>1. SUFFICES ASSUME ~(hi > 0 /\ hi < moment)
                   PROVE  \E t \in moment..(moment + MaxUnix) : lo <= t /\ (hi = 0 \/ t <= hi)
      OBVIOUS
    <2>2. CASE lo <= moment
      <3>1. moment \in moment..(moment + MaxUnix) /\ lo <= moment /\ (hi = 0 \/ moment <= hi)
        BY <1>1, <2>1, <2>2
      <3>2. QED
        BY <3>1
    <2>3. CASE lo > moment
      <3>1. lo \in moment..(moment + MaxUnix) /\ lo <= lo /\ (hi = 0 \/ lo <= hi)
        BY <1>1, <1>2, <2>3
      <3>2. QED
        BY <3>1
    <2>4. QED
      BY <1>1, <2>2, <2>3
  <1>6. (\E t \in moment..(moment + MaxUnix) : lo <= t /\ (hi = 0 \/ t <= hi)) => ~(hi > 0 /\ hi < moment)
    BY <1>1
  <1>7. QED
    BY <1>3, <1>4, <1>5, <1>6

\* What timeBounds.ts resolves, xdrValidation.ts accepts.
LEMMA ResolvedIsValid ==
  ASSUME NEW tx \in Reading!Transaction, NEW b \in Bounds, NEW moment \in Nat
  PROVE  Reading!BuiltIsValid(tx, b, moment)
  <1> DEFINE hi == Reading!ResolvedMax(b, moment)
             window == Reading!Resolve(b, moment)
             new == [tx EXCEPT !.bounds = {window}]
  <1>1. hi \in Int
    <2>1. b.max \subseteq Int /\ Timeout \in Nat
      BY BoundsAssumption, TimeoutAssumption
    <2>2. b.max # {} => Reading!The(b.max) \in b.max
      BY DEF Reading!The
    <2>3. QED
      BY <2>1, <2>2 DEF Reading!ResolvedMax
  <1>2. window.hi = hi
    BY DEF Reading!Resolve
  <1>3. new.bounds = {window} /\ new.operations = tx.operations
    BY DEF Reading!Transaction
  <1> HIDE DEF new, window
  <1>4. Reading!Window(new.bounds).hi = hi
    <2>1. Reading!The({window}) = window /\ {window} # {}
      BY DEF Reading!The
    <2>2. QED
      BY <1>2, <1>3, <2>1 DEF Reading!Window
  <1>5. Reading!Resolvable(b, moment) => hi >= 0 /\ (hi # 0 => moment < hi)
    BY DEF Reading!Resolvable, Reading!InRange
  <1> HIDE DEF hi
  <1>6. Reading!Resolvable(b, moment) /\ tx.operations # <<>> =>
          Reading!ValidateTransaction(new, moment) = "valid"
    BY <1>1, <1>3, <1>4, <1>5 DEF Reading!ValidateTransaction
  <1>7. QED
    BY <1>6 DEF Reading!BuiltIsValid, new, window

LEMMA OperationIsShown ==
  ASSUME NEW op \in Reading!Operation, NEW i
  PROVE  LET shown == Reading!DescribeOperation(op, i)
         IN  /\ shown.type = op.type /\ shown.sourceAccount = op.source
             /\ op.type \notin Reading!PathPayments =>
                  shown.amountOf \in {Reading!None, shown.asset} /\ shown.summaryOf = shown.amountOf
             /\ op.type = "payment" =>
                  shown.destination /\ shown.asset = op.leaves
  <1> DEFINE first == [index |-> i, type |-> op.type, sourceAccount |-> op.source,
               destination |-> op.type \in {"payment", "createAccount", "accountMerge"} \cup Reading!PathPayments,
               asset |-> Reading!None, amountOf |-> Reading!None, summaryOf |-> Reading!None]
             pay == [first EXCEPT !.asset = op.arrives, !.amountOf = op.arrives,
                                  !.summaryOf = op.arrives]
             path == [first EXCEPT !.asset = op.arrives, !.summaryOf = op.leaves,
                                   !.amountOf = IF op.type = "pathPaymentStrictSend" THEN op.leaves
                                                                                     ELSE op.arrives]
             create == [first EXCEPT !.asset = "XLM"]
             trust == [first EXCEPT !.asset = "token"]
  <1>1. op.type \in Reading!Other \cup Reading!PathPayments \cup {"payment"}
    BY DEF Reading!Operation
  <1>2. Reading!DescribeOperation(op, i) =
          CASE op.type = "payment" -> pay
            [] op.type \in Reading!PathPayments -> path
            [] op.type = "createAccount" -> create
            [] op.type = "changeTrust" -> trust
            [] OTHER -> first
    BY Zenon DEF Reading!DescribeOperation
  <1>3. /\ pay.type = op.type /\ pay.sourceAccount = op.source /\ pay.asset = op.arrives
        /\ pay.amountOf = op.arrives /\ pay.summaryOf = op.arrives
        /\ op.type = "payment" => pay.destination
    OBVIOUS
  <1>4. path.type = op.type /\ path.sourceAccount = op.source
    OBVIOUS
  <1>5. \A shown \in {create, trust, first} :
          /\ shown.type = op.type /\ shown.sourceAccount = op.source
          /\ shown.amountOf = Reading!None /\ shown.summaryOf = Reading!None
    OBVIOUS
  <1> HIDE DEF first, pay, path, create, trust
  <1>6. CASE op.type = "payment"
    <2>1. op.leaves = op.arrives
      BY <1>6 DEF Reading!Operation, Reading!Other, Reading!PathPayments
    <2>2. Reading!DescribeOperation(op, i) = pay
      BY <1>2, <1>6 DEF Reading!PathPayments
    <2>3. QED
      BY <1>3, <1>6, <2>1, <2>2
  <1>7. CASE op.type \in Reading!PathPayments
    <2>1. op.type # "payment"
      BY <1>7 DEF Reading!PathPayments
    <2>2. Reading!DescribeOperation(op, i) = path
      BY <1>2, <1>7, <2>1 DEF Reading!PathPayments
    <2>3. QED
      BY <1>4, <1>7, <2>1, <2>2
  <1>8. CASE op.type \in Reading!Other
    <2>1. op.type # "payment" /\ op.type \notin Reading!PathPayments
      BY <1>8 DEF Reading!Other, Reading!PathPayments
    <2>2. Reading!DescribeOperation(op, i) \in {create, trust, first}
      BY <1>2, <2>1
    <2>3. QED
      BY <1>5, <2>1, <2>2
  <1>9. QED
    BY <1>1, <1>6, <1>7, <1>8

LEMMA ReadingCardinality == ASSUME NEW S PROVE Reading!Cardinality(S) = Cardinality(S)
  BY DEF Reading!Cardinality, Cardinality

LEMMA EnvelopeIsReadAlike ==
  ASSUME WindowsKnown, NEW x \in Reading!Inputs, NEW moment \in Nat
  PROVE  /\ Reading!ReadersAgree(x, moment)
         /\ Reading!Decodes(x) => x.tx \in Reading!Transaction
  <1>1. CASE ~Reading!Decodes(x)
    <2>1. x.shape \in DOMAIN Reading!Undecodable
      BY <1>1 DEF Reading!Decodes
    <2>2. Reading!Undecodable[x.shape] # "none"
      <3>1. x.shape \in {"notAString", "blank", "notBase64", "unknownType", "truncated", "strange"}
        BY <2>1 DEF Reading!Undecodable
      <3>2. /\ Reading!Undecodable["notAString"] = "must be a string"
            /\ Reading!Undecodable["blank"] = "cannot be empty"
            /\ Reading!Undecodable["notBase64"] = "not base64"
            /\ Reading!Undecodable["unknownType"] = "type not recognised"
            /\ Reading!Undecodable["truncated"] = "malformed"
            /\ Reading!Undecodable["strange"] = "undecodable"
        BY DEF Reading!Undecodable
      <3>3. QED
        BY <3>1, <3>2
    <2>3. QED
      BY <1>1, <2>2 DEF Reading!ReadersAgree, Reading!ValidateXdr, Reading!DecodeError
  <1>2. CASE Reading!Decodes(x)
    <2> DEFINE ops == x.tx.operations
               details == Reading!DeserializeXdr(x)
               shown == [i \in DOMAIN ops |-> Reading!DescribeOperation(ops[i], i)]
               bumped == x.shape = "feeBump"
    <2>1. x \in Reading!Envelope
      BY <1>2 DEF Reading!Decodes, Reading!Inputs
    <2>2. /\ x.tx \in Reading!Transaction
          /\ \/ x.shape = "transaction" /\ x.feeSource = Reading!None /\ x.fee = 1
             \/ x.shape = "feeBump" /\ x.feeSource = "sponsor" /\ x.fee = 2
      BY <2>1 DEF Reading!Envelope
    <2>3. /\ x.tx.bounds \in Windows /\ x.tx.fee = 1 /\ x.tx.source = "signer"
          /\ x.tx.operations \in Reading!SeqOf(Reading!Operation, MaxContents)
      BY <2>2 DEF Reading!Transaction
    <2>4. PICK n \in Nat : ops \in [1..n -> Reading!Operation]
      BY <2>3 DEF Reading!SeqOf, WindowsKnown
    <2>5. /\ details.operations = shown /\ details.sourceAccount = x.tx.source
          /\ details.fee = x.tx.fee
          /\ details.feeSource = IF bumped THEN x.feeSource ELSE Reading!None
          /\ details.bumpFee = IF bumped THEN x.fee ELSE 0
          /\ details.summary = Reading!Summarise(shown, Reading!DecodeMemo(x.tx.memo))
      <3> DEFINE d == Reading!DescribeTransaction(x.tx)
      <3>1. /\ d.operations = shown /\ d.sourceAccount = x.tx.source /\ d.fee = x.tx.fee
            /\ d.feeSource = Reading!None /\ d.bumpFee = 0
            /\ d.summary = Reading!Summarise(shown, Reading!DecodeMemo(x.tx.memo))
            /\ DOMAIN d = {"sourceAccount", "fee", "operations", "memo", "timeBounds", "summary",
                           "feeSource", "bumpFee"}
        BY DEF Reading!DescribeTransaction
      <3>2. details = IF bumped THEN [d EXCEPT !.feeSource = x.feeSource, !.bumpFee = x.fee] ELSE d
        BY DEF Reading!DeserializeXdr
      <3> HIDE DEF d, details, shown
      <3>3. QED
        BY <3>1, <3>2
    <2>6. Reading!Inverted(x.tx) \/ (Reading!ValidateXdr(x, moment) = "valid" <=>
                                      Reading!CanBeIncluded(x.tx, moment))
      <3>1. Reading!ValidateXdr(x, moment) = Reading!ValidateTransaction(x.tx, moment)
        BY <1>2, <2>2 DEF Reading!ValidateXdr, Reading!ValidateEnvelope, Reading!None
      <3>2. QED
        BY <2>3, <3>1, ValidIsIncludable
    <2>7. ASSUME NEW i \in DOMAIN ops
          PROVE  /\ shown[i].type = ops[i].type /\ shown[i].sourceAccount = ops[i].source
                 /\ shown[i].type \notin Reading!PathPayments =>
                      /\ shown[i].amountOf \in {Reading!None, shown[i].asset}
                      /\ shown[i].summaryOf = shown[i].amountOf
                 /\ ops[i].type = "payment" => shown[i].destination /\ shown[i].asset = ops[i].leaves
      BY <2>4, OperationIsShown
    <2>8. DOMAIN shown = DOMAIN ops
      OBVIOUS
    <2>9. [i \in DOMAIN shown |-> shown[i].type] = [i \in DOMAIN ops |-> ops[i].type]
      <3> HIDE DEF shown
      <3>1. QED
        BY <2>7, <2>8
    <2>10. ASSUME Reading!TakesTransfer(x)
           PROVE  /\ shown[1].destination /\ details.summary.head = "payment"
                  /\ \/ Reading!TransactionSource(x) = (IF shown[1].sourceAccount # Reading!None
                                                        THEN shown[1].sourceAccount
                                                        ELSE details.sourceAccount)
                     \/ bumped /\ Reading!TransactionSource(x) = Reading!None
                  /\ Reading!RequiredXlm(x) =
                       (IF details.feeSource = Reading!None THEN details.fee ELSE details.bumpFee)
                         + (IF shown[1].asset = "XLM" THEN 1 ELSE 0)
      <3>1. Len(ops) = 1 /\ ops[1].type = "payment"
        BY <2>10 DEF Reading!TakesTransfer
      <3>2. DOMAIN ops = {1}
        BY <2>4, <3>1
      <3>3. /\ shown[1].type = "payment" /\ shown[1].sourceAccount = ops[1].source
            /\ shown[1].destination /\ shown[1].asset = ops[1].leaves
        BY <2>7, <3>1, <3>2
      <3>4. details.summary.head = "payment"
        <4>1. Len(shown) = 1
          BY <2>4, <2>8, <3>2
        <4> HIDE DEF shown, details
        <4>2. QED
          BY <2>5, <3>3, <4>1 DEF Reading!Summarise
      <3>5. Reading!TransactionSource(x) =
              IF ops[1].source # Reading!None THEN ops[1].source
              ELSE IF bumped THEN Reading!None ELSE x.tx.source
        BY DEF Reading!TransactionSource
      <3>6. Reading!RequiredXlm(x) = x.fee + (IF ops[1].leaves = "XLM" THEN 1 ELSE 0)
        <4> DEFINE native == {i \in DOMAIN ops : ops[i].type = "payment" /\ ops[i].leaves = "XLM"}
        <4>1. native = IF ops[1].leaves = "XLM" THEN {1} ELSE {}
          BY <3>1, <3>2
        <4>2. Cardinality(native) = IF ops[1].leaves = "XLM" THEN 1 ELSE 0
          BY <4>1, FS_EmptySet, FS_Singleton
        <4>3. Reading!RequiredXlm(x) = x.fee + Reading!Cardinality(native)
          BY DEF Reading!RequiredXlm
        <4> HIDE DEF native
        <4>4. QED
          BY <4>2, <4>3, ReadingCardinality
      <3> HIDE DEF shown, details, ops
      <3>7. (IF details.feeSource = Reading!None THEN details.fee ELSE details.bumpFee) = x.fee
        BY <2>2, <2>3, <2>5 DEF Reading!None
      <3>8. QED
        BY <2>5, <3>3, <3>4, <3>5, <3>6, <3>7
    <2> DEFINE source == IF shown[1].sourceAccount # Reading!None THEN shown[1].sourceAccount
                         ELSE details.sourceAccount
    <2>11. Reading!ReadersAgree(x, moment) <=>
             /\ Reading!Inverted(x.tx) \/ (Reading!ValidateXdr(x, moment) = "valid" <=>
                                          Reading!CanBeIncluded(x.tx, moment))
             /\ [i \in DOMAIN shown |-> shown[i].type] = [i \in DOMAIN ops |-> ops[i].type]
             /\ \A i \in DOMAIN shown : shown[i].type \notin Reading!PathPayments =>
                   shown[i].amountOf \in {Reading!None, shown[i].asset} /\ shown[i].summaryOf = shown[i].amountOf
             /\ Reading!TakesTransfer(x) =>
                   /\ shown[1].destination /\ details.summary.head = "payment"
                   /\ Reading!TransactionSource(x) = source \/ (bumped /\ Reading!TransactionSource(x) = Reading!None)
                   /\ Reading!RequiredXlm(x) = (IF details.feeSource = Reading!None THEN details.fee ELSE details.bumpFee)
                                                 + (IF shown[1].asset = "XLM" THEN 1 ELSE 0)
      <3> HIDE DEF shown
      <3>1. details.operations = shown
        BY <2>5
      <3>2. QED
        BY <1>2, <3>1, Zenon DEF Reading!ReadersAgree
    <2>12. Reading!ReadersAgree(x, moment)
      <3> HIDE DEF shown, details, ops
      <3>1. QED
        BY <2>6, <2>7, <2>8, <2>9, <2>10, <2>11
    <2>13. QED
      BY <2>2, <2>12
  <1>3. QED
    BY <1>1, <1>2

\* What validates, describes, debits and includes one envelope reads the same in it, for any
\* number of operations and any windows; and what timeBounds.ts resolves, xdrValidation.ts
\* accepts.
THEOREM EnvelopesAreReadAlike == ASSUME WindowsKnown PROVE LedgerSpec => []ReadersAgree
  <1> DEFINE Inv == part = "envelopes" => envelope \in Reading!Inputs
  <1>1. LedgerInit => Inv
    BY DEF LedgerInit
  <1>2. Inv /\ [LedgerNext]_<<part, supplies, payments, trustlines, signatures, inputs>> => Inv'
    BY DEF LedgerNext, inputs
  <1>3. Inv => ReadersAgree
    <2>1. Moment \in Nat
      BY DEF Moment
    <2>2. ASSUME envelope \in Reading!Inputs
          PROVE  /\ Reading!ReadersAgree(envelope, Moment)
                 /\ Reading!Decodes(envelope) =>
                      \A b \in Bounds : Reading!BuiltIsValid(envelope.tx, b, Moment)
      BY <2>1, <2>2, EnvelopeIsReadAlike, ResolvedIsValid
    <2>3. QED
      BY <2>2 DEF ReadersAgree
  <1>4. QED
    BY <1>1, <1>2, <1>3, PTL DEF LedgerSpec

-----------------------------------------------------------------------------
(* Signatures *)

\* An account has finitely many signers; weights and thresholds are bytes.
SignersKnown == IsFiniteSet(Key) /\ MaxWeight \in Nat /\ MaxThreshold \in Nat

\* A key has as many votes as it weighs.
Votes(weight, keys) == {v \in keys \X (1..MaxWeight) : v[2] <= weight[v[1]]}
Weighs(weight, keys) == Cardinality(Votes(weight, keys))
Weights == [Key -> 0..MaxWeight]

LEMMA SigningCardinality == ASSUME NEW S PROVE Signing!Cardinality(S) = Cardinality(S)
  BY DEF Signing!Cardinality, Cardinality

LEMMA VotesAreFinite ==
  ASSUME SignersKnown, NEW weight \in Weights, NEW keys \in SUBSET Key
  PROVE  IsFiniteSet(Votes(weight, keys)) /\ Weighs(weight, keys) \in Nat
  <1>1. IsFiniteSet(keys) /\ IsFiniteSet(1..MaxWeight)
    BY FS_Subset, FS_Interval DEF SignersKnown
  <1>2. IsFiniteSet(keys \X (1..MaxWeight))
    BY <1>1, FS_Product
  <1>3. Votes(weight, keys) \in SUBSET (keys \X (1..MaxWeight))
    BY DEF Votes
  <1>4. QED
    BY <1>2, <1>3, FS_Subset, FS_CardinalityType DEF Weighs

\* One key more adds its weight.
LEMMA OneKeyMore ==
  ASSUME SignersKnown, NEW weight \in Weights, NEW keys \in SUBSET Key, NEW k \in keys
  PROVE  Weighs(weight, keys) = Weighs(weight, keys \ {k}) + weight[k]
  <1> DEFINE own == {k} \X (1..weight[k])
             others == Votes(weight, keys \ {k})
  <1>1. weight[k] \in Nat /\ weight[k] <= MaxWeight /\ MaxWeight \in Nat
    BY DEF Weights, SignersKnown
  <1>2. IsFiniteSet(own) /\ Cardinality(own) = weight[k]
    <2>1. IsFiniteSet({k}) /\ Cardinality({k}) = 1
      BY FS_Singleton
    <2>2. IsFiniteSet(1..weight[k]) /\ Cardinality(1..weight[k]) = weight[k]
      <3>1. \A n \in Nat : IsFiniteSet(1..n) /\ Cardinality(1..n) = n
        <4>1. \A n \in Nat : /\ IsFiniteSet(1..n)
                             /\ Cardinality(1..n) = IF 1 > n THEN 0 ELSE n - 1 + 1
          BY FS_Interval
        <4>2. QED
          BY <4>1
      <3>2. QED
        BY <1>1, <3>1
    <2>3. QED
      BY <1>1, <2>1, <2>2, FS_Product
  <1>3. IsFiniteSet(others) /\ Cardinality(others) \in Nat
    BY VotesAreFinite DEF Weighs
  <1>4. Votes(weight, keys) = others \cup own
    <2>1. ASSUME NEW v \in Votes(weight, keys) PROVE v \in others \cup own
      BY <1>1 DEF Votes, Weights
    <2>2. ASSUME NEW v \in own PROVE v \in Votes(weight, keys)
      BY <1>1 DEF Votes, Weights
    <2>3. ASSUME NEW v \in others PROVE v \in Votes(weight, keys)
      BY DEF Votes
    <2>4. QED
      BY <2>1, <2>2, <2>3
  <1>5. others \cap own = {}
    BY DEF Votes
  <1>6. QED
    <2> HIDE DEF own, others
    <2>1. Cardinality(others \cup own) = Cardinality(others) + Cardinality(own) - Cardinality({})
      BY <1>2, <1>3, <1>5, FS_Union
    <2>2. Cardinality({}) = 0
      BY FS_EmptySet
    <2>3. Cardinality(Votes(weight, keys)) = Cardinality(others) + weight[k]
      BY <1>1, <1>2, <1>3, <1>4, <2>1, <2>2
    <2>4. QED
      BY <2>3 DEF others, Weighs

\* The key FoldSet takes next, and what it computes with it.
Taken(keys) == CHOOSE k \in keys : TRUE
Folds(fold, weight, S) ==
  fold = [s \in SUBSET S |->
            IF s = {} THEN 0 ELSE fold[s \ {Taken(s)}] + weight[Taken(s)]]

LEMMA FoldCounts ==
  ASSUME SignersKnown, NEW weight \in Weights, NEW S \in SUBSET Key
  PROVE  (CHOOSE fold : Folds(fold, weight, S))[S] = Weighs(weight, S)
  <1> DEFINE count == [s \in SUBSET S |-> Weighs(weight, s)]
             fold == CHOOSE f : Folds(f, weight, S)
  <1>1. \A s \in SUBSET S : s # {} => /\ Taken(s) \in s
                                      /\ Weighs(weight, s) = Weighs(weight, s \ {Taken(s)}) + weight[Taken(s)]
    BY OneKeyMore DEF Taken
  <1>2. Weighs(weight, {}) = 0
    <2>1. Votes(weight, {}) = {}
      BY DEF Votes
    <2>2. QED
      BY <2>1, FS_EmptySet DEF Weighs
  <1>3. Folds(count, weight, S)
    <2>1. ASSUME NEW s \in SUBSET S
          PROVE  count[s] = IF s = {} THEN 0 ELSE count[s \ {Taken(s)}] + weight[Taken(s)]
      BY <1>1, <1>2
    <2>2. QED
      BY <2>1 DEF Folds
  <1>4. Folds(fold, weight, S)
    BY <1>3
  <1> HIDE DEF fold
  <1> DEFINE wrong == {n \in Nat : \E s \in SUBSET S : Cardinality(s) = n /\ fold[s] # Weighs(weight, s)}
  <1>5. wrong = {}
    <2>1. SUFFICES ASSUME wrong # {} PROVE FALSE
      OBVIOUS
    <2>2. PICK n \in wrong : \A m \in wrong : n <= m
      <3>1. wrong \in SUBSET Nat
        OBVIOUS
      <3> HIDE DEF wrong
      <3>2. QED
        BY <2>1, <3>1, LeastNumber
    <2>3. PICK s \in SUBSET S : Cardinality(s) = n /\ fold[s] # Weighs(weight, s)
      OBVIOUS
    <2>4. fold[s] = IF s = {} THEN 0 ELSE fold[s \ {Taken(s)}] + weight[Taken(s)]
      BY <1>4 DEF Folds
    <2>5. s # {}
      BY <1>2, <2>3, <2>4
    <2>6. Taken(s) \in s /\ s \ {Taken(s)} \in SUBSET S
      BY <1>1, <2>5
    <2>7. Cardinality(s \ {Taken(s)}) = n - 1 /\ n - 1 \in Nat
      <3>1. IsFiniteSet(s) /\ IsFiniteSet(s \ {Taken(s)})
        BY FS_Subset DEF SignersKnown
      <3>2. QED
        BY <2>3, <2>6, <3>1, FS_RemoveElement, FS_CardinalityType
    <2>8. n - 1 \notin wrong
      BY <2>2, <2>7
    <2>9. fold[s \ {Taken(s)}] = Weighs(weight, s \ {Taken(s)})
      BY <2>6, <2>7, <2>8
    <2>10. QED
      BY <1>1, <2>3, <2>4, <2>5, <2>9
  <1>6. IsFiniteSet(S) /\ Cardinality(S) \in Nat
    BY FS_Subset, FS_CardinalityType DEF SignersKnown
  <1>7. fold[S] = Weighs(weight, S)
    BY <1>5, <1>6
  <1>8. QED
    BY <1>7 DEF fold

LEMMA WeightIsVotes ==
  ASSUME SignersKnown, account \in Signing!Accounts, NEW S \in SUBSET Key
  PROVE  Signing!WeightOf(S) = Weighs(account.weight, S)
  <1>1. account.weight \in Weights
    BY DEF Signing!Accounts, Weights
  <1>2. Signing!WeightOf(S) = (CHOOSE fold : Folds(fold, account.weight, S))[S]
    BY Zenon DEF Signing!WeightOf, Signing!FoldSet, Signing!MapThenFoldSet, Folds, Taken
  <1>3. QED
    BY <1>1, <1>2, FoldCounts

\* Few find room among many.
LEMMA FewFitIn ==
  ASSUME NEW S, NEW T, IsFiniteSet(S), IsFiniteSet(T), Cardinality(S) <= Cardinality(T)
  PROVE  \E f \in [S -> T] : \A x, y \in S : f[x] = f[y] => x = y
  <1>1. /\ Cardinality(S) \in Nat /\ Cardinality(T) \in Nat
        /\ \E g : g \in Bijection(1..Cardinality(T), T)
    BY FS_CardinalityType DEF ExistsBijection
  <1>2. PICK g : g \in Bijection(1..Cardinality(T), T)
    BY <1>1
  <1>3. /\ g \in [1..Cardinality(T) -> T]
        /\ \A i, j \in 1..Cardinality(T) : g[i] = g[j] => i = j
    BY <1>2 DEF Bijection, Injection, IsInjective
  <1>4. PICK h : h \in Bijection(1..Cardinality(S), S)
    BY FS_CardinalityType DEF ExistsBijection
  <1>5. /\ h \in [1..Cardinality(S) -> S]
        /\ \A i, j \in 1..Cardinality(S) : h[i] = h[j] => i = j
        /\ \A x \in S : \E i \in 1..Cardinality(S) : h[i] = x
    BY <1>4 DEF Bijection, Injection, IsInjective, Surjection
  <1> DEFINE place == [x \in S |-> CHOOSE i \in 1..Cardinality(S) : h[i] = x]
  <1>6. \A x \in S : place[x] \in 1..Cardinality(T) /\ h[place[x]] = x
    BY <1>1, <1>5
  <1> HIDE DEF place
  <1> DEFINE f == [x \in S |-> g[place[x]]]
  <1>7. f \in [S -> T] /\ \A x, y \in S : f[x] = f[y] => x = y
    BY <1>3, <1>6
  <1>8. QED
    BY <1>7

\* An order of the signers: what its first ones are, and who comes later weighs no more.
LEMMA FirstAreHeaviest ==
  ASSUME SignersKnown, account \in Signing!Accounts, NEW order \in Signing!HeaviestFirst
  PROVE  /\ Len(order) \in Nat /\ DOMAIN order = 1..Len(order)
         /\ Signing!FirstOf(order, Len(order)) = Signing!Signers
         /\ \A n \in 0..Len(order) :
              LET top == Signing!FirstOf(order, n)
              IN  /\ top \in SUBSET Key /\ Cardinality(top) = n
                  /\ \A j \in top, k \in Key \ top : account.weight[k] <= account.weight[j]
  <1> DEFINE signers == Signing!Signers
             size == Cardinality(signers)
  <1>1. /\ signers \in SUBSET Key /\ IsFiniteSet(signers) /\ size \in Nat
        /\ account.weight \in Weights
    BY FS_Subset, FS_CardinalityType DEF SignersKnown, Signing!Signers, Signing!Accounts, Weights
  <1>2. /\ order \in [1..size -> signers]
        /\ \A i, j \in 1..size : i # j => order[i] # order[j]
        /\ \A i, j \in 1..size : i < j => account.weight[order[i]] >= account.weight[order[j]]
    <2>1. /\ order \in Signing!SetToSeqs(signers)
          /\ \A i, j \in DOMAIN order : i < j => account.weight[order[i]] >= account.weight[order[j]]
      BY DEF Signing!HeaviestFirst
    <2>2. order \in [1..size -> signers] /\ \A i, j \in 1..size : i # j => order[i] # order[j]
      BY <2>1, SigningCardinality DEF Signing!SetToSeqs
    <2>3. QED
      BY <2>1, <2>2
  <1> HIDE DEF signers, size
  <1>3. Len(order) = size
    BY <1>1, <1>2
  <1>4. \A n \in 0..size : /\ Signing!FirstOf(order, n) \in SUBSET signers
                           /\ Cardinality(Signing!FirstOf(order, n)) = n
    <2>1. SUFFICES ASSUME NEW n \in 0..size
                   PROVE  /\ Signing!FirstOf(order, n) \in SUBSET signers
                          /\ Cardinality(Signing!FirstOf(order, n)) = n
      OBVIOUS
    <2>2. Signing!FirstOf(order, n) \in SUBSET signers
      BY <1>1, <1>2 DEF Signing!FirstOf
    <2> DEFINE f == [i \in 1..n |-> order[i]]
    <2>3. f \in Bijection(1..n, Signing!FirstOf(order, n))
      BY <1>1, <1>2 DEF Bijection, Injection, IsInjective, Surjection, Signing!FirstOf
    <2>4. QED
      BY <1>1, <2>2, <2>3, FS_CountingElements DEF ExistsBijection
  <1>5. Signing!FirstOf(order, size) = signers
    BY <1>1, <1>4, FS_Subset DEF size
  <1>6. ASSUME NEW n \in 0..size, NEW j \in Signing!FirstOf(order, n),
               NEW k \in Key \ Signing!FirstOf(order, n)
        PROVE  account.weight[k] <= account.weight[j]
    <2>1. PICK i \in 1..n : j = order[i]
      BY <1>6 DEF Signing!FirstOf
    <2>2. CASE k \in signers
      <3>1. PICK m \in 1..size : k = order[m]
        BY <1>5, <2>2 DEF Signing!FirstOf
      <3>2. m > n
        BY <1>1, <1>6, <3>1 DEF Signing!FirstOf
      <3>3. QED
        BY <1>1, <1>2, <2>1, <3>1, <3>2 DEF Weights
    <2>3. CASE k \notin signers
      <3>1. account.weight[k] = 0
        BY <1>1, <2>3 DEF signers, Signing!Signers, Weights
      <3>2. j \in Key
        BY <1>1, <1>4
      <3>3. QED
        BY <1>1, <3>1, <3>2 DEF Weights
    <2>4. QED
      BY <2>2, <2>3
  <1>7. QED
    BY <1>1, <1>2, <1>3, <1>4, <1>5, <1>6 DEF signers

\* No set of keys outweighs as many of the heaviest: its votes find room among theirs.
LEMMA HeaviestOutweigh ==
  ASSUME SignersKnown, NEW weight \in Weights, NEW top \in SUBSET Key, NEW keys \in SUBSET Key,
         Cardinality(keys) <= Cardinality(top),
         \A j \in top, k \in Key \ top : weight[k] <= weight[j]
  PROVE  Weighs(weight, keys) <= Weighs(weight, top)
  <1>1. IsFiniteSet(keys) /\ IsFiniteSet(top)
    BY FS_Subset DEF SignersKnown
  <1>2. PICK f \in [keys \ top -> top \ keys] : \A x, y \in keys \ top : f[x] = f[y] => x = y
    <2>1. /\ IsFiniteSet(keys \ top) /\ Cardinality(keys \ top) = Cardinality(keys) - Cardinality(keys \cap top)
          /\ IsFiniteSet(top \ keys) /\ Cardinality(top \ keys) = Cardinality(top) - Cardinality(top \cap keys)
      BY <1>1, FS_Difference
    <2>2. keys \cap top = top \cap keys /\ IsFiniteSet(keys \cap top)
      BY <1>1, FS_Intersection
    <2>3. Cardinality(keys \cap top) \in Nat /\ Cardinality(keys) \in Nat /\ Cardinality(top) \in Nat
      BY <1>1, <2>2, FS_CardinalityType
    <2>4. Cardinality(keys \ top) <= Cardinality(top \ keys)
      BY <2>1, <2>2, <2>3
    <2>5. QED
      BY <2>1, <2>4, FewFitIn
  <1> DEFINE mine == Votes(weight, keys)
             theirs == Votes(weight, top)
             to == [v \in mine |-> IF v[1] \in top THEN v ELSE <<f[v[1]], v[2]>>]
  <1>3. \A v \in mine : /\ v = <<v[1], v[2]>> /\ v[1] \in keys /\ v[2] \in 1..MaxWeight
                        /\ v[2] <= weight[v[1]]
    BY DEF Votes
  <1>4. ASSUME NEW v \in mine PROVE to[v] \in theirs
    <2>1. CASE v[1] \in top
      BY <1>3, <2>1 DEF Votes
    <2>2. CASE v[1] \notin top
      <3>1. f[v[1]] \in top /\ weight[v[1]] <= weight[f[v[1]]]
        BY <1>2, <1>3, <2>2
      <3>2. weight[v[1]] \in Nat /\ weight[f[v[1]]] \in Nat /\ v[2] \in Nat
        BY <1>3, <3>1 DEF Weights
      <3>3. v[2] <= weight[f[v[1]]]
        BY <1>3, <3>1, <3>2
      <3>4. QED
        BY <1>3, <2>2, <3>1, <3>3 DEF Votes
    <2>3. QED
      BY <2>1, <2>2
  <1>5. ASSUME NEW v \in mine, NEW u \in mine, to[v] = to[u] PROVE v = u
    <2>1. CASE v[1] \in top /\ u[1] \in top
      BY <1>5, <2>1
    <2>2. CASE v[1] \notin top /\ u[1] \notin top
      <3>1. f[v[1]] = f[u[1]] /\ v[2] = u[2]
        BY <1>5, <2>2
      <3>2. v[1] = u[1]
        BY <1>2, <1>3, <2>2, <3>1
      <3>3. QED
        BY <1>3, <3>1, <3>2
    <2>3. CASE v[1] \in top /\ u[1] \notin top
      <3>1. v[1] = f[u[1]]
        BY <1>3, <1>5, <2>3
      <3>2. QED
        BY <1>2, <1>3, <2>3, <3>1
    <2>4. CASE v[1] \notin top /\ u[1] \in top
      <3>1. u[1] = f[v[1]]
        BY <1>3, <1>5, <2>4
      <3>2. QED
        BY <1>2, <1>3, <2>4, <3>1
    <2>5. QED
      BY <2>1, <2>2, <2>3, <2>4
  <1>6. to \in Injection(mine, theirs)
    BY <1>4, <1>5 DEF Injection, IsInjective
  <1>7. QED
    BY <1>6, VotesAreFinite, FS_Injection DEF Weighs

\* The signers a caller is told to ask.
Told(t) == {t.signers[i] : i \in 1..t.minimum}

\* They suffice, and no fewer keys would.
FewestAreTold(a, t) ==
  /\ t.required = a.threshold
  /\ t.minimum \in Nat /\ Told(t) \in SUBSET Key /\ Cardinality(Told(t)) = t.minimum
  /\ Weighs(a.weight, Told(t)) >= t.required
  /\ \A keys \in SUBSET Key : Weighs(a.weight, keys) >= t.required => Cardinality(keys) >= t.minimum

\* Each of them signs once.
SignOnce(t, s) ==
  /\ s \in Seq(Told(t))
  /\ \A i, j \in DOMAIN s : s[i] = s[j] => i = j

SigningInv ==
  /\ account \in Signing!Accounts
  /\ stage \in {"new", "collecting", "refused", "tx_bad_auth", "tx_bad_auth_extra", "applied"}
  /\ stage = "new" => signed = <<>>
  /\ stage = "collecting" => FewestAreTold(account, told) /\ SignOnce(told, signed)
  /\ stage \in {"tx_bad_auth", "tx_bad_auth_extra"} => told.required = 0

\* The greedy loop stops at the fewest signers.
LEMMA GreedyIsFewest ==
  ASSUME SignersKnown, account \in Signing!Accounts, NEW order \in Signing!HeaviestFirst,
         Signing!AvailableWeight >= account.threshold, NEW t,
         t.signers = order, t.required = account.threshold,
         t.minimum = Signing!MinimumSignatures(order)
  PROVE  FewestAreTold(account, t)
  <1> DEFINE First(n) == Signing!FirstOf(order, n)
             Weight(n) == Signing!WeightOf(First(n))
             reached == {n \in 0..Len(order) : Weight(n) >= account.threshold}
             min == Signing!MinimumSignatures(order)
  <1>1. /\ account.weight \in Weights /\ account.threshold \in Nat
        /\ Len(order) \in Nat /\ DOMAIN order = 1..Len(order)
    BY FirstAreHeaviest DEF Signing!Accounts, Weights, SignersKnown
  <1>2. ASSUME NEW n \in 0..Len(order)
        PROVE  /\ First(n) \in SUBSET Key /\ Cardinality(First(n)) = n
               /\ Weight(n) = Weighs(account.weight, First(n)) /\ Weight(n) \in Nat
               /\ \A j \in First(n), k \in Key \ First(n) : account.weight[k] <= account.weight[j]
    BY <1>1, FirstAreHeaviest, WeightIsVotes, VotesAreFinite
  <1>3. /\ min \in 0..Len(order) /\ Weight(min) >= account.threshold
        /\ \A m \in 0..(min - 1) : Weight(m) < account.threshold
    <2>1. Len(order) \in reached
      BY <1>1, FirstAreHeaviest DEF Signing!AvailableWeight
    <2>2. PICK n \in reached : \A m \in reached : n <= m
      <3>1. reached \in SUBSET Nat
        BY <1>1
      <3> HIDE DEF reached
      <3>2. QED
        BY <2>1, <3>1, LeastNumber
    <2>3. /\ n \in 0..Len(order) /\ Weight(n) >= account.threshold
          /\ \A m \in 0..(n - 1) : Weight(m) < account.threshold
      <3>1. ASSUME NEW m \in 0..(n - 1) PROVE Weight(m) < account.threshold
        <4>1. m \in 0..Len(order) /\ m < n
          BY <1>1, <2>2
        <4>2. m \notin reached
          BY <2>2, <4>1
        <4>3. Weight(m) \in Nat
          BY <1>2, <4>1
        <4> HIDE DEF Weight
        <4>4. QED
          BY <1>1, <4>1, <4>2, <4>3
      <3>2. QED
        BY <2>2, <3>1
    <2> DEFINE IsMin(i) == /\ Weight(i) >= account.threshold
                           /\ \A m \in 0..(i - 1) : Weight(m) < account.threshold
    <2>4. min = CHOOSE i \in 0..Len(order) : IsMin(i)
      BY Zenon DEF Signing!MinimumSignatures
    <2>5. IsMin(n) /\ n \in 0..Len(order)
      BY <2>3
    <2> HIDE DEF IsMin, min
    <2>6. min \in 0..Len(order) /\ IsMin(min)
      BY <2>4, <2>5
    <2>7. QED
      BY <2>6 DEF IsMin
  <1> HIDE DEF Weight, First, reached, min
  <1>4. min \in Nat /\ Told(t) = First(min) /\ t.minimum = min
    BY <1>1, <1>3 DEF Told, First, Signing!FirstOf, min
  <1>5. ASSUME NEW keys \in SUBSET Key, Weighs(account.weight, keys) >= account.threshold,
               Cardinality(keys) < min
        PROVE  FALSE
    <2> DEFINE fewer == min - 1
    <2>1. IsFiniteSet(keys) /\ Cardinality(keys) \in Nat
      BY FS_Subset, FS_CardinalityType DEF SignersKnown
    <2>2. fewer \in 0..Len(order) /\ fewer \in 0..(min - 1) /\ Cardinality(keys) <= fewer
      BY <1>1, <1>3, <1>5, <2>1
    <2>3. Weighs(account.weight, keys) <= Weighs(account.weight, First(fewer))
      <3>1. /\ First(fewer) \in SUBSET Key /\ Cardinality(First(fewer)) = fewer
            /\ \A j \in First(fewer), k \in Key \ First(fewer) : account.weight[k] <= account.weight[j]
        BY <1>2, <2>2
      <3>2. QED
        BY <1>1, <2>2, <3>1, HeaviestOutweigh
    <2>4. Weight(fewer) < account.threshold /\ Weight(fewer) = Weighs(account.weight, First(fewer))
      BY <1>2, <1>3, <2>2
    <2>5. Weighs(account.weight, keys) \in Nat /\ Weight(fewer) \in Nat
      BY <1>1, <1>2, <2>2, VotesAreFinite
    <2>6. QED
      BY <1>1, <1>5, <2>3, <2>4, <2>5
  <1>6. ASSUME NEW keys \in SUBSET Key, Weighs(account.weight, keys) >= account.threshold
        PROVE  Cardinality(keys) >= min
    <2>1. Cardinality(keys) \in Nat
      BY FS_Subset, FS_CardinalityType DEF SignersKnown
    <2>2. QED
      BY <1>4, <1>5, <1>6, <2>1
  <1>7. QED
    BY <1>2, <1>3, <1>4, <1>6 DEF FewestAreTold

\* What the signatures of an envelope weigh.
LEMMA SignaturesSuffice ==
  ASSUME SignersKnown, account \in Signing!Accounts,
         FewestAreTold(account, told), SignOnce(told, signed),
         Signing!Asked = Signing!ToSet(signed), account.threshold # 0
  PROVE  Signing!Verdict = "applied"
  <1>1. account.weight \in Weights /\ account.threshold \in Nat
    BY DEF Signing!Accounts, Weights, SignersKnown
  <1>2. /\ signed \in Seq(Told(told)) /\ Len(signed) \in Nat /\ DOMAIN signed = 1..Len(signed)
        /\ \A i, j \in 1..Len(signed) : signed[i] = signed[j] => i = j
        /\ \A i \in 1..Len(signed) : signed[i] \in Told(told)
    BY DEF SignOnce
  <1>3. ASSUME NEW n \in 0..Len(signed)
        PROVE  /\ Signing!FirstOf(signed, n) \in SUBSET Key
               /\ Cardinality(Signing!FirstOf(signed, n)) = n
    <2> DEFINE f == [i \in 1..n |-> signed[i]]
    <2>1. f \in Bijection(1..n, Signing!FirstOf(signed, n))
      BY <1>2 DEF Bijection, Injection, IsInjective, Surjection, Signing!FirstOf
    <2>2. Signing!FirstOf(signed, n) \in SUBSET Key
      BY <1>2 DEF Signing!FirstOf, FewestAreTold
    <2>3. QED
      BY <1>2, <2>1, <2>2, FS_CountingElements DEF ExistsBijection
  <1>4. Signing!FirstOf(signed, Len(signed)) = Told(told)
    <2>1. Signing!Asked = Told(told)
      BY DEF Signing!Asked, Signing!FirstOf, Told
    <2>2. Signing!ToSet(signed) = Signing!FirstOf(signed, Len(signed))
      BY <1>2 DEF Signing!ToSet, Signing!FirstOf
    <2>3. QED
      BY <2>1, <2>2
  <1>5. Len(signed) = told.minimum
    BY <1>2, <1>3, <1>4 DEF FewestAreTold
  <1>6. \A n \in 0..Len(signed) : Signing!Enough(n) <=> n > 0 /\ n = Len(signed)
    <2>1. SUFFICES ASSUME NEW n \in 0..Len(signed)
                   PROVE  Signing!Enough(n) <=> n > 0 /\ n = Len(signed)
      OBVIOUS
    <2> DEFINE keys == Signing!FirstOf(signed, n)
    <2>2. keys \in SUBSET Key /\ Cardinality(keys) = n
      BY <1>3
    <2>3. Signing!WeightOf(keys) = Weighs(account.weight, keys)
      BY <2>2, WeightIsVotes
    <2>4. Weighs(account.weight, keys) >= told.required => n >= told.minimum
      BY <2>2 DEF FewestAreTold
    <2>5. n = Len(signed) => Weighs(account.weight, keys) >= told.required
      BY <1>4 DEF FewestAreTold
    <2>6. told.required = account.threshold
      BY DEF FewestAreTold
    <2>7. Signing!Enough(n) <=> n > 0 /\ Signing!WeightOf(keys) >= account.threshold
      BY DEF Signing!Enough
    <2> HIDE DEF keys
    <2>8. QED
      BY <1>2, <1>5, <2>3, <2>4, <2>5, <2>6, <2>7
  <1>7. Len(signed) > 0
    <2>1. SUFFICES ASSUME Len(signed) = 0 PROVE FALSE
      BY <1>2
    <2>2. Told(told) = {}
      BY <1>4, <2>1 DEF Signing!FirstOf
    <2>3. Votes(account.weight, {}) = {}
      BY DEF Votes
    <2>4. Weighs(account.weight, Told(told)) = 0
      BY <2>2, <2>3, FS_EmptySet DEF Weighs
    <2>5. QED
      BY <1>1, <2>4 DEF FewestAreTold
  <1>8. Signing!Enough(Len(signed)) /\ ~ \E n \in 1..(Len(signed) - 1) : Signing!Enough(n)
    <2> DEFINE all == Len(signed)
    <2>0. all \in Nat
      BY <1>2
    <2> HIDE DEF all
    <2>1. all \in 0..all /\ all > 0
      BY <1>7, <2>0 DEF all
    <2>2. Signing!Enough(all)
      BY <1>6, <2>1 DEF all
    <2>3. ASSUME NEW n \in 1..(all - 1), Signing!Enough(n) PROVE FALSE
      <3>1. n \in 0..all /\ n # all
        BY <2>0
      <3>2. Signing!Enough(n) <=> n > 0 /\ n = Len(signed)
        BY <1>6, <3>1 DEF all
      <3>3. QED
        BY <2>3, <3>1, <3>2 DEF all
    <2>4. QED
      BY <2>2, <2>3 DEF all
  <1> DEFINE enough == Signing!Enough(Len(signed))
             extra == \E n \in 1..(Len(signed) - 1) : Signing!Enough(n)
  <1>9. Signing!Verdict = CASE ~enough -> "tx_bad_auth"
                            [] enough /\ extra -> "tx_bad_auth_extra"
                            [] OTHER -> "applied"
    BY Zenon DEF Signing!Verdict
  <1>10. enough /\ ~extra
    BY <1>8
  <1> HIDE DEF enough, extra
  <1>11. QED
    BY <1>9, <1>10

LEMMA InitSigning == Signing!Init => SigningInv
  BY DEF Signing!Init, SigningInv

\* One signature more, by a signer who was asked and had not signed.
LEMMA SignatureStep ==
  ASSUME SigningInv, stage = "collecting", NEW k \in Signing!Asked \ Signing!ToSet(signed),
         signed' = Append(signed, k), UNCHANGED <<account, told, stage>>
  PROVE  SigningInv'
  <1>1. k \in Told(told) /\ \A i \in DOMAIN signed : signed[i] # k
    BY DEF Signing!Asked, Signing!FirstOf, Told, Signing!ToSet
  <1>2. signed \in Seq(Told(told)) /\ \A i, j \in DOMAIN signed : signed[i] = signed[j] => i = j
    BY DEF SigningInv, SignOnce
  <1>3. /\ signed' \in Seq(Told(told)) /\ DOMAIN signed' = 1..(Len(signed) + 1)
        /\ \A i \in 1..Len(signed) : signed'[i] = signed[i]
        /\ signed'[Len(signed) + 1] = k /\ DOMAIN signed = 1..Len(signed) /\ Len(signed) \in Nat
    BY <1>1, <1>2, AppendProperties
  <1>4. \A i, j \in DOMAIN signed' : signed'[i] = signed'[j] => i = j
    BY <1>1, <1>2, <1>3
  <1>5. SignOnce(told', signed')
    BY <1>3, <1>4 DEF SignOnce
  <1>6. QED
    BY <1>5 DEF SigningInv

LEMMA NextSigning ==
  ASSUME SignersKnown, SigningInv, [Signing!Next]_(Signing!vars)
  PROVE  SigningInv'
  <1>1. CASE UNCHANGED Signing!vars
    BY <1>1 DEF Signing!vars, SigningInv
  <1>2. CASE Signing!BuildMultiSigPayment
    <2>1. CASE stage' = "refused" /\ UNCHANGED told
      BY <1>2, <2>1 DEF Signing!BuildMultiSigPayment, SigningInv
    <2>2. CASE ~ (stage' = "refused" /\ UNCHANGED told)
      <3>1. /\ Signing!AvailableWeight >= account.threshold
            /\ stage = "new" /\ stage' = "collecting" /\ UNCHANGED <<account, signed>>
        BY <1>2, <2>2 DEF Signing!BuildMultiSigPayment
      <3>2. PICK order \in Signing!HeaviestFirst :
              told' = [signers |-> order, required |-> account.threshold,
                       available |-> Signing!AvailableWeight,
                       minimum |-> Signing!MinimumSignatures(order)]
        BY <1>2, <2>2 DEF Signing!BuildMultiSigPayment
      <3>3. /\ told'.signers = order /\ told'.required = account.threshold
            /\ told'.minimum = Signing!MinimumSignatures(order)
        BY <3>2
      <3>4. FewestAreTold(account, told')
        BY <3>1, <3>3, GreedyIsFewest DEF SigningInv
      <3>5. signed' = <<>> /\ SignOnce(told', signed')
        BY <3>1 DEF SigningInv, SignOnce
      <3>6. QED
        BY <3>1, <3>4, <3>5 DEF SigningInv
    <2>3. QED
      BY <2>1, <2>2
  <1>3. CASE Signing!Submit
    <2>1. /\ stage = "collecting" /\ stage' = Signing!Verdict /\ UNCHANGED <<account, told, signed>>
          /\ Signing!Asked = Signing!ToSet(signed)
      BY <1>3 DEF Signing!Submit
    <2>2. Signing!Verdict \in {"tx_bad_auth", "tx_bad_auth_extra", "applied"}
      BY DEF Signing!Verdict
    <2>3. told.required = 0 \/ Signing!Verdict = "applied"
      BY <2>1, SignaturesSuffice DEF SigningInv, FewestAreTold
    <2>4. QED
      BY <2>1, <2>2, <2>3 DEF SigningInv
  <1>4. ASSUME NEW k \in Key, Signing!WalletSigns(k) PROVE SigningInv'
    BY <1>4, SignatureStep DEF Signing!WalletSigns
  <1>5. ASSUME NEW k \in Key, NEW allowed, Signing!SignTransactionWithSecret(k, allowed)
        PROVE  SigningInv'
    <2>1. /\ stage = "collecting" /\ k \in Signing!Asked /\ UNCHANGED <<account, told, stage>>
          /\ signed' = signed \/ (signed' = Append(signed, k) /\ k \notin Signing!ToSet(signed))
      BY <1>5 DEF Signing!SignTransactionWithSecret, Signing!HasSignature
    <2>2. CASE signed' = signed
      BY <2>1, <2>2 DEF SigningInv
    <2>3. QED
      BY <2>1, <2>2, SignatureStep
  <1>6. QED
    BY <1>1, <1>2, <1>3, <1>4, <1>5 DEF Signing!Next

\* As many signatures as a caller is told carry the payment through, in whatever order they
\* come, and no smaller number of signers could; for any number of keys and any weights.
THEOREM ToldSignersSuffice == ASSUME SignersKnown PROVE Signing!Spec => []FewestSuffice
  <1>1. SigningInv => FewestSuffice
    <2>1. SUFFICES ASSUME SigningInv, stage = "collecting", NEW keys \in SUBSET Key,
                          Signing!WeightOf(keys) >= told.required
                   PROVE  Signing!Cardinality(keys) >= told.minimum
      BY DEF SigningInv, FewestSuffice, Signing!FewestSuffice
    <2>2. Signing!WeightOf(keys) = Weighs(account.weight, keys)
      BY <2>1, WeightIsVotes DEF SigningInv
    <2>3. QED
      BY <2>1, <2>2, SigningCardinality DEF SigningInv, FewestAreTold
  <1>2. SigningInv /\ [Signing!Next]_(Signing!vars) => SigningInv'
    BY NextSigning
  <1>3. QED
    BY <1>1, <1>2, InitSigning, PTL DEF Signing!Spec

===============================================================================
