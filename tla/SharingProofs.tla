---------------------------- MODULE SharingProofs ----------------------------
(***************************************************************************)
(* For every number of requests, resends and submissions from elsewhere:     *)
(* the chain of promises lets one transaction of the account be under way    *)
(* at a time, a request takes effect at most once, and requests that share   *)
(* the cached sequence number never refuse each other's transactions.  For   *)
(* every number of callers: they share one connection to Redis.              *)
(***************************************************************************)
EXTENDS MCSharing, FiniteSetTheorems, TLAPS

-----------------------------------------------------------------------------
(* Types *)

Stage == {"new", "queued", "sent", "settled"}
Previous == Run \cup {NoRun}
Sends == 0..MaxSends
RunRecord == [pc : Stage, prev : Previous, seq : Nat, sends : Sends]

\* The stages and bounds a step writes.
LEMMA StageType ==
  /\ "new" \in Stage /\ "queued" \in Stage /\ "sent" \in Stage /\ "settled" \in Stage
  /\ 1 \in Sends
  BY SendsAssumption DEF Stage, Sends

LEMMA RunType == TypeOK => /\ run \in [Run -> RunRecord]
                           /\ tail \in Previous
  BY DEF TypeOK, RunRecord, Stage, Previous, Sends

LEMMA NoRunIsNoRun == NoRun \notin Run
  BY DEF NoRun, Run

LEMMA Turns ==
  ASSUME NEW p \in Request
  PROVE  <<p, 1>> \in Run /\ <<p, 2>> \in Run /\ <<p, 1>> # <<p, 2>>
  BY DEF Run

LEMMA TurnOf ==
  ASSUME NEW r \in Run
  PROVE  r[1] \in Request /\ r[2] \in {1, 2} /\ r = <<r[1], r[2]>>
  BY DEF Run

\* What a step does to the stages of the turns and to their chain.
Same ==
  /\ tail' = tail
  /\ \A s \in Run : run'[s].pc = run[s].pc /\ run'[s].prev = run[s].prev

Others(S) == \A s \in Run \ S : run'[s] = run[s]

Calls(p) ==
  /\ answer[p] = "new" /\ answer'[p] = "waiting"
  /\ run'[<<p, 1>>].pc = "queued" /\ run'[<<p, 1>>].prev = tail
  /\ tail' = <<p, 1>>
  /\ Others({<<p, 1>>})

Signs(r) ==
  /\ Ready(r)
  /\ run'[r].pc = "sent" /\ run'[r].prev = run[r].prev
  /\ tail' = tail
  /\ Others({r})

Settles(r) ==
  /\ Ready(r) \/ run[r].pc = "sent"
  /\ run'[r].pc = "settled"
  /\ tail' = TailAfter(r)
  /\ Others({r})

Retries(r) ==
  /\ r[2] = 1 /\ Undecided(r)
  /\ result' = result /\ limbo' = limbo \ {r}
  /\ run'[r].pc = "settled"
  /\ run'[<<r[1], 2>>].pc = "queued" /\ run'[<<r[1], 2>>].prev = TailAfter(r)
  /\ tail' = <<r[1], 2>>
  /\ Others({r, <<r[1], 2>>})

LEMMA SettleEffect ==
  ASSUME TypeOK, NEW r \in Run, NEW res \in Answers, Settle(r, res),
         Ready(r) \/ run[r].pc = "sent"
  PROVE  /\ Settles(r)
         /\ tail' \in Run \cup {NoRun}
         /\ run' \in [Run -> RunRecord]
         /\ answer' \in [Request -> Answers]
         /\ answer' = [answer EXCEPT ![r[1]] = res]
  <1>1. run \in [Run -> RunRecord] /\ answer \in [Request -> Answers]
        /\ tail \in Run \cup {NoRun}
    BY DEF TypeOK, RunRecord, Stage, Previous, Sends
  <1>2. run' = [run EXCEPT ![r].pc = "settled"]
    BY DEF Settle
  <1>3. run'[r].pc = "settled" /\ Others({r})
    BY <1>1, <1>2 DEF Others, RunRecord
  <1>4. run' \in [Run -> RunRecord]
    BY <1>1, <1>2, StageType DEF RunRecord
  <1>5. answer' \in [Request -> Answers] /\ answer' = [answer EXCEPT ![r[1]] = res]
    BY <1>1, TurnOf DEF Settle
  <1>6. tail' = TailAfter(r) /\ tail' \in Run \cup {NoRun}
    BY <1>1 DEF Settle, TailAfter
  <1>7. QED
    BY <1>3, <1>4, <1>5, <1>6 DEF Settles

LEMMA SignEffect ==
  ASSUME TypeOK, NEW r \in Run, NEW seq \in Nat, Sign(r, seq), Ready(r)
  PROVE  /\ Signs(r)
         /\ run' \in [Run -> RunRecord]
         /\ run'[r].seq = seq + 1
         /\ cache' = [seq |-> seq + 1, fresh |-> TRUE]
         /\ cache' \in [seq : Nat, fresh : BOOLEAN]
         /\ UNCHANGED <<tail, answer, ledger, result, limbo, outside>>
  <1>1. run \in [Run -> RunRecord]
    BY DEF TypeOK, RunRecord, Stage, Previous, Sends
  <1>2. run' = [run EXCEPT ![r].pc = "sent", ![r].seq = seq + 1, ![r].sends = 1]
    BY DEF Sign
  <1>3. /\ run'[r].pc = "sent" /\ run'[r].seq = seq + 1
        /\ run'[r].prev = run[r].prev /\ Others({r})
    BY <1>1, <1>2 DEF Others, RunRecord
  <1>4. run' \in [Run -> RunRecord]
    <2> DEFINE n == seq + 1
    <2>1. n \in Nat /\ run' = [run EXCEPT ![r].pc = "sent", ![r].seq = n, ![r].sends = 1]
      BY <1>2
    <2> HIDE DEF n
    <2>2. QED
      BY <1>1, <2>1, StageType DEF RunRecord
  <1>5. QED
    BY <1>3, <1>4 DEF Signs, Sign

LEMMA RetryEffect ==
  ASSUME TypeOK, NEW r \in Run, r[2] = 1, RetryTurn(r)
  PROVE  /\ run' \in [Run -> RunRecord]
         /\ run'[r].pc = "settled"
         /\ run'[<<r[1], 2>>].pc = "queued" /\ run'[<<r[1], 2>>].prev = TailAfter(r)
         /\ tail' = <<r[1], 2>> /\ <<r[1], 2>> \in Run
         /\ Others({r, <<r[1], 2>>})
         /\ cache' = NoEntry /\ answer' = answer
  <1> DEFINE again == <<r[1], 2>>
             after == TailAfter(r)
  <1>1. /\ run \in [Run -> RunRecord]
        /\ after \in Previous
        /\ again \in Run /\ again # r
    BY RunType, TurnOf, Turns DEF Previous, TailAfter
  <1>2. /\ run' = [run EXCEPT ![r].pc = "settled",
                              ![again].pc = "queued", ![again].prev = after]
        /\ tail' = again /\ cache' = NoEntry /\ answer' = answer
    BY DEF RetryTurn
  <1> HIDE DEF again, after
  <1>3. /\ run'[r].pc = "settled"
        /\ run'[again].pc = "queued" /\ run'[again].prev = after
        /\ Others({r, again})
    BY <1>1, <1>2 DEF Others, RunRecord
  <1>4. run' \in [Run -> RunRecord]
    BY <1>1, <1>2, StageType DEF RunRecord
  <1>5. QED
    BY <1>1, <1>2, <1>3, <1>4 DEF again, after

\* A step on the account's chain of turns, with the types it keeps.
Chained ==
  \/ Same
  \/ \E p \in Request : Calls(p)
  \/ \E r \in Run : Signs(r) \/ Settles(r) \/ Retries(r)

LEMMA ReplyEffect ==
  ASSUME TypeOK, NEW r \in Run, Reply(r)
  PROVE  TypeOK' /\ (Same \/ Settles(r) \/ Retries(r))
  <1>1. /\ run \in [Run -> RunRecord] /\ tail \in Run \cup {NoRun}
        /\ cache \in [seq : Nat, fresh : BOOLEAN]
        /\ answer \in [Request -> Answers] /\ ledger \in Nat
        /\ result \in [Run -> {None, "ok", "failed"}]
        /\ limbo \subseteq Run /\ outside \in 0..MaxOutside /\ disturbed \in BOOLEAN
    BY RunType DEF TypeOK
  <1>2. run[r].pc = "sent"
    BY DEF Reply, Apply, Replay, Refuse, BadSeq, Busy, TimeOut, Undecided
  <1>3. ASSUME NEW res \in {"ok", "failed"}, Apply(r, res)
        PROVE  TypeOK' /\ Settles(r)
    <2>1. res \in Answers /\ Settle(r, res)
      BY <1>3 DEF Answers, Apply
    <2>2. /\ cache' = cache /\ outside' = outside /\ disturbed' = disturbed
          /\ ledger' = ledger + 1 /\ limbo' = limbo \ {r}
          /\ result' = [result EXCEPT ![r] = res]
      BY <1>3 DEF Apply
    <2>3. QED
      BY <1>1, <1>2, <2>1, <2>2, SettleEffect DEF TypeOK, RunRecord, Stage, Previous, Sends
  <1>4. ASSUME Replay(r) PROVE TypeOK' /\ Settles(r)
    <2>1. result[r] \in Answers /\ Settle(r, result[r])
      BY <1>1, <1>4 DEF Answers, Replay, None
    <2>2. QED
      BY <1>1, <1>2, <1>4, <2>1, SettleEffect
         DEF Replay, TypeOK, RunRecord, Stage, Previous, Sends
  <1>5. ASSUME Refuse(r) PROVE TypeOK' /\ Settles(r)
    <2>1. "failed" \in Answers /\ Settle(r, "failed")
      BY <1>5 DEF Answers, Refuse
    <2>2. QED
      BY <1>1, <1>2, <1>5, <2>1, SettleEffect
         DEF Refuse, TypeOK, RunRecord, Stage, Previous, Sends
  <1>6. ASSUME TimeOut(r) PROVE TypeOK' /\ Settles(r)
    <2>1. "unknown" \in Answers /\ Settle(r, "unknown")
      BY <1>6 DEF Answers, TimeOut
    <2>2. QED
      BY <1>1, <1>2, <1>6, <2>1, SettleEffect
         DEF TimeOut, TypeOK, RunRecord, Stage, Previous, Sends
  <1>7. ASSUME BadSeq(r) PROVE TypeOK' /\ (Settles(r) \/ Retries(r))
    <2>1. /\ limbo' = limbo \ {r} /\ UNCHANGED <<ledger, result, outside, disturbed>>
          /\ Undecided(r)
      BY <1>7 DEF BadSeq
    <2>2. CASE r[2] = 1
      <3>1. RetryTurn(r)
        BY <1>7, <2>2 DEF BadSeq
      <3>2. Retries(r)
        BY <2>1, <2>2, <3>1, RetryEffect DEF Retries
      <3>3. /\ run' \in [Run -> RunRecord] /\ tail' \in Run \cup {NoRun}
            /\ cache' \in [seq : Nat, fresh : BOOLEAN] /\ answer' = answer
        <4>1. /\ run' \in [Run -> RunRecord]
              /\ tail' = <<r[1], 2>> /\ <<r[1], 2>> \in Run
              /\ cache' = NoEntry /\ answer' = answer
          BY <2>2, <3>1, RetryEffect, Zenon
        <4>2. QED
          BY <4>1 DEF NoEntry
      <3>4. QED
        BY <1>1, <2>1, <3>2, <3>3 DEF TypeOK, RunRecord, Stage, Previous, Sends
    <2>3. CASE r[2] # 1
      <3>1. "bad_seq" \in Answers /\ Settle(r, "bad_seq") /\ UNCHANGED cache
        BY <1>7, <2>3 DEF Answers, BadSeq
      <3>2. QED
        BY <1>1, <1>2, <2>1, <3>1, SettleEffect DEF TypeOK, RunRecord, Stage, Previous, Sends
    <2>4. QED
      BY <2>2, <2>3
  <1>8. ASSUME Busy(r) PROVE TypeOK' /\ (Settles(r) \/ Same)
    <2>1. /\ limbo' \subseteq Run /\ UNCHANGED <<cache, ledger, result, outside>>
          /\ disturbed' \in BOOLEAN
      BY <1>1, <1>8 DEF Busy
    <2>2. CASE run[r].sends < MaxSends
      <3> DEFINE n == run[r].sends + 1
      <3>1. n \in Sends
        BY <1>1, <2>2, SendsAssumption DEF RunRecord, Sends
      <3>2. run' = [run EXCEPT ![r].sends = n] /\ UNCHANGED <<tail, answer>>
        BY <1>8, <2>2 DEF Busy
      <3> HIDE DEF n
      <3>3. run' \in [Run -> RunRecord]
        BY <1>1, <3>1, <3>2 DEF RunRecord
      <3>4. Same
        BY <1>1, <3>2 DEF Same, RunRecord
      <3>5. QED
        BY <1>1, <2>1, <3>2, <3>3, <3>4 DEF TypeOK, RunRecord, Stage, Previous, Sends
    <2>3. CASE ~(run[r].sends < MaxSends)
      <3>1. "unknown" \in Answers /\ Settle(r, "unknown")
        BY <1>8, <2>3 DEF Answers, Busy
      <3>2. QED
        BY <1>1, <1>2, <2>1, <3>1, SettleEffect DEF TypeOK, RunRecord, Stage, Previous, Sends
    <2>4. QED
      BY <2>2, <2>3
  <1>9. QED
    BY <1>3, <1>4, <1>5, <1>6, <1>7, <1>8 DEF Reply

LEMMA NextEffect ==
  ASSUME TypeOK, [Next]_vars
  PROVE  TypeOK' /\ Chained
  <1>1. /\ run \in [Run -> RunRecord] /\ tail \in Run \cup {NoRun}
        /\ cache \in [seq : Nat, fresh : BOOLEAN]
        /\ answer \in [Request -> Answers] /\ ledger \in Nat
        /\ result \in [Run -> {None, "ok", "failed"}]
        /\ limbo \subseteq Run /\ outside \in 0..MaxOutside /\ disturbed \in BOOLEAN
    BY RunType DEF TypeOK
  <1>2. ASSUME NEW p \in Request, Call(p) PROVE TypeOK' /\ Calls(p)
    <2> DEFINE r == <<p, 1>>
    <2>1. r \in Run /\ tail \in Previous /\ run \in [Run -> RunRecord]
      BY Turns, RunType
    <2>2. /\ run' = [run EXCEPT ![r].pc = "queued", ![r].prev = tail]
          /\ tail' = r /\ answer[p] = "new"
          /\ answer' = [answer EXCEPT ![p] = "waiting"]
          /\ UNCHANGED <<cache, ledger, result, limbo, outside, disturbed>>
      BY <1>2 DEF Call
    <2> HIDE DEF r
    <2>3. run'[r].pc = "queued" /\ run'[r].prev = tail /\ Others({r})
      BY <1>1, <2>1, <2>2 DEF Others, RunRecord
    <2>4. run' \in [Run -> RunRecord]
      <3>1. run' = [run EXCEPT ![r].pc = "queued", ![r].prev = tail]
        BY <2>2
      <3>2. QED
        BY <2>1, <3>1, StageType DEF RunRecord
    <2>5. answer' \in [Request -> Answers] /\ answer'[p] = "waiting"
      BY <1>1, <2>2 DEF Answers
    <2>6. QED
      BY <1>1, <2>1, <2>2, <2>3, <2>4, <2>5
         DEF r, Calls, TypeOK, RunRecord, Stage, Previous, Sends
  <1>3. ASSUME NEW r \in Run, Begin(r) PROVE TypeOK' /\ (Signs(r) \/ Settles(r))
    <2>1. CASE UseCached(r)
      <3>1. cache.seq \in Nat /\ Ready(r) /\ Sign(r, cache.seq) /\ disturbed' = disturbed
        BY <1>1, <2>1 DEF UseCached
      <3>2. QED
        BY <1>1, <3>1, SignEffect DEF TypeOK, RunRecord, Stage, Previous, Sends
    <2>2. CASE Reload(r)
      <3>1. ledger \in Nat /\ Ready(r) /\ Sign(r, ledger) /\ disturbed' \in BOOLEAN
        BY <1>1, <2>2 DEF Reload
      <3>2. QED
        BY <1>1, <3>1, SignEffect DEF TypeOK, RunRecord, Stage, Previous, Sends
    <2>3. CASE FailBeforeBuild(r)
      <3>1. "failed" \in Answers /\ Ready(r) /\ Settle(r, "failed")
            /\ UNCHANGED <<cache, ledger, result, limbo, outside, disturbed>>
        BY <2>3 DEF Answers, FailBeforeBuild
      <3>2. QED
        BY <1>1, <3>1, SettleEffect DEF TypeOK, RunRecord, Stage, Previous, Sends
    <2>4. QED
      BY <1>3, <2>1, <2>2, <2>3 DEF Begin
  <1>4. ASSUME NEW r \in Run, Resolve(r) PROVE TypeOK' /\ Same
    <2>1. /\ limbo' \subseteq Run /\ ledger' \in Nat
          /\ result' \in [Run -> {None, "ok", "failed"}]
          /\ UNCHANGED <<cache, tail, run, answer, outside, disturbed>>
      BY <1>1, <1>4 DEF Resolve
    <2>2. QED
      BY <1>1, <2>1 DEF Same, TypeOK, RunRecord, Stage, Previous, Sends
  <1>5. ASSUME Expire PROVE TypeOK' /\ Same
    BY <1>1, <1>5 DEF Expire, Same, TypeOK, RunRecord, Stage, Previous, Sends
  <1>6. ASSUME Outside PROVE TypeOK' /\ Same
    <2>1. ledger' \in Nat /\ outside' \in 0..MaxOutside /\ disturbed' \in BOOLEAN
          /\ UNCHANGED <<cache, tail, run, answer, result, limbo>>
      BY <1>1, <1>6, OutsideAssumption DEF Outside
    <2>2. QED
      BY <1>1, <2>1 DEF Same, TypeOK, RunRecord, Stage, Previous, Sends
  <1>7. ASSUME UNCHANGED vars PROVE TypeOK' /\ Same
    BY <1>1, <1>7 DEF vars, Same, TypeOK, RunRecord, Stage, Previous, Sends
  <1>8. QED
    BY <1>2, <1>3, <1>4, <1>5, <1>6, <1>7, ReplyEffect DEF Next, Chained

LEMMA InitTypes == Init => TypeOK
  <1> SUFFICES ASSUME Init PROVE TypeOK
    OBVIOUS
  <1>1. NewRun \in RunRecord
    BY SendsAssumption DEF NewRun, RunRecord, Stage, Previous, Sends
  <1>2. run \in [Run -> RunRecord]
    BY <1>1 DEF Init
  <1>3. cache \in [seq : Nat, fresh : BOOLEAN] /\ tail \in Run \cup {NoRun}
    BY DEF Init, NoEntry
  <1>4. /\ answer \in [Request -> Answers]
        /\ result \in [Run -> {None, "ok", "failed"}]
    BY DEF Init, Answers
  <1>5. ledger \in Nat /\ limbo \subseteq Run /\ outside \in 0..MaxOutside
    BY OutsideAssumption DEF Init
  <1>6. disturbed \in BOOLEAN
    BY DEF Init
  <1>7. QED
    BY <1>2, <1>3, <1>4, <1>5, <1>6 DEF TypeOK, RunRecord, Stage, Previous, Sends

\* The promises, the answers and the numbers of an account always have their types.
THEOREM SequenceTyping == Spec => []TypeOK
  <1>1. Init => TypeOK
    BY InitTypes
  <1>2. TypeOK /\ [Next]_vars => TypeOK'
    BY NextEffect
  <1>3. QED
    BY <1>1, <1>2, PTL DEF Spec

-----------------------------------------------------------------------------
(* A request takes effect at most once: its second turn is taken only when  *)
(* Horizon has refused its first transaction for good.                      *)

OnceInv ==
  /\ TypeOK
  /\ \A p \in Request : answer[p] = "new" => run[<<p, 1>>].pc = "new"
  /\ \A p \in Request :
       run[<<p, 2>>].pc # "new" => /\ run[<<p, 1>>].pc = "settled"
                                   /\ result[<<p, 1>>] = None
                                   /\ <<p, 1>> \notin limbo
  /\ \A r \in Run :
       run[r].pc \in {"new", "queued"} => result[r] = None /\ r \notin limbo

\* Only a transaction that is sent, or may still reach the network, gets a result
\* or is lost sight of.
LEMMA ResultStep ==
  ASSUME TypeOK, [Next]_vars, NEW r \in Run, run[r].pc # "sent", r \notin limbo
  PROVE  result'[r] = result[r] /\ r \notin limbo'
  <1>1. result \in [Run -> {None, "ok", "failed"}]
    BY DEF TypeOK
  <1>2. ASSUME NEW q \in Run, Reply(q) PROVE result'[r] = result[r] /\ r \notin limbo'
    <2>1. q # r
      BY <1>2 DEF Reply, Apply, Replay, Refuse, BadSeq, Busy, TimeOut, Undecided
    <2>2. result' = result \/ \E res : result' = [result EXCEPT ![q] = res]
      BY <1>2, Zenon DEF Reply, Apply, Replay, Refuse, BadSeq, Busy, TimeOut
    <2>3. limbo' = limbo \/ limbo' = limbo \ {q} \/ limbo' = limbo \cup {q}
      BY <1>2 DEF Reply, Apply, Replay, Refuse, BadSeq, Busy, TimeOut
    <2>4. QED
      BY <1>1, <2>1, <2>2, <2>3
  <1>3. ASSUME NEW q \in Run, Resolve(q) PROVE result'[r] = result[r] /\ r \notin limbo'
    <2>1. q # r
      BY <1>3 DEF Resolve
    <2>2. QED
      BY <1>1, <1>3, <2>1 DEF Resolve
  <1>4. ASSUME NEW q \in Run, Begin(q) PROVE UNCHANGED <<result, limbo>>
    BY <1>4 DEF Begin, UseCached, Reload, Sign, FailBeforeBuild
  <1>5. QED
    BY <1>2, <1>3, <1>4 DEF Next, Call, Expire, Outside, vars

\* An answered request is not new again.
LEMMA AnswerStep ==
  ASSUME TypeOK, [Next]_vars, NEW p \in Request, answer'[p] = "new"
  PROVE  answer[p] = "new"
  <1>1. answer \in [Request -> Answers] /\ result \in [Run -> {None, "ok", "failed"}]
    BY DEF TypeOK
  <1>2. ASSUME NEW r \in Run, NEW res, res # "new", Settle(r, res) PROVE answer[p] = "new"
    BY <1>1, <1>2 DEF Settle
  <1>3. ASSUME NEW r \in Run, Reply(r) PROVE answer[p] = "new"
    <2>1. result[r] # "new"
      BY <1>1 DEF None
    <2>2. \/ answer' = answer
          \/ Settle(r, "ok") \/ Settle(r, "failed") \/ Settle(r, result[r])
          \/ Settle(r, "bad_seq") \/ Settle(r, "unknown")
      BY <1>3 DEF Reply, Apply, Replay, Refuse, BadSeq, Busy, TimeOut, RetryTurn
    <2>3. QED
      BY <1>2, <2>1, <2>2
  <1>4. ASSUME NEW r \in Run, Begin(r) PROVE answer[p] = "new"
    <2>1. answer' = answer \/ Settle(r, "failed")
      BY <1>4 DEF Begin, UseCached, Reload, Sign, FailBeforeBuild
    <2>2. QED
      BY <1>2, <2>1
  <1>5. ASSUME NEW q \in Request, Call(q) PROVE answer[p] = "new"
    BY <1>1, <1>5 DEF Call
  <1>6. QED
    BY <1>3, <1>4, <1>5 DEF Next, Resolve, Expire, Outside, vars

\* Stages only advance.
LEMMA StageStep ==
  ASSUME OnceInv, Chained, NEW r \in Run
  PROVE  /\ run[r].pc = "settled" => run'[r].pc = "settled"
         /\ run'[r].pc = "new" => run[r].pc = "new"
         /\ run'[r].pc = "queued" => run[r].pc \in {"new", "queued"}
  <1>1. CASE Same
    BY <1>1 DEF Same
  <1>2. ASSUME NEW p \in Request, Calls(p)
        PROVE  /\ run[r].pc = "settled" => run'[r].pc = "settled"
               /\ run'[r].pc = "new" => run[r].pc = "new"
               /\ run'[r].pc = "queued" => run[r].pc \in {"new", "queued"}
    BY <1>2, Turns DEF OnceInv, Calls, Others
  <1>3. ASSUME NEW q \in Run, Signs(q) \/ Settles(q)
        PROVE  /\ run[r].pc = "settled" => run'[r].pc = "settled"
               /\ run'[r].pc = "new" => run[r].pc = "new"
               /\ run'[r].pc = "queued" => run[r].pc \in {"new", "queued"}
    BY <1>3 DEF Signs, Settles, Others, Ready
  <1>4. ASSUME NEW q \in Run, Retries(q)
        PROVE  /\ run[r].pc = "settled" => run'[r].pc = "settled"
               /\ run'[r].pc = "new" => run[r].pc = "new"
               /\ run'[r].pc = "queued" => run[r].pc \in {"new", "queued"}
    <2>1. q[1] \in Request /\ q = <<q[1], 1>>
      BY <1>4, TurnOf DEF Retries
    <2>2. run[q].pc = "sent"
      BY <1>4 DEF Retries, Undecided
    <2>3. run[<<q[1], 2>>].pc = "new"
      BY <2>1, <2>2 DEF OnceInv
    <2>4. QED
      BY <1>4, <2>2, <2>3 DEF Retries, Others
  <1>5. QED
    BY <1>1, <1>2, <1>3, <1>4 DEF Chained

LEMMA NextOnce == OnceInv /\ [Next]_vars => OnceInv'
  <1> SUFFICES ASSUME OnceInv, [Next]_vars PROVE OnceInv'
    OBVIOUS
  <1>1. TypeOK /\ TypeOK' /\ Chained
    BY NextEffect DEF OnceInv
  <1>2. ASSUME NEW p \in Request, answer'[p] = "new" PROVE run'[<<p, 1>>].pc = "new"
    <2>1. answer[p] = "new" /\ run[<<p, 1>>].pc = "new"
      BY <1>1, <1>2, AnswerStep DEF OnceInv
    <2>2. ASSUME NEW q \in Request, Calls(q) PROVE run'[<<p, 1>>] = run[<<p, 1>>]
      BY <1>2, <2>2, Turns DEF Calls, Others
    <2>3. ASSUME NEW r \in Run, Signs(r) \/ Settles(r)
          PROVE  run'[<<p, 1>>] = run[<<p, 1>>]
      BY <2>1, <2>3, Turns DEF Signs, Settles, Others, Ready
    <2>4. ASSUME NEW r \in Run, Retries(r) PROVE run'[<<p, 1>>] = run[<<p, 1>>]
      BY <2>1, <2>4, Turns DEF Retries, Others, Undecided
    <2>5. QED
      BY <1>1, <2>1, <2>2, <2>3, <2>4, Turns DEF Chained, Same
  <1>3. ASSUME NEW p \in Request, run'[<<p, 2>>].pc # "new"
        PROVE  /\ run'[<<p, 1>>].pc = "settled"
               /\ result'[<<p, 1>>] = None
               /\ <<p, 1>> \notin limbo'
    <2>1. CASE run[<<p, 2>>].pc # "new"
      <3>1. /\ run[<<p, 1>>].pc = "settled" /\ result[<<p, 1>>] = None
            /\ <<p, 1>> \notin limbo
        BY <2>1 DEF OnceInv
      <3>2. QED
        BY <1>1, <3>1, Turns, StageStep, ResultStep
    <2>2. CASE run[<<p, 2>>].pc = "new"
      <3>1. PICK q \in Run : Retries(q) /\ q[1] = p
        <4>1. ~Same
          BY <1>3, <2>2, Turns DEF Same
        <4>2. \A s \in Request : ~Calls(s)
          BY <1>3, <2>2, Turns DEF Calls, Others
        <4>3. \A s \in Run : ~Signs(s) /\ ~Settles(s)
          BY <1>3, <2>2, Turns DEF Signs, Settles, Others, Ready
        <4>4. PICK q \in Run : Retries(q)
          BY <1>1, <4>1, <4>2, <4>3 DEF Chained
        <4>5. q = <<q[1], 1>>
          BY <4>4, TurnOf DEF Retries
        <4>6. q[1] = p
          <5>1. run[q].pc = "sent"
            BY <4>4 DEF Retries, Undecided
          <5>2. <<p, 2>> \in {q, <<q[1], 2>>}
            BY <1>3, <2>2, <4>4, Turns DEF Retries, Others
          <5>3. <<p, 2>> = <<q[1], 2>>
            BY <2>2, <5>1, <5>2
          <5>4. QED
            BY <5>3
        <4>7. QED
          BY <4>4, <4>6
      <3>2. q = <<p, 1>>
        BY <3>1, TurnOf DEF Retries
      <3>3. QED
        BY <3>1, <3>2 DEF Retries, Undecided
    <2>3. QED
      BY <2>1, <2>2
  <1>4. ASSUME NEW r \in Run, run'[r].pc \in {"new", "queued"}
        PROVE  result'[r] = None /\ r \notin limbo'
    <2>1. run[r].pc \in {"new", "queued"}
      BY <1>1, <1>4, StageStep
    <2>2. result[r] = None /\ r \notin limbo
      BY <2>1 DEF OnceInv
    <2>3. QED
      BY <1>1, <2>1, <2>2, ResultStep
  <1>5. QED
    BY <1>1, <1>2, <1>3, <1>4 DEF OnceInv

LEMMA InitOnce == Init => OnceInv
  <1> SUFFICES ASSUME Init PROVE OnceInv
    OBVIOUS
  <1>1. TypeOK
    BY InitTypes
  <1>2. /\ \A r \in Run : run[r].pc = "new" /\ result[r] = None /\ r \notin limbo
    BY DEF Init, NewRun
  <1>3. QED
    BY <1>1, <1>2, Turns DEF OnceInv

\* Whatever was sent again, timed out or retried, a request takes effect at most
\* once.
THEOREM AtMostOnce == Spec => []AppliedAtMostOnce
  <1>1. OnceInv => AppliedAtMostOnce
    <2> SUFFICES ASSUME OnceInv, NEW p \in Request, result[<<p, 2>>] = "ok"
                 PROVE  result[<<p, 1>>] # "ok"
      BY DEF AppliedAtMostOnce
    <2>1. run[<<p, 2>>].pc # "new"
      BY Turns DEF OnceInv, None
    <2>2. QED
      BY <2>1 DEF OnceInv, None
  <1>2. QED
    BY <1>1, InitOnce, NextOnce, PTL DEF Spec

-----------------------------------------------------------------------------
(* The chain of promises.  Unsettled turns stand in line at the places h to t, *)
(* each waiting for the one before it; the account's next caller will wait   *)
(* for the last.                                                            *)

Unsettled(x) == x.pc \in {"queued", "sent"}

Line(pos, h, t) ==
  /\ h <= t + 1
  /\ \A r \in Run : Unsettled(run[r]) => pos[r] \in h..t
  /\ \A r, s \in Run : Unsettled(run[r]) /\ Unsettled(run[s]) /\ pos[r] = pos[s] => r = s
  /\ \A r \in Run : Unsettled(run[r]) /\ pos[r] > h =>
        run[r].prev \in Run /\ Unsettled(run[run[r].prev]) /\ pos[run[r].prev] = pos[r] - 1
  /\ \A r \in Run : run[r].pc = "sent" => pos[r] = h
  /\ IF tail = NoRun
     THEN \A r \in Run : ~Unsettled(run[r])
     ELSE tail \in Run /\ Unsettled(run[tail]) /\ pos[tail] = t
  /\ tail = NoRun => h = t + 1

InLine == \E pos \in [Run -> Nat], h, t \in Nat : Line(pos, h, t)

\* A turn that may begin, and one that has begun, is at the head.
LEMMA HeadOfLine ==
  ASSUME TypeOK, NEW pos \in [Run -> Nat], NEW h \in Nat, NEW t \in Nat, Line(pos, h, t),
         NEW r \in Run, Ready(r) \/ run[r].pc = "sent"
  PROVE  Unsettled(run[r]) /\ pos[r] = h
  <1>1. CASE run[r].pc = "sent"
    BY <1>1 DEF Line, Unsettled
  <1>2. CASE Ready(r)
    <2>1. Unsettled(run[r]) /\ pos[r] \in h..t
      BY <1>2 DEF Ready, Unsettled, Line
    <2>2. ~(pos[r] > h)
      BY <1>2, <2>1 DEF Ready, Unsettled, Line
    <2>3. QED
      BY <2>1, <2>2
  <1>3. QED
    BY <1>1, <1>2

LEMMA OneTurn ==
  ASSUME TypeOK, InLine, NEW r \in Run, NEW s \in Run,
         Ready(r) \/ run[r].pc = "sent", Ready(s) \/ run[s].pc = "sent"
  PROVE  r = s
  <1>1. PICK pos \in [Run -> Nat], h \in Nat, t \in Nat : Line(pos, h, t)
    BY DEF InLine
  <1>2. /\ Unsettled(run[r]) /\ pos[r] = h
        /\ Unsettled(run[s]) /\ pos[s] = h
    BY <1>1, HeadOfLine
  <1>3. QED
    BY <1>1, <1>2 DEF Line

LEMMA JoinLine ==
  ASSUME OnceInv, NEW pos \in [Run -> Nat], NEW h \in Nat, NEW t \in Nat, Line(pos, h, t),
         NEW p \in Request, Calls(p)
  PROVE  InLine'
  <1> DEFINE n == <<p, 1>>
             pos2 == [pos EXCEPT ![n] = t + 1]
  <1>1. n \in Run /\ run[n].pc = "new" /\ n # NoRun
    BY Turns, NoRunIsNoRun DEF Calls, OnceInv
  <1>2. ~Unsettled(run[n]) /\ run'[n].pc = "queued" /\ run'[n].prev = tail /\ tail' = n
    BY <1>1 DEF Unsettled, Calls
  <1>3. \A s \in Run : s # n => run'[s] = run[s]
    BY DEF Calls, Others
  <1>4. /\ pos2 \in [Run -> Nat] /\ pos2[n] = t + 1
        /\ \A s \in Run : s # n => pos2[s] = pos[s]
    BY <1>1
  <1> HIDE DEF n, pos2
  <1>5. \A s \in Run : Unsettled(run'[s]) <=> s = n \/ Unsettled(run[s])
    BY <1>1, <1>2, <1>3 DEF Unsettled
  <1>6. \A s \in Run : Unsettled(run[s]) => s # n
    BY <1>2
  <1>7. h <= (t + 1) + 1 /\ \A s \in Run : Unsettled(run'[s]) => pos2[s] \in h..(t + 1)
    BY <1>4, <1>5, <1>6 DEF Line
  <1>8. \A r, s \in Run : Unsettled(run'[r]) /\ Unsettled(run'[s]) /\ pos2[r] = pos2[s] => r = s
    BY <1>4, <1>5, <1>6 DEF Line
  <1>9. ASSUME NEW r \in Run, Unsettled(run'[r]), pos2[r] > h
        PROVE  run'[r].prev \in Run /\ Unsettled(run'[run'[r].prev]) /\ pos2[run'[r].prev] = pos2[r] - 1
    <2>1. CASE r = n
      <3>1. tail # NoRun
        BY <1>4, <1>9, <2>1 DEF Line
      <3>2. tail \in Run /\ Unsettled(run[tail]) /\ pos[tail] = t
        BY <3>1 DEF Line
      <3>3. QED
        BY <1>2, <1>4, <1>5, <1>6, <2>1, <3>2
    <2>2. CASE r # n
      <3>1. Unsettled(run[r]) /\ pos[r] > h /\ run'[r].prev = run[r].prev
        BY <1>3, <1>4, <1>5, <1>9, <2>2
      <3>2. run[r].prev \in Run /\ Unsettled(run[run[r].prev]) /\ pos[run[r].prev] = pos[r] - 1
        BY <3>1 DEF Line
      <3>3. QED
        BY <1>4, <1>5, <1>6, <2>2, <3>1, <3>2
    <2>3. QED
      BY <2>1, <2>2
  <1>10. \A r \in Run : run'[r].pc = "sent" => pos2[r] = h
    BY <1>2, <1>3, <1>4 DEF Line
  <1>11. tail' # NoRun /\ tail' \in Run /\ Unsettled(run'[tail']) /\ pos2[tail'] = t + 1
    BY <1>1, <1>2, <1>4, <1>5
  <1>12. Line(pos2, h, t + 1)'
    BY <1>7, <1>8, <1>9, <1>10, <1>11 DEF Line
  <1>13. QED
    BY <1>4, <1>12 DEF InLine

LEMMA LeaveLine ==
  ASSUME TypeOK, NEW pos \in [Run -> Nat], NEW h \in Nat, NEW t \in Nat, Line(pos, h, t),
         NEW r \in Run, Settles(r)
  PROVE  InLine'
  <1>1. /\ Ready(r) \/ run[r].pc = "sent"
        /\ run'[r].pc = "settled" /\ tail' = TailAfter(r)
        /\ \A s \in Run : s # r => run'[s] = run[s]
    BY DEF Settles, Others
  <1>2. Unsettled(run[r]) /\ pos[r] = h
    BY <1>1, HeadOfLine
  <1>3. \A s \in Run : Unsettled(run'[s]) <=> s # r /\ Unsettled(run[s])
    BY <1>1 DEF Unsettled
  <1>4. h + 1 <= t + 1 /\ \A s \in Run : Unsettled(run'[s]) => pos[s] \in (h + 1)..t
    BY <1>2, <1>3 DEF Line
  <1>5. \A q, s \in Run : Unsettled(run'[q]) /\ Unsettled(run'[s]) /\ pos[q] = pos[s] => q = s
    BY <1>3 DEF Line
  <1>6. ASSUME NEW s \in Run, Unsettled(run'[s]), pos[s] > h + 1
        PROVE  run'[s].prev \in Run /\ Unsettled(run'[run'[s].prev]) /\ pos[run'[s].prev] = pos[s] - 1
    <2>1. Unsettled(run[s]) /\ pos[s] > h /\ run'[s].prev = run[s].prev
      BY <1>1, <1>3, <1>6
    <2>2. run[s].prev \in Run /\ Unsettled(run[run[s].prev]) /\ pos[run[s].prev] = pos[s] - 1
      BY <2>1 DEF Line
    <2>3. run[s].prev # r
      BY <1>2, <1>6, <2>2
    <2>4. QED
      BY <1>3, <2>1, <2>2, <2>3
  <1>7. \A s \in Run : run'[s].pc # "sent"
    BY <1>1, <1>2 DEF Line, Unsettled
  <1>8. /\ IF tail' = NoRun
           THEN \A s \in Run : ~Unsettled(run'[s])
           ELSE tail' \in Run /\ Unsettled(run'[tail']) /\ pos[tail'] = t
        /\ tail' = NoRun => h + 1 = t + 1
    <2>1. tail # NoRun
      BY <1>2 DEF Line
    <2>2. tail \in Run /\ Unsettled(run[tail]) /\ pos[tail] = t
      BY <2>1 DEF Line
    <2>3. CASE tail = r
      <3>1. h = t /\ tail' = NoRun
        BY <1>1, <1>2, <2>2, <2>3 DEF TailAfter
      <3>2. QED
        BY <1>4, <3>1
    <2>4. CASE tail # r
      BY <1>1, <1>3, <2>1, <2>2, <2>4 DEF TailAfter
    <2>5. QED
      BY <2>3, <2>4
  <1>9. Line(pos, h + 1, t)'
    BY <1>4, <1>5, <1>6, <1>7, <1>8 DEF Line
  <1>10. QED
    BY <1>9 DEF InLine

LEMMA RejoinLine ==
  ASSUME OnceInv, NEW pos \in [Run -> Nat], NEW h \in Nat, NEW t \in Nat, Line(pos, h, t),
         NEW r \in Run, Retries(r)
  PROVE  InLine'
  <1> DEFINE n == <<r[1], 2>>
             pos2 == [pos EXCEPT ![n] = t + 1]
             after == TailAfter(r)
  <1>1. n \in Run /\ n # NoRun /\ n # r /\ run[r].pc = "sent" /\ run[n].pc = "new"
    <2>1. r[1] \in Request /\ r = <<r[1], 1>> /\ run[r].pc = "sent"
      BY TurnOf DEF Retries, Undecided
    <2>2. QED
      BY <2>1, Turns, NoRunIsNoRun DEF OnceInv
  <1>2. /\ ~Unsettled(run[n]) /\ run'[n].pc = "queued" /\ run'[n].prev = after /\ tail' = n
        /\ run'[r].pc = "settled"
    BY <1>1 DEF Unsettled, Retries
  <1>3. \A s \in Run : s # n /\ s # r => run'[s] = run[s]
    BY DEF Retries, Others
  <1>4. /\ pos2 \in [Run -> Nat] /\ pos2[n] = t + 1
        /\ \A s \in Run : s # n => pos2[s] = pos[s]
    BY <1>1
  <1>5. Unsettled(run[r]) /\ pos[r] = h
    BY <1>1, HeadOfLine DEF OnceInv
  <1>6. /\ after = NoRun => h = t
        /\ after # NoRun => after \in Run /\ after # r /\ Unsettled(run[after]) /\ pos[after] = t
    BY <1>5 DEF TailAfter, Line
  <1> HIDE DEF n, pos2, after
  <1>7. \A s \in Run : Unsettled(run'[s]) <=> s = n \/ (s # r /\ Unsettled(run[s]))
    BY <1>1, <1>2, <1>3 DEF Unsettled
  <1>8. \A s \in Run : Unsettled(run[s]) => s # n
    BY <1>2
  <1>9. \A s \in Run : s # r /\ Unsettled(run[s]) => pos[s] \in (h + 1)..t
    BY <1>5 DEF Line
  <1>10. h + 1 <= (t + 1) + 1 /\ \A s \in Run : Unsettled(run'[s]) => pos2[s] \in (h + 1)..(t + 1)
    BY <1>4, <1>5, <1>7, <1>8, <1>9 DEF Line
  <1>11. \A q, s \in Run : Unsettled(run'[q]) /\ Unsettled(run'[s]) /\ pos2[q] = pos2[s] => q = s
    BY <1>4, <1>7, <1>8, <1>9 DEF Line
  <1>12. ASSUME NEW s \in Run, Unsettled(run'[s]), pos2[s] > h + 1
         PROVE  run'[s].prev \in Run /\ Unsettled(run'[run'[s].prev]) /\ pos2[run'[s].prev] = pos2[s] - 1
    <2>1. CASE s = n
      <3>1. after # NoRun
        BY <1>4, <1>6, <1>12, <2>1
      <3>2. QED
        BY <1>2, <1>4, <1>6, <1>7, <1>8, <2>1, <3>1
    <2>2. CASE s # n
      <3>1. s # r /\ Unsettled(run[s]) /\ pos[s] > h + 1 /\ run'[s].prev = run[s].prev
        BY <1>3, <1>4, <1>7, <1>12, <2>2
      <3>2. run[s].prev \in Run /\ Unsettled(run[run[s].prev]) /\ pos[run[s].prev] = pos[s] - 1
        BY <3>1 DEF Line
      <3>3. run[s].prev # r
        BY <1>5, <3>1, <3>2
      <3>4. QED
        BY <1>4, <1>7, <1>8, <2>2, <3>1, <3>2, <3>3
    <2>3. QED
      BY <2>1, <2>2
  <1>13. \A s \in Run : run'[s].pc # "sent"
    BY <1>2, <1>3, <1>5 DEF Line, Unsettled
  <1>14. tail' # NoRun /\ tail' \in Run /\ Unsettled(run'[tail']) /\ pos2[tail'] = t + 1
    BY <1>1, <1>2, <1>4, <1>7
  <1>15. Line(pos2, h + 1, t + 1)'
    BY <1>10, <1>11, <1>12, <1>13, <1>14 DEF Line
  <1>16. QED
    BY <1>4, <1>15 DEF InLine

\* A turn that may begin, or has begun and not ended.
UnderWay(r) == Ready(r) \/ run[r].pc = "sent"

LEMMA InitLine == Init => InLine
  <1> SUFFICES ASSUME Init PROVE InLine
    OBVIOUS
  <1> DEFINE pos == [r \in Run |-> 0]
  <1>1. pos \in [Run -> Nat] /\ 1 \in Nat /\ 0 \in Nat /\ tail = NoRun
    BY DEF Init
  <1>2. \A r \in Run : run[r].pc = "new"
    BY DEF Init, NewRun
  <1>3. Line(pos, 1, 0)
    BY <1>1, <1>2 DEF Line, Unsettled
  <1> HIDE DEF pos
  <1>4. QED
    BY <1>1, <1>3 DEF InLine

LEMMA NextLine == OnceInv /\ InLine /\ [Next]_vars => InLine'
  <1> SUFFICES ASSUME OnceInv, InLine, [Next]_vars PROVE InLine'
    OBVIOUS
  <1>1. TypeOK /\ Chained
    BY NextEffect DEF OnceInv
  <1>2. PICK pos \in [Run -> Nat], h \in Nat, t \in Nat : Line(pos, h, t)
    BY DEF InLine
  <1>3. CASE Same
    <2>1. \A s \in Run : run'[s].pc = run[s].pc /\ run'[s].prev = run[s].prev
      BY <1>3 DEF Same
    <2>2. tail' = tail
      BY <1>3 DEF Same
    <2>3. Line(pos, h, t)'
      BY <1>2, <2>1, <2>2 DEF Line, Unsettled
    <2>4. QED
      BY <2>3 DEF InLine
  <1>4. ASSUME NEW r \in Run, Signs(r) PROVE InLine'
    <2>1. pos[r] = h /\ Unsettled(run[r])
      BY <1>1, <1>2, <1>4, HeadOfLine DEF Signs
    <2>2. /\ run'[r].pc = "sent" /\ run'[r].prev = run[r].prev /\ tail' = tail
          /\ \A s \in Run : s # r => run'[s] = run[s]
      BY <1>4 DEF Signs, Others
    <2>3. \A s \in Run : /\ Unsettled(run'[s]) <=> Unsettled(run[s])
                         /\ run'[s].prev = run[s].prev
      BY <2>1, <2>2 DEF Unsettled
    <2>4. \A s \in Run : run'[s].pc = "sent" => pos[s] = h
      BY <1>2, <2>1, <2>2 DEF Line
    <2>5. Line(pos, h, t)'
      BY <1>2, <2>2, <2>3, <2>4 DEF Line
    <2>6. QED
      BY <2>5 DEF InLine
  <1>5. QED
    BY <1>1, <1>2, <1>3, <1>4, JoinLine, LeaveLine, RejoinLine DEF Chained

\* The chain of promises lets one turn of the account run at a time: never are
\* two transactions signed and unanswered, and no turn may begin meanwhile.
THEOREM OneTurnAtATime ==
  Spec => [](\A r, s \in Run : UnderWay(r) /\ UnderWay(s) => r = s)
  <1>1. OnceInv /\ InLine => \A r, s \in Run : UnderWay(r) /\ UnderWay(s) => r = s
    BY OneTurn DEF OnceInv, UnderWay
  <1>2. QED
    BY <1>1, InitOnce, NextOnce, InitLine, NextLine, PTL DEF Spec

-----------------------------------------------------------------------------
(* The cached number.  While nothing has come between, the transaction under *)
(* way carries the next number of the ledger until it is applied, and between  *)
(* turns a fresh copy is the ledger's.                                      *)

Fits(r) ==
  /\ run[r].seq = IF result[r] = None THEN ledger + 1 ELSE ledger
  /\ cache.fresh => cache.seq = run[r].seq
  /\ limbo \subseteq {r}

Between ==
  (\A r \in Run : run[r].pc # "sent") => limbo = {} /\ (cache.fresh => cache.seq = ledger)

NumberInv ==
  /\ \A r \in limbo : result[r] = None
  /\ ~disturbed => /\ Between
                   /\ \A r \in Run : run[r].pc = "sent" => Fits(r)

LEMMA LimboStep ==
  ASSUME TypeOK, NumberInv, [Next]_vars
  PROVE  \A r \in limbo' : result'[r] = None
  <1>1. result \in [Run -> {None, "ok", "failed"}] /\ limbo \subseteq Run
    BY DEF TypeOK
  <1>2. \A r \in limbo : result[r] = None
    BY DEF NumberInv
  <1>3. ASSUME NEW q \in Run, Reply(q) PROVE \A r \in limbo' : result'[r] = None
    <2>1. ASSUME NEW res, Apply(q, res) PROVE \A r \in limbo' : result'[r] = None
      BY <1>1, <1>2, <2>1 DEF Apply
    <2>2. CASE Replay(q)
      BY <1>2, <2>2 DEF Replay
    <2>3. CASE Refuse(q) \/ BadSeq(q)
      BY <1>2, <2>3 DEF Refuse, BadSeq
    <2>4. CASE Busy(q) \/ TimeOut(q)
      BY <1>2, <2>4 DEF Busy, TimeOut, Undecided
    <2>5. QED
      BY <1>3, <2>1, <2>2, <2>3, <2>4 DEF Reply
  <1>4. ASSUME NEW q \in Run, Resolve(q) PROVE \A r \in limbo' : result'[r] = None
    BY <1>1, <1>2, <1>4 DEF Resolve
  <1>5. ASSUME NEW q \in Run, Begin(q) PROVE UNCHANGED <<result, limbo>>
    BY <1>5 DEF Begin, UseCached, Reload, Sign, FailBeforeBuild
  <1>6. QED
    BY <1>2, <1>3, <1>4, <1>5 DEF Next, Call, Expire, Outside, vars

\* A turn begins with the number of the ledger.
LEMMA BeginNumbers ==
  ASSUME OnceInv, InLine, NumberInv, NEW r \in Run, Begin(r), ~disturbed'
  PROVE  Between' /\ \A s \in Run : run'[s].pc = "sent" => Fits(s)'
  <1>1. TypeOK /\ Ready(r) /\ ledger \in Nat /\ cache.seq \in Nat
    BY DEF OnceInv, TypeOK, Begin, UseCached, Reload, FailBeforeBuild
  <1>2. run[r].pc = "queued" /\ result[r] = None
    BY <1>1 DEF Ready, OnceInv
  <1>3. \A s \in Run : run[s].pc # "sent"
    BY <1>1, <1>2, OneTurn
  <1>4. ASSUME NEW seq \in Nat, Sign(r, seq), limbo = {}, seq = ledger
        PROVE  Between' /\ \A s \in Run : run'[s].pc = "sent" => Fits(s)'
    <2>1. /\ Signs(r) /\ run'[r].seq = ledger + 1
          /\ cache' = [seq |-> ledger + 1, fresh |-> TRUE]
          /\ UNCHANGED <<tail, answer, ledger, result, limbo, outside>>
      BY <1>1, <1>4, SignEffect
    <2>2. run'[r].pc = "sent" /\ \A s \in Run : s # r => run'[s].pc # "sent"
      BY <1>3, <2>1 DEF Signs, Others
    <2>3. Between'
      BY <2>2 DEF Between
    <2>4. Fits(r)'
      BY <1>2, <1>4, <2>1 DEF Fits
    <2>5. QED
      BY <2>2, <2>3, <2>4
  <1>5. CASE UseCached(r)
    <2>1. ~disturbed /\ cache.fresh /\ Sign(r, cache.seq)
      BY <1>5 DEF UseCached
    <2>2. limbo = {} /\ cache.seq = ledger
      BY <1>3, <2>1 DEF NumberInv, Between
    <2>3. QED
      BY <1>1, <1>4, <2>1, <2>2
  <1>6. CASE Reload(r)
    <2>1. limbo = {} /\ Sign(r, ledger)
      BY <1>6 DEF Reload
    <2>2. QED
      BY <1>1, <1>4, <2>1
  <1>7. CASE FailBeforeBuild(r)
    <2>1. /\ Settle(r, "failed") /\ UNCHANGED <<cache, ledger, result, limbo, outside, disturbed>>
          /\ "failed" \in Answers
      BY <1>7 DEF FailBeforeBuild, Answers
    <2>2. Settles(r)
      BY <1>1, <2>1, SettleEffect
    <2>3. \A s \in Run : run'[s].pc # "sent"
      BY <1>3, <2>2 DEF Settles, Others
    <2>4. limbo = {} /\ (cache.fresh => cache.seq = ledger)
      BY <1>3, <2>1 DEF NumberInv, Between
    <2>5. QED
      BY <2>1, <2>3, <2>4 DEF Between
  <1>8. QED
    BY <1>5, <1>6, <1>7 DEF Begin

\* An answer leaves the copy at the ledger's number, unless it is marked.
LEMMA ReplyNumbers ==
  ASSUME OnceInv, InLine, NumberInv, NEW r \in Run, Reply(r), ~disturbed'
  PROVE  Between' /\ \A s \in Run : run'[s].pc = "sent" => Fits(s)'
  <1>1. /\ TypeOK /\ ledger \in Nat /\ run \in [Run -> RunRecord]
        /\ result \in [Run -> {None, "ok", "failed"}]
    BY RunType DEF OnceInv, TypeOK
  <1>2. run[r].pc = "sent"
    BY DEF Reply, Apply, Replay, Refuse, BadSeq, Busy, TimeOut, Undecided
  <1>3. \A s \in Run : s # r => run[s].pc # "sent"
    BY <1>1, <1>2, OneTurn
  <1>4. ~disturbed
    BY DEF Reply, Apply, Replay, Refuse, BadSeq, Busy, TimeOut
  <1>5. Fits(r)
    BY <1>2, <1>4 DEF NumberInv
  <1>6. ASSUME NEW res \in Answers, Settle(r, res), limbo' = {},
               cache'.fresh => cache'.seq = ledger'
        PROVE  Between' /\ \A s \in Run : run'[s].pc = "sent" => Fits(s)'
    <2>1. Settles(r)
      BY <1>1, <1>2, <1>6, SettleEffect
    <2>2. \A s \in Run : run'[s].pc # "sent"
      BY <1>3, <2>1 DEF Settles, Others
    <2>3. QED
      BY <1>6, <2>2 DEF Between
  <1>7. ASSUME NEW res \in {"ok", "failed"}, Apply(r, res)
        PROVE  Between' /\ \A s \in Run : run'[s].pc = "sent" => Fits(s)'
    <2>1. /\ result[r] = None /\ limbo' = limbo \ {r} /\ ledger' = ledger + 1
          /\ cache' = cache /\ Settle(r, res) /\ res \in Answers
      BY <1>7 DEF Apply, Undecided, Answers
    <2>2. limbo' = {} /\ (cache'.fresh => cache'.seq = ledger')
      BY <1>5, <2>1 DEF Fits
    <2>3. QED
      BY <1>6, <2>1, <2>2
  <1>8. CASE Replay(r)
    <2>1. /\ result[r] # None /\ Settle(r, result[r]) /\ result[r] \in Answers
          /\ UNCHANGED <<cache, ledger, limbo>>
      BY <1>1, <1>8 DEF Replay, Answers
    <2>2. limbo = {}
      BY <1>5, <2>1 DEF Fits, NumberInv
    <2>3. cache.fresh => cache.seq = ledger
      BY <1>5, <2>1 DEF Fits
    <2>4. QED
      BY <1>6, <2>1, <2>2, <2>3
  <1>9. ~Refuse(r) /\ ~TimeOut(r)
    BY DEF Refuse, TimeOut
  <1>10. ~BadSeq(r)
    BY <1>5 DEF BadSeq, Undecided, NextInLine, Fits
  <1>11. CASE Busy(r)
    <2>1. /\ run[r].sends < MaxSends /\ UNCHANGED <<cache, ledger, result>>
          /\ limbo' \in {limbo, limbo \cup {r}}
      <3>1. run[r].sends # MaxSends /\ UNCHANGED <<cache, ledger, result>>
            /\ limbo' \in {limbo, limbo \cup {r}}
        BY <1>11 DEF Busy
      <3>2. run[r].sends \in 0..MaxSends
        BY <1>1 DEF RunRecord, Sends
      <3>3. QED
        BY <3>1, <3>2, SendsAssumption
    <2>2. run' = [run EXCEPT ![r].sends = @ + 1]
      BY <1>11, <2>1 DEF Busy
    <2>3. /\ run'[r].pc = "sent" /\ run'[r].seq = run[r].seq
          /\ \A s \in Run : s # r => run'[s].pc # "sent"
      BY <1>1, <1>2, <1>3, <2>2 DEF RunRecord
    <2>4. Fits(r)'
      BY <1>5, <2>1, <2>3 DEF Fits
    <2>5. QED
      BY <2>3, <2>4 DEF Between
  <1>12. QED
    BY <1>7, <1>8, <1>9, <1>10, <1>11 DEF Reply

LEMMA ResolveNumbers ==
  ASSUME OnceInv, InLine, NumberInv, NEW r \in Run, Resolve(r), ~disturbed'
  PROVE  Between' /\ \A s \in Run : run'[s].pc = "sent" => Fits(s)'
  <1>1. /\ TypeOK /\ ledger \in Nat /\ run \in [Run -> RunRecord]
        /\ result \in [Run -> {None, "ok", "failed"}]
    BY RunType DEF OnceInv, TypeOK
  <1>2. /\ r \in limbo /\ limbo' = limbo \ {r} /\ ~disturbed
        /\ UNCHANGED <<cache, tail, run, answer, outside>>
    BY DEF Resolve
  <1>3. PICK s \in Run : run[s].pc = "sent"
    BY <1>2 DEF NumberInv, Between
  <1>4. Fits(s) /\ s = r /\ result[r] = None
    BY <1>2, <1>3 DEF NumberInv, Fits
  <1>5. \A q \in Run : run[q].pc = "sent" => q = r
    BY <1>1, <1>3, <1>4, OneTurn
  <1>6. \/ result'[r] # None /\ ledger' = ledger + 1
        \/ UNCHANGED <<ledger, result>>
    <2>1. "ok" # None /\ "failed" # None
      BY DEF None
    <2>2. QED
      BY <1>1, <2>1 DEF Resolve
  <1>7. Fits(r)'
    BY <1>1, <1>2, <1>4, <1>6 DEF Fits
  <1>8. QED
    BY <1>2, <1>3, <1>4, <1>5, <1>7 DEF Between

LEMMA NextNumbers == OnceInv /\ InLine /\ NumberInv /\ [Next]_vars => NumberInv'
  <1> SUFFICES ASSUME OnceInv, InLine, NumberInv, [Next]_vars PROVE NumberInv'
    OBVIOUS
  <1>1. \A r \in limbo' : result'[r] = None
    BY LimboStep DEF OnceInv
  <1> SUFFICES ASSUME ~disturbed'
               PROVE  Between' /\ \A s \in Run : run'[s].pc = "sent" => Fits(s)'
    BY <1>1 DEF NumberInv
  <1>2. ASSUME NEW p \in Request, Call(p)
        PROVE  Between' /\ \A s \in Run : run'[s].pc = "sent" => Fits(s)'
    <2>1. run \in [Run -> RunRecord] /\ <<p, 1>> \in Run
      BY RunType, Turns DEF OnceInv
    <2>2. ~disturbed /\ UNCHANGED <<cache, ledger, result, limbo>>
      BY <1>2 DEF Call
    <2>3. run' = [run EXCEPT ![<<p, 1>>].pc = "queued", ![<<p, 1>>].prev = tail]
      BY <1>2 DEF Call
    <2>4. run[<<p, 1>>].pc = "new"
      BY <1>2 DEF Call, OnceInv
    <2>5. \A s \in Run : /\ run'[s].pc = "sent" <=> run[s].pc = "sent"
                         /\ run'[s].seq = run[s].seq
      BY <2>1, <2>3, <2>4 DEF RunRecord
    <2>6. QED
      BY <2>2, <2>5 DEF NumberInv, Between, Fits
  <1>3. CASE Expire
    <2>1. ~disturbed /\ ~cache'.fresh /\ UNCHANGED <<run, ledger, result, limbo>>
      BY <1>3 DEF Expire, OnceInv, TypeOK
    <2>2. QED
      BY <2>1 DEF NumberInv, Between, Fits
  <1>4. CASE UNCHANGED vars
    BY <1>4 DEF vars, NumberInv, Between, Fits
  <1>5. ~Outside
    BY DEF Outside
  <1>6. QED
    BY <1>2, <1>3, <1>4, <1>5, BeginNumbers, ReplyNumbers, ResolveNumbers DEF Next

\* Requests that share the account never refuse each other's transactions: a
\* tx_bad_seq needs something else that moved the ledger, or a signed transaction
\* that did not reach it, since the copy was loaded.
THEOREM NoOneTrips == Spec => BadSeqNeedsDisturbance
  <1>1. NumberInv => \A r \in Run : BadSeq(r) => disturbed
    BY DEF NumberInv, Fits, BadSeq, Undecided, NextInLine
  <1>2. Init => NumberInv
    BY DEF Init, NumberInv, Between, NoEntry, NewRun
  <1>3. Spec => [](OnceInv /\ InLine /\ NumberInv)
    BY <1>2, InitOnce, NextOnce, InitLine, NextLine, NextNumbers, PTL DEF Spec
  <1>4. QED
    BY <1>1, <1>3, PTL DEF Spec, BadSeqNeedsDisturbance

-----------------------------------------------------------------------------
(* The shared Redis connection: the last client created is the only one alive *)

\* While the last client connects, and until its .finally has run, the promise is
\* its; while it is open, it is the client all callers find.
LastOnly ==
  /\ \A k \in Connection!Alive : k = created
  /\ then \subseteq Connection!Client \cap {created}
  /\ created \in then => promise = created
  /\ created \in Connection!Client /\ conn[created] = "connecting" =>
        promise = created /\ created \notin then
  /\ created \in Connection!Client /\ conn[created] = "open" => client = created

OneInv ==
  /\ created \in Nat /\ disconnects \in Nat
  /\ DOMAIN conn = Connection!Client /\ conn = [k \in Connection!Client |-> conn[k]]
  /\ disconnects = 0 => LastOnly

LEMMA InitOne == Connection!Init => OneInv
  BY DEF Connection!Init, OneInv, LastOnly, Connection!Alive, Connection!Client, Connection!None

LEMMA ClientIsSome == \A k \in Connection!Client : k # Connection!None
  BY DEF Connection!Client, Connection!None

LEMMA NextOne == OneInv /\ [Connection!Next]_(Connection!vars) => OneInv'
  <1> SUFFICES ASSUME OneInv, [Connection!Next]_(Connection!vars) PROVE OneInv'
    OBVIOUS
  <1>1. /\ created \in Nat /\ disconnects \in Nat
        /\ DOMAIN conn = Connection!Client /\ conn = [k \in Connection!Client |-> conn[k]]
        /\ disconnects = 0 => LastOnly
    BY DEF OneInv
  <1>2. ASSUME UNCHANGED <<client, promise, conn, then, created, disconnects>>
        PROVE  OneInv'
    BY <1>1, <1>2 DEF OneInv, LastOnly, Connection!Alive
  <1>3. ASSUME NEW p \in Caller, Connection!Connect(p) PROVE OneInv'
    <2>1. /\ promise = Connection!None /\ ~Connection!IsOpen
          /\ created' = created + 1 /\ promise' = created + 1
          /\ conn' = [conn EXCEPT ![created + 1] = "connecting"]
          /\ UNCHANGED <<client, then, disconnects>>
      BY <1>3 DEF Connection!Connect, Connection!Create
    <2>2. ASSUME disconnects = 0 PROVE LastOnly'
      <3>1. LastOnly
        BY <1>1, <2>2
      <3>2. Connection!Alive = {}
        <4>1. ASSUME NEW k \in Connection!Alive PROVE FALSE
          <5>1. k = created /\ k \in Connection!Client /\ k # Connection!None
            BY <3>1, <4>1, ClientIsSome DEF LastOnly, Connection!Alive
          <5>2. CASE conn[k] = "connecting"
            BY <2>1, <3>1, <5>1, <5>2 DEF LastOnly
          <5>3. CASE conn[k] = "open"
            BY <2>1, <3>1, <5>1, <5>3 DEF LastOnly, Connection!IsOpen
          <5>4. QED
            BY <5>2, <5>3 DEF Connection!Alive
        <4>2. QED
          BY <4>1
      <3>3. then = {}
        <4>1. created \notin then
          BY <2>1, <3>1, ClientIsSome DEF LastOnly
        <4>2. QED
          BY <3>1, <4>1 DEF LastOnly
      <3>4. \A k \in Connection!Client : conn'[k] = IF k = created + 1 THEN "connecting" ELSE conn[k]
        BY <1>1, <2>1
      <3>5. \A k \in Connection!Alive' : k = created'
        BY <2>1, <3>2, <3>4 DEF Connection!Alive
      <3>6. QED
        BY <2>1, <3>3, <3>4, <3>5 DEF LastOnly
    <2>3. QED
      BY <1>1, <2>1, <2>2 DEF OneInv
  <1>4. ASSUME NEW k \in Connection!Client, Connection!Opened(k) \/ Connection!Failed(k) PROVE OneInv'
    <2>1. /\ conn[k] = "connecting" /\ then' = then \cup {k}
          /\ UNCHANGED <<promise, created, disconnects>>
      BY <1>4 DEF Connection!Opened, Connection!Failed
    <2>2. \/ conn' = [conn EXCEPT ![k] = "open"] /\ client' = k
          \/ conn' = [conn EXCEPT ![k] = "closed"] /\ client' = client
      BY <1>4 DEF Connection!Opened, Connection!Failed
    <2>3. ASSUME disconnects = 0 PROVE LastOnly'
      <3>1. LastOnly /\ k = created /\ promise = k
        BY <1>1, <2>1, <2>3 DEF LastOnly, Connection!Alive
      <3>2. \A m \in Connection!Client : m # k => conn'[m] = conn[m]
        BY <1>1, <2>2
      <3>3. \/ conn'[k] = "open" /\ client' = k
            \/ conn'[k] = "closed"
        BY <1>1, <2>2
      <3>4. QED
        BY <2>1, <3>1, <3>2, <3>3 DEF LastOnly, Connection!Alive
    <2>4. QED
      BY <1>1, <2>1, <2>2, <2>3 DEF OneInv
  <1>5. ASSUME NEW k \in Connection!Client, Connection!Finally(k) PROVE OneInv'
    <2>1. /\ k \in then /\ then' = then \ {k} /\ promise' = Connection!None
          /\ UNCHANGED <<client, conn, created, disconnects>>
      BY <1>5 DEF Connection!Finally
    <2>2. ASSUME disconnects = 0 PROVE LastOnly'
      <3>1. LastOnly /\ k = created
        BY <1>1, <2>1, <2>2 DEF LastOnly
      <3>2. QED
        BY <2>1, <3>1 DEF LastOnly, Connection!Alive
    <2>3. QED
      BY <1>1, <2>1, <2>2 DEF OneInv
  <1>6. ASSUME NEW k \in Connection!Client, Connection!Drop(k) PROVE OneInv'
    <2>1. /\ conn[k] = "open" /\ conn' = [conn EXCEPT ![k] = "closed"]
          /\ UNCHANGED <<client, promise, then, created, disconnects>>
      BY <1>6 DEF Connection!Drop
    <2>2. \A m \in Connection!Client : conn'[m] = IF m = k THEN "closed" ELSE conn[m]
      BY <1>1, <2>1
    <2>3. ASSUME disconnects = 0 PROVE LastOnly'
      BY <1>1, <2>1, <2>2, <2>3 DEF LastOnly, Connection!Alive
    <2>4. QED
      BY <1>1, <2>1, <2>3 DEF OneInv
  <1>7. ASSUME Connection!Disconnect PROVE OneInv'
    <2>1. /\ disconnects' = disconnects + 1 /\ created' = created
          /\ conn' = [k \in Connection!Client |-> IF k = client /\ conn[k] = "open" THEN "closed" ELSE conn[k]]
      BY <1>7 DEF Connection!Disconnect
    <2>2. QED
      BY <1>1, <2>1 DEF OneInv
  <1>8. QED
    BY <1>2, <1>3, <1>4, <1>5, <1>6, <1>7
       DEF Connection!Next, Connection!UseOpen, Connection!Join, Connection!Resume, Connection!Return,
           Connection!Server, Connection!vars

\* Until disconnect is called at most one connection is connecting or open,
\* however many callers find none at the same moment.
THEOREM SharedConnection == Connection!Spec => []OneConnection
  <1>1. OneInv => OneConnection
    BY DEF OneInv, LastOnly, OneConnection, Connection!OneConnection
  <1>2. QED
    BY <1>1, InitOne, NextOne, PTL DEF Connection!Spec

===============================================================================
