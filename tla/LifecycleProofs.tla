--------------------------- MODULE LifecycleProofs ---------------------------
(***************************************************************************)
(* Types, the order of the stop and the hunters' token, for any number of  *)
(* workers and of starts.                                                  *)
(***************************************************************************)
EXTENDS Lifecycle, FiniteSetTheorems, TLAPS

\* A process that runs was forked in this start, by a manager that is there,
\* and runs until it has been told.
Accounted == /\ alive \subseteq workers \cup spawned
             /\ workers \cup spawned \subseteq alive \cup told
             /\ \A w \in workers \cup spawned : w[1] \in managers

\* Nobody is told anything before the first interrupt.
Undisturbed == /\ pc \in {"start", "loop"} => told = {} /\ signals = 0
               /\ pc = "stop" => signals = 1

\* The managers before `at` in the order of the stop have told their workers.
ToldInTurn == pc = "stop" =>
    \A n \in DOMAIN Stopping : n < at => ListOf(Stopping[n]) \subseteq told

\* The token of a settled start is the one in the file, which stays.
SettledToken == settled =>
    /\ router_yml = "written" /\ routerToken = NewToken
    /\ \A n \in DOMAIN hunterToken :
          <<"hunters", n>> \in alive => hunterToken[n] = NewToken

IInv == TypeOK /\ Accounted /\ Undisturbed /\ ToldInTurn /\ StoreLast /\ SettledToken

-----------------------------------------------------------------------------
\* What is told runs, and is on a list or about to be.
LEMMA SignalTypes ==
    ASSUME TypeOK, Accounted, NEW ws, ws \subseteq workers \cup spawned, Signal(ws)
    PROVE  told' \subseteq workers \cup spawned /\ pending' \subseteq told' \cap alive
BY DEF TypeOK, Accounted, Signal

LEMMA WorkersAre ==
    ASSUME NEW w \in Workers
    PROVE  /\ w[1] \in Managers /\ w[2] \in 1..Threads[w[1]]
           /\ w = <<w[1], w[2]>>
BY DEF Workers

LEMMA TokenInFileType == TokenInFile \in {NoToken, NewToken}
BY DEF TokenInFile

LEMMA InitInv == Init => IInv
<1> SUFFICES ASSUME Init PROVE IInv
  OBVIOUS
<1>1. Cardinality(spawned) <= 1 /\ spawned \subseteq Workers
  BY FS_EmptySet DEF Init
<1>2. 1 \in 1..Len(Starting) + 1 /\ signals \in 0..2 /\ starts \in 0..MaxStarts
  BY LifecycleAssumption DEF Init, Starting
<1>3. hunterToken \in [1..Threads["hunters"] -> {NoToken, NewToken}]
  BY DEF Init
<1>4. TypeOK
  BY <1>1, <1>2, <1>3 DEF Init, TypeOK
<1>5. QED
  BY <1>4 DEF Init, IInv, Accounted, Undisturbed, ToldInTurn, StoreLast, SettledToken

\* Actions that touch neither the processes nor what was told, in a start.
LEMMA Starts ==
    ASSUME IInv, Launch \/ MakeManager \/ NextPart \/ Loop PROVE IInv'
<1> USE DEF IInv, bootVars, signalVars, tokenVars
<1>1. CASE Launch
  <2>1. Cardinality({}) <= 1
    BY FS_EmptySet
  <2>2. starts' \in 0..MaxStarts
    BY <1>1, LifecycleAssumption DEF Launch, TypeOK
  <2>3. at' \in 1..Len(Starting) + 1 /\ signals' \in 0..2
    BY <1>1 DEF Launch, Starting
  <2>4. TypeOK'
    BY <1>1, <2>1, <2>2, <2>3, TokenInFileType DEF Launch, TypeOK
  <2>5. (Accounted /\ Undisturbed /\ ToldInTurn /\ StoreLast)'
    BY <1>1 DEF Launch, Accounted, Undisturbed, ToldInTurn, StoreLast
  <2>6. SettledToken'
    BY <1>1 DEF Launch, SettledToken, TokenInFile
  <2>7. QED
    BY <2>4, <2>5, <2>6
<1>2. CASE MakeManager
  <2>1. Part \in Managers
    BY <1>2 DEF MakeManager, Waiting, Part, Managers, TypeOK
  <2>2. TypeOK'
    BY <1>2, <2>1 DEF MakeManager, TypeOK
  <2>3. QED
    BY <1>2, <2>2 DEF MakeManager, Waiting, Accounted, Undisturbed, ToldInTurn,
                      StoreLast, SettledToken
<1>3. CASE NextPart
  <2>1. at' \in 1..Len(Starting) + 1
    BY <1>3 DEF NextPart, Waiting, TypeOK, Starting
  <2>2. TypeOK'
    BY <1>3, <2>1 DEF NextPart, TypeOK
  <2>3. QED
    BY <1>3, <2>2 DEF NextPart, Waiting, Accounted, Undisturbed, ToldInTurn,
                      StoreLast, SettledToken
<1>4. CASE Loop
  BY <1>4 DEF Loop, TypeOK, Accounted, Undisturbed, ToldInTurn, StoreLast, SettledToken
<1>5. QED
  BY <1>1, <1>2, <1>3, <1>4

\* A worker is forked, and put on its list.
LEMMA Forks == ASSUME IInv, Spawn \/ Remember PROVE IInv'
<1> USE DEF IInv, bootVars, signalVars, tokenVars
<1>1. CASE Spawn
  <2> DEFINE w == NextWorker
  <2>1. w \in Workers /\ w[1] = Part /\ Part \in managers /\ spawned = {} /\ pc = "start"
    BY <1>1 DEF Spawn, Waiting, NextWorker
  <2>2. /\ alive' = alive \cup {w} /\ spawned' = {w}
        /\ hunterToken' = IF w[1] = "hunters"
                          THEN [hunterToken EXCEPT ![w[2]] = TokenInFile] ELSE hunterToken
        /\ UNCHANGED <<pc, at, managers, workers, signalVars, router_yml,
                       routerToken, settled, signals, starts>>
    BY <1>1 DEF Spawn, Forked
  <2> HIDE DEF w
  <2>3. Cardinality(spawned') <= 1
    <3>1. Cardinality({w}) = 1
      BY FS_Singleton
    <3>2. QED
      BY <2>2, <3>1
  <2>4. hunterToken' \in [1..Threads["hunters"] -> {NoToken, NewToken}]
    BY <2>2, TokenInFileType DEF TypeOK
  <2>5. TypeOK'
    BY <2>1, <2>2, <2>3, <2>4 DEF TypeOK
  <2>6. (Accounted /\ Undisturbed /\ ToldInTurn /\ StoreLast)'
    BY <2>1, <2>2 DEF Accounted, Undisturbed, ToldInTurn, StoreLast
  <2>7. SettledToken'
    <3> SUFFICES ASSUME settled, NEW n \in DOMAIN hunterToken, <<"hunters", n>> \in alive'
                 PROVE  hunterToken'[n] = NewToken
      BY <2>2, <2>4 DEF SettledToken, TypeOK
    <3>1. TokenInFile = NewToken
      BY DEF SettledToken, TokenInFile
    <3>2. CASE <<"hunters", n>> \in alive
      BY <2>2, <3>1, <3>2 DEF SettledToken, TypeOK
    <3>3. CASE <<"hunters", n>> = w
      BY <2>2, <3>1, <3>3 DEF TypeOK
    <3>4. QED
      BY <2>2, <3>2, <3>3
  <2>8. QED
    BY <2>5, <2>6, <2>7
<1>2. CASE Remember
  <2>1. Cardinality({}) <= 1
    BY FS_EmptySet
  <2>2. TypeOK'
    BY <1>2, <2>1 DEF Remember, TypeOK
  <2>3. QED
    BY <1>2, <2>2 DEF Remember, Accounted, Undisturbed, ToldInTurn, StoreLast, SettledToken
<1>3. QED
  BY <1>1, <1>2

LEMMA WritesToken == ASSUME IInv, StoreToken PROVE IInv'
BY DEF IInv, StoreToken, Writes, bootVars, signalVars, tokenVars, TypeOK, Accounted,
       Undisturbed, ToldInTurn, ListOf, StoreLast, SettledToken

\* An interrupt tells nobody or everybody; whoever is on a list and does not
\* run any more had been told before.
LEMMA Interrupts == ASSUME IInv, Interrupt PROVE IInv'
<1> USE DEF IInv, bootVars, signalVars, tokenVars
<1>1. PICK ws \in {{}, alive} : Signal(ws)
  BY DEF Interrupt
<1>2. told' \subseteq workers \cup spawned /\ pending' \subseteq told' \cap alive
  BY <1>1, SignalTypes DEF Accounted
<1>3. pc' \in {"stop", "exit"} /\ at' = 1 /\ signals' = signals + 1 /\ signals \in {0, 1}
  BY DEF Interrupt, Undisturbed
<1>4. signals' \in 0..2 /\ at' \in 1..Len(Starting) + 1
  BY <1>3 DEF Starting
<1>5. TypeOK'
  BY <1>2, <1>3, <1>4 DEF Interrupt, TypeOK
<1>6. StoreLast'
  BY <1>1 DEF Interrupt, Signal, StoreLast, Accounted
<1>7. (Accounted /\ Undisturbed /\ ToldInTurn)'
  BY <1>1, <1>3 DEF Interrupt, Signal, Accounted, Undisturbed, ToldInTurn, Stopping
<1>8. SettledToken'
  BY DEF Interrupt, SettledToken
<1>9. QED
  BY <1>5, <1>6, <1>7, <1>8

\* The turn of the store comes when all other managers have had theirs.
LEMMA Stops == ASSUME IInv, StopPart PROVE IInv'
<1> USE DEF IInv, bootVars, signalVars, tokenVars
<1> DEFINE m == Stopping[at]
           ws == IF m \in managers THEN ListOf(m) ELSE {}
<1>1. Signal(ws) /\ pc = "stop" /\ at' = at + 1 /\ at \in DOMAIN Stopping
  BY DEF StopPart, Stopping, TypeOK
<1>2. ws \subseteq workers
  BY DEF ListOf
<1>3. told' = told \cup ws
  BY <1>1 DEF Signal
<1>4. TypeOK'
  <2>1. told' \subseteq workers \cup spawned /\ pending' \subseteq told' \cap alive
    BY <1>1, <1>2, SignalTypes
  <2>2. at' \in 1..Len(Starting) + 1
    BY <1>1 DEF Starting, Stopping
  <2>3. QED
    BY <2>1, <2>2 DEF StopPart, TypeOK
<1>5. ListOf(m) \subseteq told'
  BY <1>3 DEF ListOf, Accounted
<1>6. ToldInTurn'
  BY <1>1, <1>3, <1>5 DEF StopPart, ToldInTurn, ListOf, TypeOK
<1>7. StoreLast'
  <2>1. CASE m = "store"
    <3>1. at = 5
      BY <1>1, <2>1 DEF Stopping
    <3>2. ASSUME NEW w \in workers PROVE w \in told'
      <4>1. w[1] \in Managers
        BY WorkersAre DEF TypeOK
      <4>2. PICK n \in DOMAIN Stopping : w[1] = Stopping[n]
        BY <4>1 DEF Managers, Starting, Stopping
      <4>3. n < at \/ n = at
        BY <3>1, <4>2 DEF Stopping
      <4>4. CASE n < at
        BY <1>1, <1>3, <4>2, <4>4 DEF ToldInTurn, ListOf
      <4>5. CASE n = at
        BY <1>5, <4>2, <4>5 DEF ListOf
      <4>6. QED
        BY <4>3, <4>4, <4>5
    <3>3. QED
      BY <3>2 DEF StoreLast, StopPart
  <2>2. CASE m # "store"
    <3>1. <<"store", 1>> \notin ws
      BY <2>2 DEF ListOf
    <3>2. QED
      BY <1>3, <3>1 DEF StopPart, StoreLast
  <2>3. QED
    BY <2>1, <2>2
<1>8. (Accounted /\ Undisturbed /\ SettledToken)'
  BY <1>1, <1>3 DEF StopPart, Accounted, Undisturbed, SettledToken
<1>9. QED
  BY <1>4, <1>6, <1>7, <1>8

LEMMA Halts == ASSUME IInv, Stopped \/ Exit PROVE IInv'
<1>1. pc' \in {"off", "exit"} /\ signals' = signals
      /\ UNCHANGED <<at, managers, workers, spawned, alive, signalVars, tokenVars, starts>>
  BY DEF Stopped, Exit
<1>2. QED
  BY <1>1 DEF IInv, signalVars, tokenVars, TypeOK, Accounted, Undisturbed, ToldInTurn,
              StoreLast, SettledToken

LEMMA Heeds == ASSUME IInv, NEW w \in Workers, End(w) \/ Swallow(w) PROVE IInv'
<1> USE DEF IInv, bootVars, signalVars, tokenVars
<1>1. CASE End(w)
  <2>1. w \in told
    BY <1>1 DEF End, TypeOK
  <2>2. TypeOK'
    BY <1>1 DEF End, TypeOK
  <2>3. (Accounted /\ Undisturbed /\ ToldInTurn /\ StoreLast)'
    BY <1>1, <2>1 DEF End, Accounted, Undisturbed, ToldInTurn, ListOf, StoreLast
  <2>4. SettledToken'
    BY <1>1 DEF End, SettledToken
  <2>5. QED
    BY <2>2, <2>3, <2>4
<1>2. CASE Swallow(w)
  BY <1>2 DEF Swallow, TypeOK, Accounted, Undisturbed, ToldInTurn, ListOf,
                   StoreLast, SettledToken
<1>3. QED
  BY <1>1, <1>2

LEMMA NextInv == IInv /\ [Next]_vars => IInv'
<1> SUFFICES ASSUME IInv, [Next]_vars PROVE IInv'
  OBVIOUS
<1>1. CASE Boot
  BY <1>1, Starts, Forks, WritesToken DEF Boot
<1>2. CASE Interrupt
  BY <1>2, Interrupts
<1>3. CASE Halt
  BY <1>3, Stops, Halts DEF Halt
<1>4. CASE Heed
  BY <1>4, Heeds DEF Heed
<1>5. CASE UNCHANGED vars
  BY <1>5 DEF vars, bootVars, signalVars, tokenVars, IInv, TypeOK, Accounted, Undisturbed,
              ToldInTurn, ListOf, StoreLast, SettledToken
<1>6. QED
  BY <1>1, <1>2, <1>3, <1>4, <1>5 DEF Next

LEMMA Invariance == Spec => []IInv
<1>1. QED
  BY InitInv, NextInv, PTL DEF Spec

-----------------------------------------------------------------------------
\* Every variable stays in its range, for any number of workers and starts; in
\* particular only workers that were forked in this start are ever told.
THEOREM TypeCorrect == Spec => []TypeOK
<1>1. IInv => TypeOK
  BY DEF IInv
<1>2. QED
  BY <1>1, Invariance, PTL

\* The store is told when all other workers have been, wherever the start was
\* cut short and the stop interrupted (router.py:294-300).
THEOREM StoreIsLast == Spec => []StoreLast
<1>1. IInv => StoreLast
  BY DEF IInv
<1>2. QED
  BY <1>1, Invariance, PTL

\* From the start after router.yml was completed on, the router and all hunters
\* work with the same token (router.py:81-83, hunter/__init__.py:69-78).
THEOREM TokensAlwaysAgree == Spec => []TokensAgree
<1>1. IInv => TokensAgree
  BY DEF IInv, SettledToken, TokensAgree
<1>2. QED
  BY <1>1, Invariance, PTL
=============================================================================
