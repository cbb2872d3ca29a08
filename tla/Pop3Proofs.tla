----------------------------- MODULE Pop3Proofs -----------------------------
(***************************************************************************)
(* Pop3Session is correct for any set of commands and conversations of any *)
(* length.                                                                 *)
(***************************************************************************)
EXTENDS Pop3Session, TLAPS

\* The number of commands that have left request_list for a command pair.
Taken == Len(sent) - Len(requests) - (IF held = 0 THEN 0 ELSE 1)

Entry == [req : 0..Len(sent), res : 1..Len(answers), alarm : BOOLEAN]

WithRequest(cs) == {i \in 1..Len(cs) : cs[i].req # 0}

\* cs holds the commands 1..n in order, rs those that follow n.
CmdsAre(cs, n) ==
  /\ {cs[i].req : i \in WithRequest(cs)} = 1..n
  /\ \A i, j \in WithRequest(cs) : i < j => cs[i].req < cs[j].req
QueueIs(rs, n) == \A k \in 1..Len(rs) : rs[k] = n + k

Stacks ==
  /\ flow = "running" => held = Len(sent)
  /\ flow \in {"ending", "ended"} => held = 0
  /\ reading # NoResponse => reading.res >= 1
  /\ flow = "ended" => reading = NoResponse
  /\ text => Len(answers) >= 1
  /\ Len(answers) <= Len(sent) + 1
  /\ Sound => Taken >= 0

TextExpected ==
  flow \in {"running", "ending"} /\ mode = "BODY" => reading # NoResponse /\ requests # <<>>

Order == Sound => CmdsAre(cmds, Taken) /\ QueueIs(requests, Taken)

\* cs has the first m answers, and n commands.
PairsUpTo(cs, n, m) ==
  /\ Len(cs) = m /\ n <= m /\ m - 1 <= n
  /\ \A i \in 1..Len(cs) : cs[i].res = i /\ cs[i].req \in {0, i - 1, i}

\* A pair takes a command when there is one, and the guard of an answer makes
\* sure there is one for each answer but the greeting.
Counts ==
  Sound /\ ~misread =>
    /\ PairsUpTo(cmds, Taken, Len(answers) - (IF reading = NoResponse THEN 0 ELSE 1))
    /\ reading # NoResponse => reading.res = Len(answers)

Inv == TypeOK /\ Stacks /\ TextExpected /\ Order /\ Counts

-----------------------------------------------------------------------------
LEMMA AppendNone ==
  ASSUME NEW S, NEW cs \in Seq(S), NEW c, NEW n \in Nat, c.req = 0, CmdsAre(cs, n)
  PROVE  CmdsAre(Append(cs, c), n)
<1> DEFINE ds == Append(cs, c)
<1>1. Len(ds) = Len(cs) + 1 /\ ds[Len(cs) + 1] = c /\ \A i \in 1..Len(cs) : ds[i] = cs[i]
  OBVIOUS
<1>2. WithRequest(ds) = WithRequest(cs)
  BY <1>1 DEF WithRequest
<1>3. \A i \in WithRequest(cs) : ds[i] = cs[i]
  BY <1>1 DEF WithRequest
<1> HIDE DEF ds
<1>4. {ds[i].req : i \in WithRequest(ds)} = {cs[i].req : i \in WithRequest(cs)}
  BY <1>2, <1>3
<1>5. CmdsAre(ds, n)
  BY <1>2, <1>3, <1>4 DEF CmdsAre
<1> QED
  BY <1>5 DEF ds

LEMMA AppendNext ==
  ASSUME NEW S, NEW cs \in Seq(S), NEW c, NEW n \in Nat, c.req = n + 1, CmdsAre(cs, n)
  PROVE  CmdsAre(Append(cs, c), n + 1)
<1> DEFINE ds == Append(cs, c)
           m == Len(cs) + 1
<1>1. m \in Nat /\ Len(ds) = m /\ ds[m] = c /\ \A i \in 1..Len(cs) : ds[i] = cs[i]
  OBVIOUS
<1>2. WithRequest(ds) = WithRequest(cs) \cup {m}
  BY <1>1 DEF WithRequest
<1>3. \A i \in WithRequest(cs) : ds[i] = cs[i] /\ i < m /\ i \in 1..Len(cs)
  BY <1>1 DEF WithRequest
<1>a. ds[m].req = n + 1
  BY <1>1
<1> HIDE DEF ds, m
<1>4. {ds[i].req : i \in WithRequest(ds)} = {cs[i].req : i \in WithRequest(cs)} \cup {n + 1}
  BY <1>2, <1>3, <1>a
<1>5. {ds[i].req : i \in WithRequest(ds)} = 1..(n + 1)
  BY <1>4 DEF CmdsAre
<1>6. \A i \in WithRequest(cs) : cs[i].req \in 1..n
  BY DEF CmdsAre
<1>7. ASSUME NEW i \in WithRequest(ds), NEW j \in WithRequest(ds), i < j
      PROVE  ds[i].req < ds[j].req
  <2>1. CASE j = m
    <3>1. i \in WithRequest(cs)
      BY <1>1, <1>2, <1>7, <2>1
    <3> QED
      BY <1>3, <1>6, <1>a, <2>1, <3>1
  <2>2. CASE i \in WithRequest(cs) /\ j \in WithRequest(cs)
    BY <1>3, <1>7, <2>2 DEF CmdsAre
  <2>3. CASE i = m /\ j \in WithRequest(cs)
    BY <1>1, <1>3, <1>7, <2>3
  <2> QED
    BY <1>2, <2>1, <2>2, <2>3
<1>8. CmdsAre(ds, n + 1)
  BY <1>5, <1>7 DEF CmdsAre
<1> QED
  BY <1>8 DEF ds

\* A pair takes the oldest command, if there is one, and adds one entry.
LEMMA PairStep ==
  ASSUME Inv, Sound, reading # NoResponse, Pair, UNCHANGED <<sent, held>>
  PROVE  /\ state' \in States
         /\ requests' \in Seq(1..Len(sent)) /\ cmds' \in Seq(Entry)
         /\ Len(cmds') = Len(cmds) + 1
         /\ \A i \in 1..Len(cmds) : cmds'[i] = cmds[i]
         /\ cmds'[Len(cmds) + 1].res = reading.res
         /\ cmds'[Len(cmds) + 1].req = First
         /\ CmdsAre(cmds', Taken') /\ QueueIs(requests', Taken')
         /\ \/ requests = <<>> /\ First = 0 /\ requests' = <<>> /\ Taken' = Taken
            \/ /\ requests # <<>> /\ First = Taken + 1 /\ Taken' = Taken + 1
               /\ Len(requests') = Len(requests) - 1
<1> DEFINE c == [req |-> First, res |-> reading.res, alarm |-> ~StateCheck]
<1>1. /\ requests \in Seq(1..Len(sent)) /\ cmds \in Seq(Entry) /\ Len(sent) \in Nat
      /\ held \in 0..Len(sent) /\ state \in States /\ sent \in Seq(Commands)
      /\ Taken \in Nat
  BY DEF Inv, TypeOK, Entry, Stacks, Taken
<1>2. CmdsAre(cmds, Taken) /\ QueueIs(requests, Taken)
  BY DEF Inv, Order
<1>3. cmds' = Append(cmds, c) /\ requests' = RequestsLeft /\ state' = StateAfter
  BY DEF Pair
<1>4. First \in 0..Len(sent) /\ c \in Entry
  <2>1. First \in 0..Len(sent)
    BY <1>1 DEF First
  <2>2. reading.res \in 1..Len(answers)
    BY DEF Inv, TypeOK, Stacks
  <2> QED
    BY <2>1, <2>2 DEF Entry
<1>5. c.req = First /\ c.res = reading.res
  OBVIOUS
<1> HIDE DEF c
<1>6. /\ cmds' \in Seq(Entry) /\ Len(cmds') = Len(cmds) + 1
      /\ \A i \in 1..Len(cmds) : cmds'[i] = cmds[i]
      /\ cmds'[Len(cmds) + 1] = c
  BY <1>1, <1>3, <1>4
<1>7. state' \in States
  BY <1>1, <1>3 DEF StateAfter, TransferTable, States
<1>8. CASE requests = <<>>
  <2>1. First = 0 /\ requests' = <<>>
    BY <1>3, <1>8 DEF First, RequestsLeft
  <2>2. Taken' = Taken
    BY <1>8, <2>1 DEF Taken
  <2>3. CmdsAre(Append(cmds, c), Taken)
    BY <1>1, <1>2, <1>5, <2>1, AppendNone
  <2>4. QueueIs(requests', Taken')
    BY <2>1 DEF QueueIs
  <2> QED
    BY <1>1, <1>3, <1>5, <1>6, <1>7, <1>8, <2>1, <2>2, <2>3, <2>4
<1>9. CASE requests # <<>>
  <2>1. First = requests[1] /\ requests[1] = Taken + 1 /\ First # 0
    BY <1>1, <1>2, <1>9 DEF First, QueueIs
  <2>2. requests' = Tail(requests)
    BY <1>3, <2>1 DEF RequestsLeft
  <2>3. /\ requests' \in Seq(1..Len(sent)) /\ Len(requests') = Len(requests) - 1
        /\ \A k \in 1..Len(requests') : requests'[k] = requests[k + 1]
    BY <1>1, <1>9, <2>2
  <2>4. Taken' = Taken + 1
    BY <1>1, <2>3 DEF Taken
  <2>5. QueueIs(requests', Taken')
    BY <1>1, <1>2, <2>3, <2>4 DEF QueueIs
  <2>6. CmdsAre(Append(cmds, c), Taken + 1)
    BY <1>1, <1>2, <1>5, <2>1, AppendNext
  <2> QED
    BY <1>1, <1>3, <1>5, <1>6, <1>7, <1>9, <2>1, <2>3, <2>4, <2>5, <2>6
<1> QED
  BY <1>8, <1>9

\* Queueing the held command, if there is one, keeps the order.
LEMMA QueuedStep ==
  ASSUME Inv, Sound, held # 0, held = Len(sent)
  PROVE  /\ Queued \in Seq(1..Len(sent)) /\ Len(Queued) = Len(requests) + 1
         /\ QueueIs(Queued, Taken) /\ Queued # <<>>
<1>1. /\ requests \in Seq(1..Len(sent)) /\ Len(sent) \in Nat /\ held \in 1..Len(sent)
      /\ Taken \in Nat
  BY DEF Inv, TypeOK, Stacks, Taken
<1>2. /\ Queued \in Seq(1..Len(sent)) /\ Len(Queued) = Len(requests) + 1
      /\ \A k \in 1..Len(requests) : Queued[k] = requests[k]
      /\ Queued[Len(requests) + 1] = Len(sent)
  BY <1>1 DEF Queued
<1>3. Taken + Len(requests) + 1 = Len(sent)
  BY <1>1 DEF Taken
<1>4. QueueIs(requests, Taken)
  BY DEF Inv, Order
<1> HIDE DEF Queued
<1>5. \A k \in 1..Len(requests) + 1 : Queued[k] = Taken + k
  <2>1. \A k \in 1..Len(requests) : Queued[k] = Taken + k
    BY <1>2, <1>4 DEF QueueIs
  <2>2. Queued[Len(requests) + 1] = Taken + (Len(requests) + 1)
    BY <1>1, <1>2, <1>3
  <2>3. Len(requests) \in Nat
    BY <1>1
  <2> QED
    BY <2>1, <2>2, <2>3
<1>6. QueueIs(Queued, Taken)
  BY <1>2, <1>5 DEF QueueIs
<1>7. Queued # <<>>
  BY <1>1, <1>2
<1> QED
  BY <1>2, <1>6, <1>7

LEMMA SeqOfMore ==
  ASSUME NEW S, NEW T, S \subseteq T, NEW s \in Seq(S)
  PROVE  s \in Seq(T)
OBVIOUS

\* Seq(1..Len(sent)) and Seq(Entry) grow with the conversation.
LEMMA TypesGrow ==
  ASSUME TypeOK, Len(sent') \in Nat, Len(sent) <= Len(sent'),
         Len(answers') \in Nat, Len(answers) <= Len(answers')
  PROVE  /\ \A s \in Seq(1..Len(sent)) : s \in Seq(1..Len(sent'))
         /\ \A s \in Seq(Entry) : s \in Seq(Entry')
         /\ [res : 0..Len(answers), ok : BOOLEAN] \subseteq [res : 0..Len(answers'), ok : BOOLEAN]
<1>1. Len(sent) \in Nat /\ Len(answers) \in Nat
  BY DEF TypeOK
<1>2. 1..Len(sent) \subseteq 1..Len(sent')
  BY <1>1
<1>3. Entry \subseteq Entry'
  BY <1>1 DEF Entry
<1> QED
  BY <1>1, <1>2, <1>3, SeqOfMore

LEMMA InitInv == Init => Inv
<1> SUFFICES ASSUME Init PROVE Inv
  OBVIOUS
<1>1. TypeOK
  <2>1. Len(sent) = 0 /\ Len(answers) = 0 /\ 0 \in 0..0 /\ 0 <= MaxSent
    BY MaxSentAssumption DEF Init
  <2>2. /\ sent \in Seq(Commands) /\ answers \in Seq([ok : BOOLEAN, phase : States])
        /\ requests \in Seq(1..Len(sent))
        /\ cmds \in Seq([req : 0..Len(sent), res : 1..Len(answers), alarm : BOOLEAN])
    BY DEF Init
  <2>3. reading \in [res : 0..Len(answers), ok : BOOLEAN]
    BY <2>1 DEF Init, NoResponse
  <2> QED
    BY <2>1, <2>2, <2>3 DEF Init, TypeOK, States
<1>2. Taken = 0
  BY DEF Init, Taken
<1>3. Stacks /\ TextExpected
  BY <1>2 DEF Init, Stacks, TextExpected, NoResponse, Sound
<1>4. CmdsAre(cmds, 0) /\ QueueIs(requests, 0)
  BY DEF Init, CmdsAre, QueueIs, WithRequest
<1>5. Counts
  BY <1>2 DEF Init, Counts, PairsUpTo, NoResponse
<1> QED
  BY <1>1, <1>2, <1>3, <1>4, <1>5 DEF Inv, Order

\* A command moves the one held before it to the queue.
LEMMA ClientCommandInv ==
  ASSUME Inv, NEW c \in Commands, ClientCommand(c)
  PROVE  Inv'
<1>1. /\ flow = "running" /\ Sound /\ Len(sent) < MaxSent
      /\ sent' = Append(sent, c) /\ held' = Len(sent) + 1
      /\ answers' = answers /\ text' = text /\ misread' = misread
      /\ reading' = reading /\ mode' = mode /\ state' = state /\ cmds' = cmds
      /\ lockstep' \in BOOLEAN
  BY DEF ClientCommand, Sound, server, Inv, TypeOK
<1>2. /\ held = Len(sent) /\ sent \in Seq(Commands) /\ Len(sent) \in Nat
      /\ Len(answers) \in Nat /\ Taken >= 0 /\ requests \in Seq(1..Len(sent))
      /\ cmds \in Seq(Entry) /\ Len(requests) \in Nat
  BY <1>1 DEF Inv, Stacks, TypeOK, Entry
<1>3. sent' \in Seq(Commands) /\ Len(sent') = Len(sent) + 1 /\ held' = Len(sent') /\ held' # 0
  BY <1>1, <1>2
<1>4. /\ requests' \in Seq(1..Len(sent))
      /\ \/ /\ flow' = "running" /\ Taken' = Taken /\ QueueIs(requests', Taken')
            /\ requests # <<>> => requests' # <<>>
         \/ flow' \in {"failed", "corrupt"}
  <2>1. CASE held = 0
    <3>1. flow' = "running" /\ requests' = requests
      BY <2>1 DEF ClientCommand, Reduce
    <3>2. Taken' = Taken
      BY <1>2, <1>3, <2>1, <3>1 DEF Taken
    <3> QED
      BY <1>1, <1>2, <3>1, <3>2 DEF Inv, Order
  <2>2. CASE held # 0
    <3>1. \/ flow' = "running" /\ requests' = Queued
          \/ flow' \in {"failed", "corrupt"} /\ requests' = requests
      BY <2>2 DEF ClientCommand, Reduce, Outcomes
    <3>2. CASE flow' = "running" /\ requests' = Queued
      <4>1. /\ Queued \in Seq(1..Len(sent)) /\ Len(Queued) = Len(requests) + 1
            /\ QueueIs(Queued, Taken) /\ Queued # <<>>
        BY <1>1, <1>2, <2>2, QueuedStep
      <4>2. Taken' = Taken
        BY <1>2, <1>3, <2>2, <3>2, <4>1 DEF Taken
      <4> QED
        BY <3>2, <4>1, <4>2
    <3> QED
      BY <1>2, <3>1, <3>2
  <2> QED
    BY <2>1, <2>2
<1>5. TypeOK'
  <2>1. requests' \in Seq(1..Len(sent')) /\ cmds' \in Seq(Entry') /\ reading' \in [res : 0..Len(answers'), ok : BOOLEAN]
    BY <1>1, <1>2, <1>3, <1>4, TypesGrow DEF Inv, TypeOK
  <2> QED
    BY <1>1, <1>2, <1>3, <1>4, <2>1, MaxSentAssumption DEF Inv, TypeOK, Entry
<1>6. Stacks'
  BY <1>1, <1>2, <1>3, <1>4 DEF Inv, Stacks, Sound
<1>7. TextExpected'
  BY <1>1, <1>4 DEF Inv, TextExpected
<1>8. Order'
  BY <1>1, <1>4 DEF Inv, Order, Sound
<1>9. Counts'
  BY <1>1, <1>4 DEF Inv, Counts, Sound
<1> QED
  BY <1>5, <1>6, <1>7, <1>8, <1>9 DEF Inv

\* The end mark queues the last command.
LEMMA ClientEndInv ==
  ASSUME Inv, ClientEnd
  PROVE  Inv'
<1>1. /\ flow = "running" /\ Sound /\ held' = 0
      /\ sent' = sent /\ answers' = answers /\ text' = text /\ misread' = misread
      /\ reading' = reading /\ mode' = mode /\ state' = state /\ cmds' = cmds
      /\ lockstep' = lockstep
  BY DEF ClientEnd, Sound, server, conversation
<1>2. /\ held = Len(sent) /\ sent \in Seq(Commands) /\ Len(sent) \in Nat
      /\ Taken >= 0 /\ requests \in Seq(1..Len(sent)) /\ Len(requests) \in Nat
  BY <1>1 DEF Inv, Stacks, TypeOK
<1>4. /\ requests' \in Seq(1..Len(sent))
      /\ \/ /\ flow' = "ending" /\ Taken' = Taken /\ QueueIs(requests', Taken')
            /\ requests # <<>> => requests' # <<>>
         \/ flow' \in {"failed", "corrupt"}
  <2>1. CASE held = 0
    <3>1. flow' = "ending" /\ requests' = requests
      BY <2>1 DEF ClientEnd, Reduce
    <3>2. Taken' = Taken
      BY <1>1, <2>1, <3>1 DEF Taken
    <3> QED
      BY <1>1, <1>2, <3>1, <3>2 DEF Inv, Order
  <2>2. CASE held # 0
    <3>1. \/ flow' = "ending" /\ requests' = Queued
          \/ flow' \in {"failed", "corrupt"} /\ requests' = requests
      BY <2>2 DEF ClientEnd, Reduce, Outcomes
    <3>2. CASE flow' = "ending" /\ requests' = Queued
      <4>1. /\ Queued \in Seq(1..Len(sent)) /\ Len(Queued) = Len(requests) + 1
            /\ QueueIs(Queued, Taken) /\ Queued # <<>>
        BY <1>1, <1>2, <2>2, QueuedStep
      <4>2. Taken' = Taken
        BY <1>1, <1>2, <2>2, <3>2, <4>1 DEF Taken
      <4> QED
        BY <3>2, <4>1, <4>2
    <3> QED
      BY <1>2, <3>1, <3>2
  <2> QED
    BY <2>1, <2>2
<1>5. TypeOK'
  BY <1>1, <1>2, <1>4 DEF Inv, TypeOK
<1>6. Stacks'
  BY <1>1, <1>2, <1>4 DEF Inv, Stacks, Sound
<1>7. TextExpected'
  BY <1>1, <1>4 DEF Inv, TextExpected
<1>8. Order'
  BY <1>1, <1>4 DEF Inv, Order, Sound
<1>9. Counts'
  BY <1>1, <1>4 DEF Inv, Counts, Sound
<1> QED
  BY <1>5, <1>6, <1>7, <1>8, <1>9 DEF Inv

\* Ending the response that is being read, if there is one, keeps the order;
\* it stays in step when there is a command for every answer but the greeting.
LEMMA PairReadingStep ==
  ASSUME Inv, Sound, PairReading, UNCHANGED <<sent, held>>
  PROVE  /\ state' \in States /\ Taken' >= 0
         /\ requests' \in Seq(1..Len(sent)) /\ cmds' \in Seq(Entry)
         /\ CmdsAre(cmds', Taken') /\ QueueIs(requests', Taken')
         /\ (/\ ~misread
             /\ \/ requests # <<>>
                \/ Len(answers) - 1 <= Len(sent) - (IF held = 0 THEN 0 ELSE 1))
            => PairsUpTo(cmds', Taken', Len(answers))
<1>1. /\ requests \in Seq(1..Len(sent)) /\ cmds \in Seq(Entry) /\ state \in States
      /\ Len(sent) \in Nat /\ Len(answers) \in Nat /\ held \in Nat
      /\ Len(requests) \in Nat /\ Len(cmds) \in Nat /\ Taken \in Nat
  BY DEF Inv, TypeOK, Stacks, Entry, Taken
<1>2. CASE reading = NoResponse
  <2>1. requests' = requests /\ cmds' = cmds /\ state' = state
    BY <1>2 DEF PairReading
  <2>2. Taken' = Taken
    BY <2>1 DEF Taken
  <2>3. ~misread => PairsUpTo(cmds, Taken, Len(answers))
    BY <1>1, <1>2 DEF Inv, Counts
  <2> QED
    BY <1>1, <2>1, <2>2, <2>3 DEF Inv, Order
<1>3. CASE reading # NoResponse
  <2>1. Pair
    BY <1>3 DEF PairReading
  <2>2. /\ state' \in States
        /\ requests' \in Seq(1..Len(sent)) /\ cmds' \in Seq(Entry)
        /\ Len(cmds') = Len(cmds) + 1
        /\ \A i \in 1..Len(cmds) : cmds'[i] = cmds[i]
        /\ cmds'[Len(cmds) + 1].res = reading.res
        /\ cmds'[Len(cmds) + 1].req = First
        /\ CmdsAre(cmds', Taken') /\ QueueIs(requests', Taken')
        /\ \/ requests = <<>> /\ First = 0 /\ requests' = <<>> /\ Taken' = Taken
           \/ /\ requests # <<>> /\ First = Taken + 1 /\ Taken' = Taken + 1
              /\ Len(requests') = Len(requests) - 1
    BY <1>3, <2>1, PairStep
  <2>3. ASSUME ~misread,
               \/ requests # <<>>
               \/ Len(answers) - 1 <= Len(sent) - (IF held = 0 THEN 0 ELSE 1)
        PROVE  PairsUpTo(cmds', Taken', Len(answers))
    <3>1. PairsUpTo(cmds, Taken, Len(answers) - 1) /\ reading.res = Len(answers)
      BY <1>3, <2>3 DEF Inv, Counts
    <3>2. Len(cmds) = Len(answers) - 1 /\ Taken <= Len(cmds) /\ Len(cmds) - 1 <= Taken
      BY <3>1 DEF PairsUpTo
    <3>3. Taken' <= Len(answers) /\ Len(answers) - 1 <= Taken'
      <4>1. CASE requests = <<>>
        <5>1. Taken = Len(sent) - (IF held = 0 THEN 0 ELSE 1)
          BY <1>1, <4>1 DEF Taken
        <5> QED
          BY <1>1, <2>2, <2>3, <3>2, <4>1, <5>1
      <4>2. CASE requests # <<>>
        BY <1>1, <2>2, <3>2, <4>2
      <4> QED
        BY <4>1, <4>2
    <3>4. First \in {0, Len(answers) - 1, Len(answers)}
      BY <1>1, <2>2, <3>2
    <3>5. \A i \in 1..Len(cmds') : cmds'[i].res = i /\ cmds'[i].req \in {0, i - 1, i}
      <4>1. TAKE i \in 1..Len(cmds')
      <4>2. CASE i \in 1..Len(cmds)
        BY <2>2, <3>1, <4>2 DEF PairsUpTo
      <4>3. CASE i = Len(cmds) + 1
        BY <1>1, <2>2, <3>1, <3>2, <3>4, <4>3
      <4> QED
        BY <1>1, <2>2, <4>2, <4>3
    <3> QED
      BY <1>1, <2>2, <3>2, <3>3, <3>5 DEF PairsUpTo
  <2>4. Taken' >= 0
    BY <1>1, <2>2
  <2> QED
    BY <2>2, <2>3, <2>4
<1> QED
  BY <1>2, <1>3

\* A failed reduction leaves queue and pairs as they are.
LEMMA ServerFailsStep ==
  ASSUME Inv, Sound, ServerFails
  PROVE  /\ flow' = "failed" /\ reading' = NoResponse
         /\ requests' = requests /\ cmds' = cmds /\ state' \in States
<1>1. state \in States /\ StateAfter \in States
  BY DEF Inv, TypeOK, StateAfter, TransferTable, States
<1> QED
  BY <1>1 DEF ServerFails

\* Once the decoder has failed only the types matter.
LEMMA FailedInv ==
  ASSUME TypeOK', flow' \in {"failed", "corrupt"},
         reading' # NoResponse => reading'.res >= 1,
         text' => Len(answers') >= 1, Len(answers') <= Len(sent') + 1
  PROVE  Inv'
BY DEF Inv, Stacks, TextExpected, Order, Counts, Sound

LEMMA ItemOf == ASSUME NEW S, NEW s \in Seq(S), NEW i \in 1..Len(s)  PROVE s[i] \in S
OBVIOUS

\* What an answer adds to the conversation.
LEMMA AnswerStep ==
  ASSUME Inv, NEW ok \in BOOLEAN, Answer(ok)
  PROVE  /\ answers' \in Seq([ok : BOOLEAN, phase : States])
         /\ Len(answers) \in Nat /\ Len(answers') = Len(answers) + 1
         /\ Len(answers) <= Len(sent) \/ Len(answers) = 0
         /\ sent' = sent /\ lockstep' = lockstep /\ misread' = misread
         /\ text' \in BOOLEAN
<1>1. /\ answers \in Seq([ok : BOOLEAN, phase : States]) /\ Len(answers) \in Nat
      /\ sent \in Seq(Commands)
  BY DEF Inv, TypeOK
<1>2. Phase \in States
  <2>1. CASE answers = <<>>
    BY <2>1 DEF Phase, States
  <2>2. CASE answers # <<>>
    <3>1. Len(answers) \in 1..Len(answers)
      BY <1>1, <2>2
    <3>2. answers[Len(answers)] \in [ok : BOOLEAN, phase : States]
      BY <1>1, <3>1, ItemOf
    <3> QED
      BY <2>2, <3>2 DEF Phase
  <2> QED
    BY <2>1, <2>2
<1>3. ASSUME NEW c PROVE Moves(c, Phase) \in States
  <2>1. Moves(c, Phase) \in {"UPDATE", "INIT", "TRANSACTION", Phase}
    BY DEF Moves
  <2> QED
    BY <1>2, <2>1 DEF States
<1> DEFINE moved == IF Len(answers) = 0 THEN "AUTHORIZATION" ELSE Moves(sent[Len(answers)], Phase)
           a == [ok |-> ok, phase |-> IF ok THEN moved ELSE Phase]
<1>4. a \in [ok : BOOLEAN, phase : States]
  BY <1>2, <1>3 DEF States
<1>5. answers' = Append(answers, a)
  BY DEF Answer
<1> HIDE DEF a
<1>6. answers' \in Seq([ok : BOOLEAN, phase : States]) /\ Len(answers') = Len(answers) + 1
  BY <1>1, <1>4, <1>5
<1>7. Len(answers) <= Len(sent) \/ Len(answers) = 0
  BY DEF Answer
<1>8. sent' = sent /\ lockstep' = lockstep /\ misread' = misread
  BY DEF Answer
<1>9. text' \in BOOLEAN
  BY DEF Answer
<1> QED
  BY <1>1, <1>6, <1>7, <1>8, <1>9

\* A status line: the response before it is paired, and this one is read.
LEMMA StatusLineInv ==
  ASSUME Inv, NEW ok \in BOOLEAN, StatusLine(ok)
  PROVE  Inv'
<1>1. /\ answers' \in Seq([ok : BOOLEAN, phase : States])
      /\ Len(answers) \in Nat /\ Len(answers') = Len(answers) + 1
      /\ Len(answers) <= Len(sent) \/ Len(answers) = 0
      /\ sent' = sent /\ lockstep' = lockstep /\ misread' = misread
      /\ text' \in BOOLEAN
  BY AnswerStep DEF StatusLine
<1>2. /\ flow = "running" /\ Sound /\ held = Len(sent) /\ Len(sent) \in Nat
      /\ requests \in Seq(1..Len(sent)) /\ cmds \in Seq(Entry) /\ mode \in {"INITIAL", "BODY"}
      /\ reading \in [res : 0..Len(answers), ok : BOOLEAN]
      /\ state \in States
  BY DEF StatusLine, Inv, Stacks, Sound, TypeOK, Entry
<1>3. /\ \A s \in Seq(Entry) : s \in Seq(Entry')
      /\ [res : 0..Len(answers), ok : BOOLEAN] \subseteq [res : 0..Len(answers'), ok : BOOLEAN]
  BY <1>1, <1>2, TypesGrow DEF Inv
<1>4. ASSUME requests' \in Seq(1..Len(sent)), cmds' \in Seq(Entry), state' \in States,
             reading' \in [res : 0..Len(answers'), ok : BOOLEAN], held' = held,
             mode' \in {"INITIAL", "BODY"}, flow' \in {"running", "failed", "corrupt"}
      PROVE  TypeOK'
  BY <1>1, <1>2, <1>3, <1>4 DEF Inv, TypeOK, Entry
<1>5. NoResponse \in [res : 0..Len(answers'), ok : BOOLEAN]
  BY <1>1 DEF NoResponse
<1>6. Len(answers') <= Len(sent') + 1 /\ Len(answers') >= 1
  BY <1>1, <1>2
<1>7. CASE mode # "INITIAL"
  <2>1. /\ flow' = "corrupt" /\ held' = held /\ requests' = requests /\ reading' = reading
        /\ mode' = mode /\ state' = state /\ cmds' = cmds
    BY <1>7 DEF StatusLine, TextRead, client, server
  <2>2. TypeOK'
    BY <1>2, <1>3, <1>4, <2>1
  <2> QED
    BY <1>6, <2>1, <2>2, FailedInv DEF Inv, Stacks
<1>8. CASE mode = "INITIAL"
  <2>1. StatusRead(Len(answers) + 1, ok)
    BY <1>8 DEF StatusLine
  <2>2. held' = held
    BY <2>1 DEF StatusRead
  <2>3. CASE ServerFails /\ mode' = mode
    <3>1. /\ flow' = "failed" /\ reading' = NoResponse
          /\ requests' = requests /\ cmds' = cmds /\ state' \in States
      BY <1>2, <2>3, ServerFailsStep
    <3>2. TypeOK'
      BY <1>2, <1>4, <1>5, <2>2, <2>3, <3>1
    <3> QED
      BY <1>6, <3>1, <3>2, FailedInv
  <2>4. CASE PairReading
    <3>1. /\ state' \in States /\ Taken' >= 0
          /\ requests' \in Seq(1..Len(sent)) /\ cmds' \in Seq(Entry)
          /\ CmdsAre(cmds', Taken') /\ QueueIs(requests', Taken')
          /\ (/\ ~misread
              /\ \/ requests # <<>>
                 \/ Len(answers) - 1 <= Len(sent) - (IF held = 0 THEN 0 ELSE 1))
             => PairsUpTo(cmds', Taken', Len(answers))
      BY <1>1, <1>2, <2>2, <2>4, PairReadingStep
    <3>2. CASE flow' = "failed" /\ reading' = NoResponse /\ mode' = mode
      <4>1. TypeOK'
        BY <1>2, <1>4, <1>5, <2>2, <3>1, <3>2
      <4> QED
        BY <1>6, <3>2, <4>1, FailedInv
    <3>3. CASE /\ reading' = [res |-> Len(answers) + 1, ok |-> ok]
               /\ mode' = ModeAfter(ok) /\ flow' = flow
      <4>1. /\ reading' \in [res : 0..Len(answers'), ok : BOOLEAN]
            /\ reading'.res = Len(answers') /\ reading' # NoResponse
        BY <1>1, <3>3 DEF NoResponse
      <4>2. /\ mode' \in {"INITIAL", "BODY"}
            /\ mode' = "BODY" => requests' # <<>>
        BY <3>3 DEF ModeAfter
      <4>3. TypeOK'
        BY <1>2, <1>4, <2>2, <3>1, <3>3, <4>1, <4>2
      <4>4. Stacks'
        BY <1>1, <1>2, <1>6, <2>2, <3>1, <3>3, <4>1 DEF Stacks
      <4>5. TextExpected' /\ Order'
        BY <3>1, <4>1, <4>2 DEF TextExpected, Order
      <4>6. Counts'
        <5>1. Len(answers) - 1 <= Len(sent) - (IF held = 0 THEN 0 ELSE 1)
          BY <1>1, <1>2
        <5>2. ~misread' => PairsUpTo(cmds', Taken', Len(answers') - 1)
          BY <1>1, <3>1, <5>1
        <5> QED
          BY <4>1, <5>2 DEF Counts
      <4> QED
        BY <4>3, <4>4, <4>5, <4>6 DEF Inv
    <3> QED
      BY <2>1, <2>3, <2>4, <3>2, <3>3 DEF StatusRead
  <2> QED
    BY <2>1, <2>3, <2>4 DEF StatusRead
<1> QED
  BY <1>7, <1>8

\* A line of text: only the response before it is disturbed, if it is read as
\* a status line.
LEMMA TextLineInv ==
  ASSUME Inv, TextLine
  PROVE  Inv'
<1>1. /\ sent' = sent /\ answers' = answers /\ text' = text /\ lockstep' = lockstep
      /\ misread' \in BOOLEAN
  BY DEF TextLine, conversation, Inv, TypeOK
<1>2. /\ flow = "running" /\ Sound /\ held = Len(sent) /\ Len(sent) \in Nat
      /\ requests \in Seq(1..Len(sent)) /\ cmds \in Seq(Entry) /\ mode \in {"INITIAL", "BODY"}
      /\ reading \in [res : 0..Len(answers), ok : BOOLEAN]
      /\ state \in States /\ Len(answers) \in Nat /\ Len(answers) >= 1
  BY DEF TextLine, Inv, Stacks, Sound, TypeOK, Entry
<1>3. ASSUME requests' \in Seq(1..Len(sent)), cmds' \in Seq(Entry), state' \in States,
             reading' \in [res : 0..Len(answers), ok : BOOLEAN], held' = held,
             mode' \in {"INITIAL", "BODY"}, flow' \in {"running", "failed", "corrupt"}
      PROVE  TypeOK'
  BY <1>1, <1>2, <1>3 DEF Inv, TypeOK, Entry
<1>4. NoResponse \in [res : 0..Len(answers), ok : BOOLEAN]
  BY <1>2 DEF NoResponse
<1>5. Len(answers') <= Len(sent') + 1 /\ Len(answers') >= 1
  BY <1>1, <1>2 DEF Inv, Stacks
<1>6. CASE TextRead
  <2>1. /\ flow' = "corrupt" /\ held' = held /\ requests' = requests /\ reading' = reading
        /\ mode' = mode /\ state' = state /\ cmds' = cmds
    BY <1>6 DEF TextRead, client, server
  <2>2. TypeOK'
    BY <1>2, <1>3, <2>1
  <2> QED
    BY <1>5, <2>1, <2>2, FailedInv DEF Inv, Stacks
<1>7. ASSUME NEW ok \in BOOLEAN, misread' = TRUE, StatusRead(Len(answers), ok)
      PROVE  Inv'
  <2>1. held' = held
    BY <1>7 DEF StatusRead
  <2>2. CASE ServerFails /\ mode' = mode
    <3>1. /\ flow' = "failed" /\ reading' = NoResponse
          /\ requests' = requests /\ cmds' = cmds /\ state' \in States
      BY <1>2, <2>2, ServerFailsStep
    <3>2. TypeOK'
      BY <1>2, <1>3, <1>4, <2>1, <2>2, <3>1
    <3> QED
      BY <1>5, <3>1, <3>2, FailedInv
  <2>3. CASE PairReading
    <3>1. /\ state' \in States /\ Taken' >= 0
          /\ requests' \in Seq(1..Len(sent)) /\ cmds' \in Seq(Entry)
          /\ CmdsAre(cmds', Taken') /\ QueueIs(requests', Taken')
      BY <1>1, <1>2, <2>1, <2>3, PairReadingStep
    <3>2. CASE flow' = "failed" /\ reading' = NoResponse /\ mode' = mode
      <4>1. TypeOK'
        BY <1>2, <1>3, <1>4, <2>1, <3>1, <3>2
      <4> QED
        BY <1>5, <3>2, <4>1, FailedInv
    <3>3. CASE /\ reading' = [res |-> Len(answers), ok |-> ok]
               /\ mode' = ModeAfter(ok) /\ flow' = flow
      <4>1. /\ reading' \in [res : 0..Len(answers), ok : BOOLEAN]
            /\ reading'.res >= 1 /\ reading' # NoResponse
        BY <1>2, <3>3 DEF NoResponse
      <4>2. /\ mode' \in {"INITIAL", "BODY"}
            /\ mode' = "BODY" => requests' # <<>>
        BY <3>3 DEF ModeAfter
      <4>3. TypeOK'
        BY <1>2, <1>3, <2>1, <3>1, <3>3, <4>1, <4>2
      <4>4. Stacks'
        BY <1>1, <1>2, <1>5, <2>1, <3>1, <3>3, <4>1 DEF Stacks
      <4>5. TextExpected' /\ Order'
        BY <3>1, <4>1, <4>2 DEF TextExpected, Order
      <4>6. Counts'
        BY <1>7 DEF Counts
      <4> QED
        BY <4>3, <4>4, <4>5, <4>6 DEF Inv
    <3> QED
      BY <1>7, <2>2, <2>3, <3>2, <3>3 DEF StatusRead
  <2> QED
    BY <1>7, <2>2, <2>3 DEF StatusRead
<1> QED
  BY <1>6, <1>7 DEF TextLine

\* The dot of a text read as the answer's content makes the pair at once.
LEMMA DotLineInv ==
  ASSUME Inv, DotLine
  PROVE  Inv'
<1>1. /\ sent' = sent /\ answers' = answers /\ text' = FALSE /\ lockstep' = lockstep
      /\ misread' = misread
  BY DEF DotLine
<1>2. /\ flow = "running" /\ Sound /\ held = Len(sent) /\ Len(sent) \in Nat
      /\ requests \in Seq(1..Len(sent)) /\ cmds \in Seq(Entry) /\ mode \in {"INITIAL", "BODY"}
      /\ reading \in [res : 0..Len(answers), ok : BOOLEAN]
      /\ state \in States /\ Len(answers) \in Nat /\ Len(answers) >= 1
  BY DEF DotLine, Inv, Stacks, Sound, TypeOK, Entry
<1>3. ASSUME requests' \in Seq(1..Len(sent)), cmds' \in Seq(Entry), state' \in States,
             reading' \in [res : 0..Len(answers), ok : BOOLEAN], held' = held,
             mode' \in {"INITIAL", "BODY"}, flow' \in {"running", "failed", "corrupt"}
      PROVE  TypeOK'
  BY <1>1, <1>2, <1>3 DEF Inv, TypeOK, Entry
<1>4. NoResponse \in [res : 0..Len(answers), ok : BOOLEAN]
  BY <1>2 DEF NoResponse
<1>5. Len(answers') <= Len(sent') + 1 /\ Len(answers') >= 1
  BY <1>1, <1>2 DEF Inv, Stacks
<1>6. CASE mode = "INITIAL"
  <2>1. /\ held' = held /\ requests' = requests /\ reading' = reading /\ mode' = mode
        /\ state' = state /\ cmds' = cmds /\ flow' = flow
    BY <1>6 DEF DotLine, client, server
  <2>2. TypeOK'
    BY <1>2, <1>3, <2>1
  <2>3. Taken' = Taken
    BY <1>1, <2>1 DEF Taken
  <2>4. Stacks' /\ TextExpected'
    BY <1>1, <1>2, <1>5, <2>1, <2>3 DEF Inv, Stacks, TextExpected, Sound
  <2>5. Order' /\ Counts'
    BY <1>1, <1>2, <2>1, <2>3 DEF Inv, Order, Counts
  <2> QED
    BY <2>2, <2>4, <2>5 DEF Inv
<1>7. CASE mode = "BODY"
  <2>1. held' = held /\ mode' = "INITIAL"
    BY <1>7 DEF DotLine
  <2>2. CASE ServerFails
    <3>1. /\ flow' = "failed" /\ reading' = NoResponse
          /\ requests' = requests /\ cmds' = cmds /\ state' \in States
      BY <1>2, <2>2, ServerFailsStep
    <3>2. TypeOK'
      BY <1>2, <1>3, <1>4, <2>1, <3>1
    <3> QED
      BY <1>5, <3>1, <3>2, FailedInv
  <2>3. CASE Pair /\ reading' = NoResponse /\ flow' = flow
    <3>1. reading # NoResponse /\ requests # <<>>
      BY <1>2, <1>7 DEF Inv, TextExpected
    <3>2. PairReading
      BY <2>3, <3>1 DEF PairReading
    <3>3. /\ state' \in States /\ Taken' >= 0
          /\ requests' \in Seq(1..Len(sent)) /\ cmds' \in Seq(Entry)
          /\ CmdsAre(cmds', Taken') /\ QueueIs(requests', Taken')
          /\ ~misread => PairsUpTo(cmds', Taken', Len(answers))
      BY <1>1, <1>2, <2>1, <3>1, <3>2, PairReadingStep
    <3>4. TypeOK'
      BY <1>2, <1>3, <1>4, <2>1, <2>3, <3>3
    <3>5. Stacks'
      BY <1>1, <1>2, <1>5, <2>1, <2>3, <3>3 DEF Stacks
    <3>6. TextExpected' /\ Order'
      BY <2>1, <3>3 DEF TextExpected, Order
    <3>7. Counts'
      BY <1>1, <1>2, <2>3, <3>3 DEF Counts
    <3> QED
      BY <3>4, <3>5, <3>6, <3>7 DEF Inv
  <2> QED
    BY <1>7, <2>2, <2>3 DEF DotLine
<1> QED
  BY <1>2, <1>6, <1>7

\* The end of the server's stream pairs the last response.
LEMMA ServerEndInv ==
  ASSUME Inv, ServerEnd
  PROVE  Inv'
<1>1. /\ sent' = sent /\ answers' = answers /\ text' = text /\ lockstep' = lockstep
      /\ misread' = misread /\ held' = held /\ mode' = mode
  BY DEF ServerEnd, conversation
<1>2. /\ flow = "ending" /\ Sound /\ held = 0 /\ Len(sent) \in Nat
      /\ requests \in Seq(1..Len(sent)) /\ cmds \in Seq(Entry)
      /\ state \in States /\ Len(answers) \in Nat
  BY DEF ServerEnd, Inv, Stacks, Sound, TypeOK, Entry
<1>3. ASSUME requests' \in Seq(1..Len(sent)), cmds' \in Seq(Entry), state' \in States,
             reading' = NoResponse, flow' \in {"ended", "failed"}
      PROVE  TypeOK'
  <2>1. NoResponse \in [res : 0..Len(answers), ok : BOOLEAN]
    BY <1>2 DEF NoResponse
  <2> QED
    BY <1>1, <1>2, <1>3, <2>1 DEF Inv, TypeOK, Entry
<1>4. Len(answers') <= Len(sent') + 1 /\ (text' => Len(answers') >= 1)
  BY <1>1 DEF Inv, Stacks
<1>5. CASE ServerFails
  <2>1. /\ flow' = "failed" /\ reading' = NoResponse
        /\ requests' = requests /\ cmds' = cmds /\ state' \in States
    BY <1>2, <1>5, ServerFailsStep
  <2>2. TypeOK'
    BY <1>2, <1>3, <2>1
  <2> QED
    BY <1>4, <2>1, <2>2, FailedInv
<1>6. CASE PairReading /\ reading' = NoResponse /\ flow' = "ended"
  <2>1. Len(answers) - 1 <= Len(sent) - (IF held = 0 THEN 0 ELSE 1)
    BY <1>2 DEF Inv, Stacks
  <2>2. /\ state' \in States /\ Taken' >= 0
        /\ requests' \in Seq(1..Len(sent)) /\ cmds' \in Seq(Entry)
        /\ CmdsAre(cmds', Taken') /\ QueueIs(requests', Taken')
        /\ ~misread => PairsUpTo(cmds', Taken', Len(answers))
    BY <1>1, <1>2, <1>6, <2>1, PairReadingStep
  <2>3. TypeOK'
    BY <1>2, <1>3, <1>6, <2>2
  <2>4. Stacks'
    BY <1>1, <1>2, <1>4, <1>6, <2>2 DEF Stacks
  <2>5. TextExpected' /\ Order'
    BY <1>6, <2>2 DEF TextExpected, Order
  <2>6. Counts'
    BY <1>1, <1>2, <1>6, <2>2 DEF Counts
  <2> QED
    BY <2>3, <2>4, <2>5, <2>6 DEF Inv
<1> QED
  BY <1>5, <1>6 DEF ServerEnd

-----------------------------------------------------------------------------
\* Every step of the decoder keeps Inv.
LEMMA NextInv ==
  ASSUME Inv, [Next]_vars
  PROVE  Inv'
<1>1. CASE UNCHANGED vars
  <2>1. /\ sent' = sent /\ answers' = answers /\ text' = text /\ lockstep' = lockstep
        /\ misread' = misread /\ held' = held /\ requests' = requests
        /\ reading' = reading /\ mode' = mode /\ state' = state /\ cmds' = cmds
        /\ flow' = flow
    BY <1>1 DEF vars, conversation, client, server
  <2>2. TypeOK'
    BY <2>1 DEF Inv, TypeOK
  <2>3. Taken' = Taken
    BY <2>1 DEF Taken
  <2>4. Stacks' /\ TextExpected'
    BY <2>1, <2>3 DEF Inv, Stacks, TextExpected, Sound
  <2>5. Order' /\ Counts'
    BY <2>1, <2>3 DEF Inv, Order, Counts, Sound
  <2> QED
    BY <2>2, <2>4, <2>5 DEF Inv
<1>2. ASSUME NEW c \in Commands, ClientCommand(c)  PROVE Inv'
  BY <1>2, ClientCommandInv
<1>3. CASE ClientEnd
  BY <1>3, ClientEndInv
<1>4. ASSUME NEW ok \in BOOLEAN, StatusLine(ok)  PROVE Inv'
  BY <1>4, StatusLineInv
<1>5. CASE TextLine
  BY <1>5, TextLineInv
<1>6. CASE DotLine
  BY <1>6, DotLineInv
<1>7. CASE ServerEnd
  BY <1>7, ServerEndInv
<1> QED
  BY <1>1, <1>2, <1>3, <1>4, <1>5, <1>6, <1>7 DEF Next

\* The decoder keeps its types, and its stacks, queue and pairs consistent, for
\* every conversation.
THEOREM Pop3Invariant == Spec => []Inv
<1>1. Init => Inv
  BY InitInv
<1>2. Inv /\ [Next]_vars => Inv'
  BY NextInv
<1> QED
  BY <1>1, <1>2, PTL DEF Spec

\* Every variable keeps its type.
THEOREM Pop3Types == Spec => []TypeOK
<1>1. Inv => TypeOK
  BY DEF Inv
<1> QED
  BY <1>1, Pop3Invariant, PTL

\* No command is lost, doubled or overtaken between the client parser's stack,
\* request_list and cmd_list (pop3_client.y 97-101, pop3_server.y 278-297).
THEOREM Pop3Order == Spec => []RequestsInOrder
<1>1. ASSUME Inv PROVE RequestsInOrder
  <2>1. held # 0 /\ Sound => held = Len(sent)
    BY <1>1 DEF Inv, Stacks, Sound
  <2>2. Sound => CmdsAre(cmds, Taken) /\ QueueIs(requests, Taken)
    BY <1>1 DEF Inv, Order
  <2>3. Paired = WithRequest(cmds)
    BY DEF Paired, WithRequest
  <2> QED
    BY <2>1, <2>2, <2>3 DEF RequestsInOrder, CmdsAre, QueueIs, Taken
<1> QED
  BY <1>1, Pop3Invariant, PTL

\* A command is paired with its own answer or with the one before it, however
\* far the client runs ahead (pop3_server.y 107-112).
THEOREM Pop3OffByOne == Spec => []OffByOneAtMost
<1>1. ASSUME Inv PROVE OffByOneAtMost
  <2>1. SUFFICES ASSUME Sound, ~misread, NEW i \in Paired
                 PROVE  cmds[i].req \in {cmds[i].res - 1, cmds[i].res}
    BY DEF OffByOneAtMost
  <2>2. i \in 1..Len(cmds) /\ cmds[i].req # 0
    BY <2>1 DEF Paired
  <2>3. cmds[i].res = i /\ cmds[i].req \in {0, i - 1, i}
    BY <1>1, <2>1, <2>2 DEF Inv, Counts, PairsUpTo
  <2> QED
    BY <2>2, <2>3
<1> QED
  BY <1>1, Pop3Invariant, PTL

\* Nothing is left on a stack at the end, and each answer is in a command.
THEOREM Pop3EndComplete == Spec => []EndComplete
<1>1. ASSUME Inv PROVE EndComplete
  <2>1. SUFFICES ASSUME flow = "ended"
                 PROVE  held = 0 /\ reading = NoResponse /\ (~misread => Len(cmds) = Len(answers))
    BY DEF EndComplete
  <2>2. Sound /\ held = 0 /\ reading = NoResponse /\ Len(answers) \in Nat
    BY <1>1, <2>1 DEF Sound, Inv, Stacks, TypeOK
  <2>3. ~misread => Len(cmds) = Len(answers)
    BY <1>1, <2>2 DEF Inv, Counts, PairsUpTo
  <2> QED
    BY <2>2, <2>3
<1> QED
  BY <1>1, Pop3Invariant, PTL

-----------------------------------------------------------------------------
(* What a client that waits for each answer is promised, for any set of    *)
(* commands and conversations of any length                               *)

InStep == lockstep /\ ~misread
Live == flow \in {"running", "ending"} /\ InStep

\* Answer k is one the server may give to command k - 1.
Answered(k) ==
  IF k = 1
  THEN answers[1].phase = IF answers[1].ok THEN "AUTHORIZATION" ELSE "INIT"
  ELSE /\ answers[k].ok => Accepts(sent[k - 1], answers[k - 1].phase)
       /\ answers[k].phase = IF answers[k].ok
                             THEN Moves(sent[k - 1], answers[k - 1].phase)
                             ELSE answers[k - 1].phase

Conversed ==
  /\ \A k \in 1..Len(answers) : Answered(k)
  /\ \A k \in 1..(Len(answers) - 1) : answers[k].phase \in {"AUTHORIZATION", "TRANSACTION"}

\* The first command may come before the greeting, no other before the answer
\* to the one before it.
NoneEarly == lockstep => Len(sent) <= Len(answers) \/ Len(sent) <= 1

Quiet ==
  InStep => /\ mode = "INITIAL"
            /\ flow = "corrupt" => \E i \in 1..Len(sent) : sent[i].code = "UNKNOWN"

\* The last answer is on the server parser's stack until its stream ends.
LastRead ==
  Live /\ answers # <<>> => reading # NoResponse /\ reading.ok = answers[Len(answers)].ok

\* cs pairs each of its answers with its own command, n of them in all.
InTurn(cs, n) ==
  /\ n = IF Len(cs) = 0 THEN 0 ELSE Len(cs) - 1
  /\ \A i \in 1..Len(cs) : cs[i].res = i /\ cs[i].req = i - 1

AlarmRight(i) == cmds[i].alarm <=> ~Accepts(sent[i - 1], answers[i - 1].phase)

PhaseAt(n) == IF n = 0 THEN "INIT" ELSE answers[n].phase

Turn ==
  Waiting => /\ InTurn(cmds, Taken)
             /\ state = PhaseAt(Len(cmds))
             /\ \A i \in 2..Len(cmds) : AlarmRight(i)

TurnInv == Conversed /\ NoneEarly /\ Quiet /\ LastRead /\ Turn
FullInv == Inv /\ TurnInv

-----------------------------------------------------------------------------
(* The decoder's two tables and the server's rules.                        *)

LEMMA TransferIsMove ==
  ASSUME NEW c \in Commands, NEW phase \in {"AUTHORIZATION", "TRANSACTION"}, Accepts(c, phase)
  PROVE  TransferTable(c.code, phase) = Moves(c, phase)
<1>1. CASE phase = "AUTHORIZATION"
  <2>1. c.code \in {"USER", "PASS", "APOP", "QUIT", "UNKNOWN"}
    BY <1>1 DEF Accepts, Authorizing
  <2> QED
    BY <1>1, <2>1 DEF TransferTable, Moves
<1>2. CASE phase = "TRANSACTION"
  <2>1. c.code \notin {"USER", "PASS", "APOP"}
    BY <1>2 DEF Accepts, Authorizing
  <2> QED
    BY <1>2, <2>1 DEF TransferTable, Moves
<1> QED
  BY <1>1, <1>2

LEMMA CheckIsAccept ==
  ASSUME NEW c \in Commands, NEW phase \in {"AUTHORIZATION", "TRANSACTION"}
  PROVE  CheckTable(phase, c.code) <=> Accepts(c, phase)
<1>1. CASE phase = "AUTHORIZATION"
  BY <1>1 DEF CheckTable, Accepts, Authorizing
<1>2. CASE phase = "TRANSACTION"
  <2>1. CheckTable(phase, c.code) <=> c.code \notin {"USER", "PASS", "APOP"}
    BY <1>2 DEF CheckTable
  <2>2. Accepts(c, phase) <=> c.code \notin Authorizing \ {"QUIT", "UNKNOWN"}
    BY <1>2 DEF Accepts
  <2>3. Authorizing \ {"QUIT", "UNKNOWN"} = {"USER", "PASS", "APOP"}
    BY DEF Authorizing
  <2> QED
    BY <2>1, <2>2, <2>3
<1> QED
  BY <1>1, <1>2

-----------------------------------------------------------------------------
\* When the last response is paired its command is the first in the queue; the
\* greeting finds the queue empty.
LEMMA FirstInTurn ==
  ASSUME FullInv, Live, reading # NoResponse,
         flow = "running" => Len(answers) <= Len(sent),
         flow = "ending" => Len(answers) # 1
  PROVE  /\ Len(cmds) \in Nat /\ Len(answers) = Len(cmds) + 1
         /\ InTurn(cmds, Taken) /\ reading.res = Len(answers)
         /\ First = Len(cmds) /\ Len(cmds) <= Len(sent)
         /\ Len(cmds) = 0 => requests = <<>>
         /\ Len(cmds) # 0 => requests # <<>>
         /\ flow = "running" => Len(requests) <= 1
<1>1. /\ Len(sent) \in Nat /\ Len(answers) \in Nat /\ requests \in Seq(1..Len(sent))
      /\ cmds \in Seq(Entry) /\ Len(cmds) \in Nat /\ Len(requests) \in Nat
      /\ held \in 0..Len(sent)
  BY DEF FullInv, Inv, TypeOK, Entry
<1>2. Sound /\ ~misread /\ lockstep /\ Waiting
  BY DEF Live, InStep, Sound, Waiting
<1>3. Len(answers) = Len(cmds) + 1 /\ reading.res = Len(answers)
  <2>1. PairsUpTo(cmds, Taken, Len(answers) - 1) /\ reading.res = Len(answers)
    BY <1>2 DEF FullInv, Inv, Counts
  <2> QED
    BY <1>1, <2>1 DEF PairsUpTo
<1>4. InTurn(cmds, Taken)
  BY <1>2 DEF FullInv, TurnInv, Turn
<1>5. /\ flow = "running" => held = Len(sent)
      /\ flow = "ending" => held = 0
      /\ Len(answers) <= Len(sent) + 1
  BY DEF FullInv, Inv, Stacks
<1>6. Len(sent) <= Len(answers) \/ Len(sent) <= 1
  BY <1>2 DEF FullInv, TurnInv, NoneEarly
<1>7. flow = "running" \/ flow = "ending"
  BY DEF Live
<1>8. Taken = Len(sent) - Len(requests) - (IF held = 0 THEN 0 ELSE 1)
  BY DEF Taken
<1>9. Taken = IF Len(cmds) = 0 THEN 0 ELSE Len(cmds) - 1
  BY <1>4 DEF InTurn
<1>10. QueueIs(requests, Taken)
  BY <1>2 DEF FullInv, Inv, Order
<1>11. CASE Len(cmds) = 0
  <2>1. flow = "running" /\ Len(sent) = 1 /\ Len(requests) = 0
    <3>1. Len(answers) = 1
      BY <1>3, <1>11
    <3>2. flow = "running"
      BY <1>7, <3>1
    <3>3. Len(sent) = 1 /\ held = 1
      BY <1>1, <1>5, <1>6, <3>1, <3>2
    <3>4. 0 = 1 - Len(requests) - 1
      BY <1>8, <1>9, <1>11, <3>3
    <3> QED
      BY <1>1, <3>2, <3>3, <3>4
  <2>2. requests = <<>>
    BY <1>1, <2>1
  <2> QED
    BY <1>1, <1>3, <1>4, <1>11, <2>1, <2>2 DEF First
<1>12. CASE Len(cmds) # 0
  <2>1. Len(requests) >= 1 /\ Len(cmds) <= Len(sent) /\ (flow = "running" => Len(requests) <= 1)
    <3>1. CASE flow = "running"
      BY <1>1, <1>3, <1>5, <1>6, <1>8, <1>9, <1>12, <3>1
    <3>2. CASE flow = "ending"
      BY <1>1, <1>3, <1>5, <1>8, <1>9, <1>12, <3>2
    <3> QED
      BY <1>7, <3>1, <3>2
  <2>2. requests # <<>> /\ First = requests[1]
    BY <1>1, <2>1 DEF First
  <2>3. requests[1] = Taken + 1
    BY <1>1, <1>10, <2>1 DEF QueueIs
  <2> QED
    BY <1>1, <1>3, <1>4, <1>9, <1>12, <2>1, <2>2, <2>3
<1> QED
  BY <1>11, <1>12

\* A pair made in step is the right one, and so are state and alarm.
LEMMA PairInTurn ==
  ASSUME FullInv, Live, reading # NoResponse, Pair, UNCHANGED <<sent, held>>,
         flow = "running" => Len(answers) <= Len(sent),
         flow = "ending" => Len(answers) # 1
  PROVE  /\ InTurn(cmds', Taken') /\ Len(cmds') = Len(answers)
         /\ state' = PhaseAt(Len(answers))
         /\ \A i \in 2..Len(answers) :
              cmds'[i].alarm <=> ~Accepts(sent[i - 1], answers[i - 1].phase)
         /\ flow = "running" => requests' = <<>>
<1> DEFINE m == Len(cmds)
<1>1. /\ m \in Nat /\ Len(answers) = m + 1 /\ InTurn(cmds, Taken)
      /\ reading.res = Len(answers) /\ First = m /\ m <= Len(sent)
      /\ m = 0 => requests = <<>>
      /\ m # 0 => requests # <<>>
      /\ flow = "running" => Len(requests) <= 1
  BY FirstInTurn
<1>2. Sound /\ Waiting /\ answers # <<>>
  <2>1. Sound /\ Waiting
    BY DEF Live, InStep, Sound, Waiting
  <2> QED
    BY <1>1, <2>1
<1>3. /\ cmds \in Seq(Entry) /\ requests \in Seq(1..Len(sent)) /\ sent \in Seq(Commands)
      /\ Len(sent) \in Nat
  BY DEF FullInv, Inv, TypeOK, Entry
<1>4. /\ cmds' \in Seq(Entry) /\ requests' \in Seq(1..Len(sent))
      /\ Len(cmds') = m + 1
      /\ \A i \in 1..m : cmds'[i] = cmds[i]
      /\ cmds'[m + 1].res = reading.res
      /\ cmds'[m + 1].req = First
      /\ \/ requests = <<>> /\ First = 0 /\ requests' = <<>> /\ Taken' = Taken
         \/ /\ requests # <<>> /\ First = Taken + 1 /\ Taken' = Taken + 1
            /\ Len(requests') = Len(requests) - 1
  BY <1>2, PairStep DEF FullInv
<1>5. Taken = IF m = 0 THEN 0 ELSE m - 1
  BY <1>1 DEF InTurn
<1>6. Taken' = m
  BY <1>1, <1>4, <1>5
<1>7. \A i \in 1..m : cmds[i].res = i /\ cmds[i].req = i - 1
  BY <1>1 DEF InTurn
<1>8. InTurn(cmds', Taken')
  <2>1. ASSUME NEW i \in 1..(m + 1) PROVE cmds'[i].res = i /\ cmds'[i].req = i - 1
    <3>1. CASE i \in 1..m
      BY <1>4, <1>7, <3>1
    <3>2. CASE i = m + 1
      BY <1>1, <1>4, <3>2
    <3> QED
      BY <1>1, <3>1, <3>2
  <2> QED
    BY <1>1, <1>4, <1>6, <2>1 DEF InTurn
<1>9. state = PhaseAt(m) /\ \A i \in 2..m : AlarmRight(i)
  BY <1>2 DEF FullInv, TurnInv, Turn
<1>10. reading.ok = answers[m + 1].ok /\ Answered(m + 1)
       /\ (m # 0 => answers[m].phase \in {"AUTHORIZATION", "TRANSACTION"})
  BY <1>1, <1>2 DEF FullInv, TurnInv, LastRead, Conversed
<1>11. m # 0 => sent[m] \in Commands
  BY <1>1, <1>3
<1>12. state' = StateAfter
         /\ cmds' = Append(cmds, [req |-> First, res |-> reading.res, alarm |-> ~StateCheck])
  BY DEF Pair
<1>13. state' = answers[m + 1].phase
  <2>1. CASE m = 0
    <3>1. state = "INIT" /\ First = 0
      BY <1>1, <1>9, <2>1 DEF PhaseAt
    <3>2. StateAfter = IF reading.ok THEN "AUTHORIZATION" ELSE "INIT"
      BY <3>1 DEF StateAfter
    <3>3. answers[1].phase = IF answers[1].ok THEN "AUTHORIZATION" ELSE "INIT"
      BY <1>10, <2>1 DEF Answered
    <3>4. reading.ok = answers[1].ok /\ answers[m + 1].phase = answers[1].phase
      BY <1>10, <2>1
    <3>5. state' = IF answers[1].ok THEN "AUTHORIZATION" ELSE "INIT"
      BY <1>12, <3>2, <3>4
    <3> QED
      BY <3>3, <3>4, <3>5
  <2>2. CASE m # 0
    <3>1. state = answers[m].phase /\ First = m /\ First # 0
      BY <1>1, <1>9, <2>2 DEF PhaseAt
    <3>2. /\ reading.ok => StateAfter = TransferTable(sent[m].code, state)
          /\ ~reading.ok => StateAfter = state
      <4>1. CASE reading.ok
        BY <3>1, <4>1 DEF StateAfter
      <4>2. CASE ~reading.ok
        BY <4>2 DEF StateAfter
      <4> QED
        BY <4>1, <4>2
    <3>3. /\ answers[m + 1].ok => Accepts(sent[m], answers[m].phase)
          /\ answers[m + 1].phase = IF answers[m + 1].ok
                                    THEN Moves(sent[m], answers[m].phase)
                                    ELSE answers[m].phase
      <4>1. m + 1 # 1 /\ (m + 1) - 1 = m
        BY <1>1, <2>2
      <4> QED
        BY <1>10, <4>1 DEF Answered
    <3>4. answers[m + 1].ok => TransferTable(sent[m].code, state) = Moves(sent[m], answers[m].phase)
      BY <1>10, <1>11, <2>2, <3>1, <3>3, TransferIsMove
    <3>5. CASE answers[m + 1].ok
      BY <1>10, <1>12, <3>2, <3>3, <3>4, <3>5
    <3>6. CASE ~answers[m + 1].ok
      <4>1. state' = state
        BY <1>10, <1>12, <3>2, <3>6
      <4> QED
        BY <3>1, <3>3, <3>6, <4>1
    <3> QED
      BY <3>5, <3>6
  <2> QED
    BY <2>1, <2>2
<1>14. ASSUME NEW i \in 2..(m + 1)
       PROVE  cmds'[i].alarm <=> ~Accepts(sent[i - 1], answers[i - 1].phase)
  <2>1. CASE i \in 2..m
    <3>1. cmds'[i] = cmds[i]
      BY <1>1, <1>4, <2>1
    <3> QED
      BY <1>9, <2>1, <3>1 DEF AlarmRight
  <2>2. CASE i = m + 1
    <3>1. m # 0 /\ i - 1 = m /\ First = m /\ First # 0
      BY <1>1, <2>2
    <3>2. cmds'[i].alarm = ~StateCheck
      BY <1>1, <1>3, <1>12, <2>2
    <3>3. state = answers[m].phase
      BY <1>9, <3>1 DEF PhaseAt
    <3>4. StateCheck <=> CheckTable(answers[m].phase, sent[m].code)
      BY <3>1, <3>3 DEF StateCheck
    <3>5. StateCheck <=> Accepts(sent[m], answers[m].phase)
      BY <1>10, <1>11, <3>1, <3>4, CheckIsAccept
    <3> QED
      BY <3>1, <3>2, <3>5
  <2> QED
    BY <1>1, <2>1, <2>2
<1>15. flow = "running" => requests' = <<>>
  BY <1>1, <1>3, <1>4
<1> QED
  BY <1>1, <1>4, <1>8, <1>13, <1>14, <1>15 DEF PhaseAt

-----------------------------------------------------------------------------
LEMMA InitTurn == Init => TurnInv
<1> SUFFICES ASSUME Init PROVE TurnInv
  OBVIOUS
<1>1. /\ sent = <<>> /\ answers = <<>> /\ requests = <<>> /\ cmds = <<>>
      /\ held = 0 /\ mode = "INITIAL" /\ state = "INIT" /\ flow = "running"
  BY DEF Init
<1>2. Len(sent) = 0 /\ Len(answers) = 0 /\ Len(cmds) = 0 /\ Len(requests) = 0
  BY <1>1
<1>3. Taken = 0
  BY <1>1, <1>2 DEF Taken
<1>4. Conversed /\ NoneEarly /\ Quiet /\ LastRead
  BY <1>1, <1>2 DEF Conversed, NoneEarly, Quiet, LastRead
<1>5. Turn
  BY <1>1, <1>2, <1>3 DEF Turn, InTurn, PhaseAt
<1> QED
  BY <1>4, <1>5 DEF TurnInv

\* What is out of step stays so, and nothing but the conversation matters.
LEMMA OutOfStep ==
  ASSUME ~InStep', Conversed', NoneEarly'
  PROVE  TurnInv'
BY DEF TurnInv, Quiet, LastRead, Turn, Live, Waiting, InStep

LEMMA ConversationKept ==
  ASSUME TurnInv, UNCHANGED <<sent, answers, lockstep>>
  PROVE  Conversed' /\ NoneEarly'
BY DEF TurnInv, Conversed, Answered, NoneEarly

\* When the decoder fails in step there is nothing left to keep.
LEMMA FailedTurn ==
  ASSUME Conversed', NoneEarly', mode' = "INITIAL", flow' = "failed"
  PROVE  TurnInv'
BY DEF TurnInv, Quiet, LastRead, Turn, Live, Waiting, Sound

LEMMA SameTurn ==
  ASSUME FullInv, UNCHANGED vars
  PROVE  TurnInv'
<1>1. /\ sent' = sent /\ answers' = answers /\ lockstep' = lockstep /\ misread' = misread
      /\ held' = held /\ requests' = requests /\ reading' = reading /\ mode' = mode
      /\ state' = state /\ cmds' = cmds /\ flow' = flow
  BY DEF vars, conversation, client, server
<1>2. Conversed' /\ NoneEarly'
  BY <1>1, ConversationKept DEF FullInv
<1>3. Quiet' /\ LastRead'
  BY <1>1 DEF FullInv, TurnInv, Quiet, LastRead, InStep, Live
<1>4. Waiting' = Waiting /\ Taken' = Taken
  BY <1>1 DEF Waiting, Sound, Taken
<1>5. Turn'
  BY <1>1, <1>4 DEF FullInv, TurnInv, Turn, InTurn, PhaseAt, AlarmRight
<1> QED
  BY <1>2, <1>3, <1>5 DEF TurnInv

-----------------------------------------------------------------------------
\* What the client's parser does leaves the pairs alone.
LEMMA ReduceStep ==
  ASSUME Inv, flow = "running", NEW b \in BOOLEAN, NEW onward \in {"running", "ending"},
         Reduce(b, onward), held = Len(sent),
         Len(sent') \in Nat, Len(sent') - (IF held' = 0 THEN 0 ELSE 1) = Len(sent)
  PROVE  \/ flow' = onward /\ Taken' = Taken
         \/ flow' = "failed"
         \/ flow' = "corrupt" /\ held \in 1..Len(sent) /\ sent[held].code = "UNKNOWN"
<1>1. Len(sent) \in Nat /\ Len(requests) \in Nat /\ held \in 0..Len(sent)
  BY DEF Inv, TypeOK
<1>2. CASE held = 0
  <2>1. flow' = onward /\ requests' = requests
    BY <1>2 DEF Reduce
  <2>2. Taken = Len(sent) - Len(requests)
    BY <1>1, <1>2 DEF Taken
  <2>3. Taken' = Len(sent) - Len(requests)
    <3>1. CASE held' = 0
      BY <1>1, <2>1, <3>1 DEF Taken
    <3>2. CASE held' # 0
      BY <1>1, <2>1, <3>2 DEF Taken
    <3> QED
      BY <3>1, <3>2
  <2> QED
    BY <2>1, <2>2, <2>3
<1>3. CASE held # 0
  <2>1. PICK outcome \in Outcomes(sent[held], b) :
          IF outcome = "ok"
          THEN requests' = Queued /\ flow' = onward
          ELSE flow' = outcome /\ UNCHANGED requests
    BY <1>3 DEF Reduce
  <2>2. CASE outcome = "ok"
    <3>1. Len(Queued) = Len(requests) + 1
      BY <1>3, QueuedStep DEF Sound
    <3>2. Taken' = Taken
      BY <1>1, <1>3, <2>1, <2>2, <3>1 DEF Taken
    <3> QED
      BY <2>1, <2>2, <3>2
  <2>3. CASE outcome # "ok"
    BY <1>1, <1>3, <2>1, <2>3 DEF Outcomes
  <2> QED
    BY <2>2, <2>3
<1> QED
  BY <1>2, <1>3

LEMMA ClientTurn ==
  ASSUME FullInv, flow = "running", UNCHANGED <<answers, misread, server>>,
         \A i \in 1..Len(sent) : sent'[i] = sent[i],
         Len(sent') \in Nat, Len(sent) <= Len(sent'), lockstep' => lockstep, NoneEarly',
         \/ flow' \in {"running", "ending"} /\ Taken' = Taken
         \/ flow' = "failed"
         \/ flow' = "corrupt" /\ held \in 1..Len(sent) /\ sent[held].code = "UNKNOWN"
  PROVE  TurnInv'
<1>1. /\ answers' = answers /\ misread' = misread /\ reading' = reading /\ mode' = mode
      /\ state' = state /\ cmds' = cmds
  BY DEF server
<1>2. /\ Len(sent) \in Nat /\ Len(answers) \in Nat /\ Len(answers) <= Len(sent) + 1
      /\ Len(cmds) \in Nat
  BY DEF FullInv, Inv, TypeOK, Stacks
<1>3. InStep' => InStep
  BY <1>1 DEF InStep
<1>4. Conversed'
  <2>1. \A k \in 1..Len(answers) : Answered(k)
    BY DEF FullInv, TurnInv, Conversed
  <2>2. ASSUME NEW k \in 1..Len(answers) PROVE Answered(k)'
    <3>1. CASE k = 1
      BY <1>1, <2>1, <3>1 DEF Answered
    <3>2. CASE k # 1
      <4>1. sent'[k - 1] = sent[k - 1]
        BY <1>2, <3>2
      <4> QED
        BY <1>1, <2>1, <3>2, <4>1 DEF Answered
    <3> QED
      BY <3>1, <3>2
  <2> QED
    BY <1>1, <2>2 DEF FullInv, TurnInv, Conversed
<1>5. Quiet'
  <2> SUFFICES ASSUME InStep'
               PROVE  /\ mode' = "INITIAL"
                      /\ flow' = "corrupt" => \E i \in 1..Len(sent') : sent'[i].code = "UNKNOWN"
    BY DEF Quiet
  <2>1. mode' = "INITIAL"
    BY <1>1, <1>3 DEF FullInv, TurnInv, Quiet
  <2>2. ASSUME flow' = "corrupt" PROVE \E i \in 1..Len(sent') : sent'[i].code = "UNKNOWN"
    <3>1. held \in 1..Len(sent) /\ sent[held].code = "UNKNOWN"
      BY <2>2
    <3>2. held \in 1..Len(sent') /\ sent'[held].code = "UNKNOWN"
      BY <1>2, <3>1
    <3> QED
      BY <3>2
  <2> QED
    BY <2>1, <2>2
<1>6. LastRead'
  BY <1>1, <1>3 DEF FullInv, TurnInv, LastRead, Live
<1>7. Turn'
  <2> SUFFICES ASSUME Waiting'
               PROVE  /\ InTurn(cmds', Taken')
                      /\ state' = PhaseAt(Len(cmds))'
                      /\ \A i \in 2..Len(cmds') : AlarmRight(i)'
    BY <1>1 DEF Turn
  <2>1. Waiting /\ Taken' = Taken
    BY <1>1 DEF Waiting, Sound
  <2>2. InTurn(cmds, Taken) /\ state = PhaseAt(Len(cmds)) /\ \A i \in 2..Len(cmds) : AlarmRight(i)
    BY <2>1 DEF FullInv, TurnInv, Turn
  <2>3. Len(cmds) <= Len(answers)
    <3>1. PairsUpTo(cmds, Taken, Len(answers) - (IF reading = NoResponse THEN 0 ELSE 1))
      BY <2>1 DEF FullInv, Inv, Counts, Waiting
    <3> QED
      BY <1>2, <3>1 DEF PairsUpTo
  <2>4. ASSUME NEW i \in 2..Len(cmds) PROVE AlarmRight(i)'
    <3>1. sent'[i - 1] = sent[i - 1]
      BY <1>2, <2>3
    <3> QED
      BY <1>1, <2>2, <3>1 DEF AlarmRight
  <2> QED
    BY <1>1, <2>1, <2>2, <2>4 DEF PhaseAt
<1> QED
  BY <1>4, <1>5, <1>6, <1>7 DEF TurnInv

LEMMA ClientCommandTurn ==
  ASSUME FullInv, NEW c \in Commands, ClientCommand(c)
  PROVE  TurnInv'
<1>1. /\ flow = "running" /\ sent' = Append(sent, c) /\ held' = Len(sent) + 1
      /\ UNCHANGED <<answers, misread, server>>
      /\ lockstep' = (lockstep /\ (Len(sent) = 0 \/ Len(answers) > Len(sent)))
      /\ Reduce(c.code = "UNKNOWN", "running")
  BY DEF ClientCommand
<1>2. sent \in Seq(Commands) /\ Len(sent) \in Nat /\ Len(answers) \in Nat /\ held = Len(sent)
  BY <1>1 DEF FullInv, Inv, TypeOK, Stacks
<1>3. Len(sent') = Len(sent) + 1 /\ \A i \in 1..Len(sent) : sent'[i] = sent[i]
  BY <1>1, <1>2
<1>4. lockstep' => lockstep /\ (Len(sent) = 0 \/ Len(answers) > Len(sent))
  BY <1>1
<1>5. NoneEarly'
  BY <1>1, <1>2, <1>3, <1>4 DEF NoneEarly
<1>6. \/ flow' = "running" /\ Taken' = Taken
      \/ flow' = "failed"
      \/ flow' = "corrupt" /\ held \in 1..Len(sent) /\ sent[held].code = "UNKNOWN"
  <2>1. held' # 0 /\ Len(sent') \in Nat /\ Len(sent') - 1 = Len(sent)
    BY <1>1, <1>2, <1>3
  <2>2. Len(sent') - (IF held' = 0 THEN 0 ELSE 1) = Len(sent)
    BY <2>1
  <2>3. (c.code = "UNKNOWN") \in BOOLEAN
    OBVIOUS
  <2> QED
    BY <1>1, <1>2, <2>1, <2>2, <2>3, ReduceStep DEF FullInv
<1> QED
  BY <1>1, <1>2, <1>3, <1>4, <1>5, <1>6, ClientTurn

LEMMA ClientEndTurn ==
  ASSUME FullInv, ClientEnd
  PROVE  TurnInv'
<1>1. /\ flow = "running" /\ sent' = sent /\ held' = 0 /\ lockstep' = lockstep
      /\ answers' = answers /\ UNCHANGED <<answers, misread, server>>
      /\ Reduce(FALSE, "ending")
  BY DEF ClientEnd, conversation
<1>2. Len(sent) \in Nat /\ held = Len(sent)
  BY <1>1 DEF FullInv, Inv, TypeOK, Stacks
<1>3. NoneEarly'
  BY <1>1, ConversationKept DEF FullInv
<1>4. \/ flow' = "ending" /\ Taken' = Taken
      \/ flow' = "failed"
      \/ flow' = "corrupt" /\ held \in 1..Len(sent) /\ sent[held].code = "UNKNOWN"
  <2>1. Len(sent') \in Nat /\ Len(sent') - (IF held' = 0 THEN 0 ELSE 1) = Len(sent)
    BY <1>1, <1>2
  <2> QED
    BY <1>1, <1>2, <2>1, ReduceStep DEF FullInv
<1> QED
  BY <1>1, <1>2, <1>3, <1>4, ClientTurn

-----------------------------------------------------------------------------
\* While nothing is being read in step there was no answer, and no command has
\* left the client's stack.
LEMMA NothingRead ==
  ASSUME FullInv, Live, reading = NoResponse
  PROVE  Len(answers) = 0 /\ Len(cmds) = 0 /\ (flow = "running" => requests = <<>>)
<1>1. answers = <<>> /\ Len(answers) = 0
  BY DEF FullInv, TurnInv, LastRead
<1>2. Sound /\ lockstep /\ ~misread
  BY DEF Live, InStep, Sound
<1>3. /\ Len(sent) \in Nat /\ Len(requests) \in Nat /\ Len(cmds) \in Nat
      /\ requests \in Seq(1..Len(sent))
  BY DEF FullInv, Inv, TypeOK
<1>4. PairsUpTo(cmds, Taken, 0)
  BY <1>1, <1>2 DEF FullInv, Inv, Counts
<1>5. Len(cmds) = 0 /\ Taken <= 0
  BY <1>4 DEF PairsUpTo
<1>6. Taken >= 0
  BY <1>2 DEF FullInv, Inv, Stacks
<1>7. ASSUME flow = "running" PROVE requests = <<>>
  <2>1. held = Len(sent)
    BY <1>7 DEF FullInv, Inv, Stacks
  <2>2. Len(sent) <= 1
    BY <1>1, <1>2, <1>3 DEF FullInv, TurnInv, NoneEarly
  <2>3. Len(requests) = 0
    BY <1>3, <1>5, <1>6, <2>1, <2>2 DEF Taken
  <2> QED
    BY <1>3, <2>3
<1> QED
  BY <1>1, <1>5, <1>7

\* The pairs, state and alarms after the last response is ended in step.
LEMMA ReadingInTurn ==
  ASSUME FullInv, Live, PairReading, UNCHANGED <<sent, held>>,
         flow = "running" => Len(answers) <= Len(sent) \/ Len(answers) = 0,
         flow = "ending" => Len(answers) # 1
  PROVE  /\ InTurn(cmds', Taken') /\ Len(cmds') = Len(answers)
         /\ state' = PhaseAt(Len(answers))
         /\ \A i \in 2..Len(answers) :
              cmds'[i].alarm <=> ~Accepts(sent[i - 1], answers[i - 1].phase)
         /\ flow = "running" => requests' = <<>>
<1>1. CASE reading = NoResponse
  <2>1. requests' = requests /\ cmds' = cmds /\ state' = state
    BY <1>1 DEF PairReading
  <2>2. Len(answers) = 0 /\ Len(cmds) = 0 /\ (flow = "running" => requests = <<>>)
    BY <1>1, NothingRead
  <2>3. Taken' = Taken
    BY <2>1 DEF Taken
  <2>4. InTurn(cmds, Taken) /\ state = PhaseAt(Len(cmds))
    BY DEF FullInv, TurnInv, Turn, Waiting, Live, InStep, Sound
  <2> QED
    BY <2>1, <2>2, <2>3, <2>4
<1>2. CASE reading # NoResponse
  <2>1. Pair
    BY <1>2 DEF PairReading
  <2>2. Len(sent) \in Nat
    BY DEF FullInv, Inv, TypeOK
  <2>3. flow = "running" => Len(answers) <= Len(sent)
    BY <2>2
  <2> QED
    BY <1>2, <2>1, <2>3, PairInTurn
<1> QED
  BY <1>1, <1>2

LEMMA StatusLineTurn ==
  ASSUME FullInv, NEW ok \in BOOLEAN, StatusLine(ok)
  PROVE  TurnInv'
<1> DEFINE n == Len(answers)
           phase == IF n = 0 THEN "AUTHORIZATION" ELSE Moves(sent[n], Phase)
           a == [ok |-> ok, phase |-> IF ok THEN phase ELSE Phase]
<1>1. /\ flow = "running" /\ Answer(ok) /\ Serving /\ answers' = Append(answers, a)
      /\ ok /\ n > 0 => Accepts(sent[n], Phase)
      /\ IF mode = "INITIAL" THEN StatusRead(n + 1, ok) ELSE TextRead
  BY DEF StatusLine, Answer
<1>2. /\ n \in Nat /\ Len(answers') = n + 1 /\ (n <= Len(sent) \/ n = 0)
      /\ sent' = sent /\ lockstep' = lockstep /\ misread' = misread
      /\ answers \in Seq([ok : BOOLEAN, phase : States])
  BY <1>1, AnswerStep DEF FullInv, Inv, TypeOK
<1>3. a.ok = ok /\ a.phase = IF ok THEN phase ELSE Phase
  OBVIOUS
<1>4. Phase = IF n = 0 THEN "INIT" ELSE answers[n].phase
  BY <1>2 DEF Phase
<1> HIDE DEF a
<1>5. answers'[n + 1] = a /\ \A k \in 1..n : answers'[k] = answers[k]
  BY <1>1, <1>2
<1>6. Conversed /\ NoneEarly
  BY DEF FullInv, TurnInv
<1>7. Conversed'
  <2>1. ASSUME NEW k \in 1..(n + 1) PROVE Answered(k)'
    <3>1. CASE k \in 1..n
      <4>1. Answered(k) /\ answers'[k] = answers[k]
        BY <1>5, <1>6, <3>1 DEF Conversed
      <4>2. CASE k = 1
        BY <4>1, <4>2 DEF Answered
      <4>3. CASE k # 1
        <5>1. answers'[k - 1] = answers[k - 1]
          BY <1>2, <1>5, <3>1, <4>3
        <5> QED
          BY <1>2, <4>1, <4>3, <5>1 DEF Answered
      <4> QED
        BY <4>2, <4>3
    <3>2. CASE k = n + 1 /\ n = 0
      <4>1. answers'[1].ok = ok /\ answers'[1].phase = IF ok THEN "AUTHORIZATION" ELSE "INIT"
        BY <1>3, <1>4, <1>5, <3>2
      <4> QED
        BY <3>2, <4>1 DEF Answered
    <3>3. CASE k = n + 1 /\ n # 0
      <4>1. k # 1 /\ k - 1 = n /\ n \in 1..n
        BY <1>2, <3>3
      <4>2. answers'[k] = a /\ answers'[k - 1] = answers[n] /\ sent'[k - 1] = sent[n]
        BY <1>2, <1>5, <3>3, <4>1
      <4>3. ok => Accepts(sent[n], answers[n].phase)
        BY <1>1, <1>2, <1>4, <3>3
      <4>4. a.phase = IF ok THEN Moves(sent[n], answers[n].phase) ELSE answers[n].phase
        BY <1>3, <1>4, <3>3
      <4> QED
        BY <1>3, <4>1, <4>2, <4>3, <4>4 DEF Answered
    <3> QED
      BY <1>2, <3>1, <3>2, <3>3
  <2>2. ASSUME NEW k \in 1..n PROVE answers'[k].phase \in {"AUTHORIZATION", "TRANSACTION"}
    <3>1. answers'[k] = answers[k]
      BY <1>5
    <3>2. CASE k = n
      <4>1. answers # <<>> /\ Phase = answers[n].phase
        BY <1>2, <1>4, <3>2
      <4> QED
        BY <1>1, <3>1, <3>2, <4>1 DEF Serving
    <3>3. CASE k # n
      BY <1>2, <1>6, <3>1, <3>3 DEF Conversed
    <3> QED
      BY <3>2, <3>3
  <2> QED
    BY <1>2, <2>1, <2>2 DEF Conversed
<1>8. NoneEarly'
  <2>1. Len(sent) \in Nat
    BY DEF FullInv, Inv, TypeOK
  <2> QED
    BY <1>2, <1>6, <2>1 DEF NoneEarly
<1>9. CASE ~InStep
  BY <1>2, <1>7, <1>8, <1>9, OutOfStep DEF InStep
<1>10. CASE InStep
  <2>1. mode = "INITIAL" /\ Live
    BY <1>1, <1>10 DEF FullInv, TurnInv, Quiet, Live
  <2>2. StatusRead(n + 1, ok)
    BY <1>1, <2>1
  <2>3. CASE flow' = "failed" /\ mode' = mode
    BY <1>7, <1>8, <2>1, <2>3, FailedTurn
  <2>4. CASE /\ PairReading /\ held' = held /\ flow' = flow
             /\ reading' = [res |-> n + 1, ok |-> ok] /\ mode' = ModeAfter(ok)
    <3>1. /\ InTurn(cmds', Taken') /\ Len(cmds') = n
          /\ state' = PhaseAt(n)
          /\ \A i \in 2..n : cmds'[i].alarm <=> ~Accepts(sent[i - 1], answers[i - 1].phase)
          /\ requests' = <<>>
      BY <1>1, <1>2, <2>1, <2>4, ReadingInTurn
    <3>2. mode' = "INITIAL" /\ flow' = "running"
      BY <1>1, <2>4, <3>1 DEF ModeAfter
    <3>3. Quiet'
      BY <3>2 DEF Quiet
    <3>4. LastRead'
      <4>1. reading'.res = n + 1 /\ reading'.ok = ok /\ reading'.res # 0
        BY <1>2, <2>4
      <4>2. reading' # NoResponse
        BY <4>1 DEF NoResponse
      <4> QED
        BY <1>2, <1>3, <1>5, <4>1, <4>2 DEF LastRead
    <3>5. Turn'
      <4>1. state' = PhaseAt(Len(cmds))'
        BY <1>2, <1>5, <3>1 DEF PhaseAt
      <4>2. ASSUME NEW i \in 2..Len(cmds') PROVE AlarmRight(i)'
        <5>1. i \in 2..n /\ answers'[i - 1] = answers[i - 1]
          BY <1>2, <1>5, <3>1
        <5> QED
          BY <1>2, <3>1, <5>1 DEF AlarmRight
      <4> QED
        BY <3>1, <4>1, <4>2 DEF Turn
    <3> QED
      BY <1>7, <1>8, <3>3, <3>4, <3>5 DEF TurnInv
  <2> QED
    BY <2>2, <2>3, <2>4 DEF StatusRead, ServerFails
<1> QED
  BY <1>9, <1>10

\* A line of text is read as a status, and the conversation out of step, or the
\* lexer is out of step already.
LEMMA TextLineTurn ==
  ASSUME FullInv, TextLine
  PROVE  TurnInv'
<1>1. UNCHANGED <<sent, answers, lockstep>>
  BY DEF TextLine, conversation
<1>2. Conversed' /\ NoneEarly'
  BY <1>1, ConversationKept DEF FullInv
<1>3. ~InStep'
  <2>1. CASE misread' = TRUE
    BY <2>1 DEF InStep
  <2>2. CASE mode = "BODY" /\ UNCHANGED conversation
    BY <2>2 DEF FullInv, TurnInv, Quiet, InStep, conversation
  <2> QED
    BY <2>1, <2>2 DEF TextLine
<1> QED
  BY <1>2, <1>3, OutOfStep

LEMMA DotLineTurn ==
  ASSUME FullInv, DotLine
  PROVE  TurnInv'
<1>1. UNCHANGED <<sent, answers, lockstep, misread>>
  BY DEF DotLine
<1>2. Conversed' /\ NoneEarly'
  BY <1>1, ConversationKept DEF FullInv
<1>3. CASE ~InStep
  BY <1>1, <1>2, <1>3, OutOfStep DEF InStep
<1>4. CASE InStep
  <2>1. mode = "INITIAL"
    BY <1>4 DEF FullInv, TurnInv, Quiet
  <2>2. UNCHANGED <<client, server, flow>>
    BY <2>1 DEF DotLine
  <2>3. /\ held' = held /\ requests' = requests /\ reading' = reading /\ mode' = mode
        /\ state' = state /\ cmds' = cmds /\ flow' = flow
    BY <2>2 DEF client, server
  <2>4. Quiet' /\ LastRead'
    BY <1>1, <2>3 DEF FullInv, TurnInv, Quiet, LastRead, InStep, Live
  <2>5. Waiting' = Waiting /\ Taken' = Taken
    BY <1>1, <2>3 DEF Waiting, Sound, Taken
  <2>6. Turn'
    BY <1>1, <2>3, <2>5 DEF FullInv, TurnInv, Turn, InTurn, PhaseAt, AlarmRight
  <2> QED
    BY <1>2, <2>4, <2>6 DEF TurnInv
<1> QED
  BY <1>3, <1>4

LEMMA ServerEndTurn ==
  ASSUME FullInv, ServerEnd
  PROVE  TurnInv'
<1>1. /\ sent' = sent /\ answers' = answers /\ lockstep' = lockstep /\ misread' = misread
      /\ held' = held /\ mode' = mode /\ flow = "ending"
  BY DEF ServerEnd, conversation
<1>2. Conversed' /\ NoneEarly'
  BY <1>1, ConversationKept DEF FullInv
<1>3. CASE ~InStep
  BY <1>1, <1>2, <1>3, OutOfStep DEF InStep
<1>4. CASE InStep
  <2>1. mode' = "INITIAL" /\ Live
    BY <1>1, <1>4 DEF FullInv, TurnInv, Quiet, Live
  <2>2. CASE flow' = "failed"
    BY <1>2, <2>1, <2>2, FailedTurn
  <2>3. CASE PairReading /\ reading' = NoResponse /\ flow' = "ended"
    <3>1. Quiet' /\ LastRead'
      BY <2>1, <2>3 DEF Quiet, LastRead, Live
    <3>2. Turn'
      <4> SUFFICES ASSUME Waiting'
                   PROVE  /\ InTurn(cmds', Taken')
                          /\ state' = PhaseAt(Len(cmds))'
                          /\ \A i \in 2..Len(cmds') : AlarmRight(i)'
        BY DEF Turn
      <4>1. Len(answers) # 1
        BY <1>1, <2>3 DEF Waiting
      <4>2. /\ InTurn(cmds', Taken') /\ Len(cmds') = Len(answers)
            /\ state' = PhaseAt(Len(answers))
            /\ \A i \in 2..Len(answers) :
                 cmds'[i].alarm <=> ~Accepts(sent[i - 1], answers[i - 1].phase)
        BY <1>1, <2>1, <2>3, <4>1, ReadingInTurn
      <4> QED
        BY <1>1, <4>2 DEF PhaseAt, AlarmRight
    <3> QED
      BY <1>2, <3>1, <3>2 DEF TurnInv
  <2> QED
    BY <2>2, <2>3 DEF ServerEnd, ServerFails
<1> QED
  BY <1>3, <1>4

-----------------------------------------------------------------------------
\* Every step of the decoder keeps FullInv.
LEMMA FullNext ==
  ASSUME FullInv, [Next]_vars
  PROVE  FullInv'
<1>1. Inv'
  BY NextInv DEF FullInv
<1>2. CASE UNCHANGED vars
  BY <1>1, <1>2, SameTurn DEF FullInv
<1>3. ASSUME NEW c \in Commands, ClientCommand(c)  PROVE TurnInv'
  BY <1>3, ClientCommandTurn
<1>4. CASE ClientEnd
  BY <1>1, <1>4, ClientEndTurn DEF FullInv
<1>5. ASSUME NEW ok \in BOOLEAN, StatusLine(ok)  PROVE TurnInv'
  BY <1>5, StatusLineTurn
<1>6. CASE TextLine
  BY <1>1, <1>6, TextLineTurn DEF FullInv
<1>7. CASE DotLine
  BY <1>1, <1>7, DotLineTurn DEF FullInv
<1>8. CASE ServerEnd
  BY <1>1, <1>8, ServerEndTurn DEF FullInv
<1> QED
  BY <1>1, <1>2, <1>3, <1>4, <1>5, <1>6, <1>7, <1>8 DEF Next, FullInv

\* In a conversation that waits for each answer the decoder stays in step with
\* both ends.
THEOREM Pop3InTurn == Spec => []FullInv
<1>1. Init => FullInv
  BY InitInv, InitTurn DEF FullInv
<1>2. FullInv /\ [Next]_vars => FullInv'
  BY FullNext
<1> QED
  BY <1>1, <1>2, PTL DEF Spec

\* Every command is paired with its own answer and the greeting with none
\* (pop3_server.y 107-112, 278-297).
THEOREM Pop3Lockstep == Spec => []LockstepPairs
<1>1. FullInv => LockstepPairs
  BY DEF FullInv, TurnInv, Turn, InTurn, LockstepPairs
<1> QED
  BY <1>1, Pop3InTurn, PTL

\* The decoder's state is the session's, as of the last answer paired
\* (pop3_server.y 325-361).
THEOREM Pop3StateFollows == Spec => []StateFollows
<1>1. ASSUME FullInv PROVE StateFollows
  <2>1. SUFFICES ASSUME Waiting, cmds # <<>>
                 PROVE  state = answers[Len(cmds)].phase
    BY DEF StateFollows
  <2>2. state = PhaseAt(Len(cmds))
    BY <1>1, <2>1 DEF FullInv, TurnInv, Turn
  <2>3. Len(cmds) # 0
    BY <1>1, <2>1 DEF FullInv, Inv, TypeOK
  <2> QED
    BY <2>2, <2>3 DEF PhaseAt
<1> QED
  BY <1>1, Pop3InTurn, PTL

\* The state check raises its alarm for exactly the commands that the server
\* does not accept in the state they met (pop3_server.y 299-323).
THEOREM Pop3AlarmExact == Spec => []AlarmExact
<1>1. FullInv => AlarmExact
  BY DEF FullInv, TurnInv, Turn, AlarmRight, AlarmExact
<1> QED
  BY <1>1, Pop3InTurn, PTL

\* The text of an answer never reaches the list whose head is uninitialized
\* (pop3_server.l 105-126).
THEOREM Pop3NoText == Spec => []NoTextWhileWaiting
<1>1. FullInv => NoTextWhileWaiting
  BY DEF FullInv, TurnInv, Quiet, InStep, NoTextWhileWaiting
<1> QED
  BY <1>1, Pop3InTurn, PTL
=============================================================================
