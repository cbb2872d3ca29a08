---------------------------- MODULE Pop3Session ----------------------------
(***************************************************************************)
(* decoder/pop3: two push parsers, one for each direction of a connection, *)
(* turn the lines of a POP3 conversation into requests and responses, pair *)
(* them into commands and follow the state of the session.                 *)
(*                                                                         *)
(* A push parser reduces a rule when it has the token that ends it: a      *)
(* request is known when the next command begins (held until then), a      *)
(* response when the next status line begins (reading until then) or at the*)
(* dot of its text.  The server's lexer looks at the queue of requests to  *)
(* choose how to read what follows a status line.                          *)
(*                                                                         *)
(* The conversation itself (sent, answers, text) is the program's input:   *)
(* demo.c hands it over a line at a time, each answer after its command,   *)
(* and gives the two end marks last.  A command is known by its place in   *)
(* what was sent, an answer by its place, the greeting being the first.    *)
(* Left out: fragments of a line, parameters but for the mail of LIST and  *)
(* UIDL, the detection stubs of pop3_detect.c.                             *)
(***************************************************************************)
EXTENDS Naturals, Sequences

CONSTANTS Commands,                     \* records [code, mail], mail 0 for none
          MaxSent                       \* bound of the model

Codes == {"USER", "PASS", "APOP", "LIST", "RETR", "DELE", "UIDL", "TOP",
          "STAT", "QUIT", "NOOP", "RSET", "UNKNOWN"}

ASSUME CommandsAssumption == Commands \subseteq [code : Codes, mail : Nat]
ASSUME MaxSentAssumption == MaxSent \in Nat

VARIABLES
  sent, answers, text,          \* the conversation; text: an answer has lines to come
  lockstep, misread,            \* no command came early; a text line began with a status
  held,                         \* the command on the client parser's stack, 0 for none
  requests,                     \* request_list
  reading,                      \* the response on the server parser's stack
  mode,                         \* the server lexer's start condition
  state, cmds,                  \* state and cmd_list
  flow                          \* "running", "ending", "ended", "failed", "corrupt"

conversation == <<sent, answers, text, lockstep, misread>>
client == <<held, requests>>
server == <<reading, mode, state, cmds>>
vars == <<conversation, client, server, flow>>

States == {"INIT", "AUTHORIZATION", "TRANSACTION", "UPDATE"}
NoResponse == [res |-> 0, ok |-> FALSE]

Init ==
  /\ sent = <<>> /\ answers = <<>> /\ text = FALSE
  /\ lockstep = TRUE /\ misread = FALSE
  /\ held = 0 /\ requests = <<>>
  /\ reading = NoResponse /\ mode = "INITIAL"
  /\ state = "INIT" /\ cmds = <<>> /\ flow = "running"

-----------------------------------------------------------------------------
(* The conversation                                                        *)

Authorizing == {"USER", "PASS", "APOP", "QUIT", "UNKNOWN"}

\* What a server accepts, where an accepted command takes it, which answers
\* have text, and when it hangs up.
Accepts(c, phase) ==
  CASE phase = "AUTHORIZATION" -> c.code \in Authorizing
    [] phase = "TRANSACTION" -> c.code \notin Authorizing \ {"QUIT", "UNKNOWN"}
    [] OTHER -> FALSE
Moves(c, phase) ==
  CASE c.code = "QUIT" -> IF phase = "TRANSACTION" THEN "UPDATE" ELSE "INIT"
    [] c.code \in {"PASS", "APOP"} -> "TRANSACTION"
    [] OTHER -> phase
HasText(c) == c.code \in {"RETR", "TOP"} \/ (c.code \in {"LIST", "UIDL"} /\ c.mail = 0)

Phase == IF answers = <<>> THEN "INIT" ELSE answers[Len(answers)].phase
Serving == answers = <<>> \/ Phase \in {"AUTHORIZATION", "TRANSACTION"}

\* The next answer is allowed: the greeting, or one to a command that was sent.
Answer(ok) ==
  LET n == Len(answers)
      phase == IF n = 0 THEN "AUTHORIZATION" ELSE Moves(sent[n], Phase)
  IN /\ Serving /\ ~text
     /\ n <= Len(sent) \/ n = 0
     /\ ok /\ n > 0 => Accepts(sent[n], Phase)
     /\ answers' = Append(answers, [ok |-> ok, phase |-> IF ok THEN phase ELSE Phase])
     /\ text' = (ok /\ n > 0 /\ HasText(sent[n]))
     /\ UNCHANGED <<sent, lockstep, misread>>

-----------------------------------------------------------------------------
(* pop3_client.y                                                           *)

\* The unknown command's name is copied from the value of the token that
\* follows it, which a known command or the end of the stream leaves unset.
Outcomes(c, nextHasValue) ==
  {"ok", "failed"} \cup
    IF c.code = "UNKNOWN" /\ ~nextHasValue THEN {"corrupt"} ELSE {}

\* The rule of the held command is reduced, and request_list's with it.
\* pop3_alloc_request may fail: the parser gives up.
Queued_Twice == requests \o <<held, held>>      \* a faulty variant
Queued == Append(requests, held)

Reduce(nextHasValue, onward) ==
  IF held = 0
  THEN flow' = onward /\ UNCHANGED requests
  ELSE \E outcome \in Outcomes(sent[held], nextHasValue) :
         IF outcome = "ok"
         THEN requests' = Queued /\ flow' = onward
         ELSE flow' = outcome /\ UNCHANGED requests

\* The first token of a command; its parameters only join it on the stack.
ClientCommand(c) ==
  /\ flow = "running" /\ Len(sent) < MaxSent
  /\ sent' = Append(sent, c)
  /\ lockstep' = (lockstep /\ (Len(sent) = 0 \/ Len(answers) > Len(sent)))
  /\ Reduce(c.code = "UNKNOWN", "running")
  /\ held' = Len(sent) + 1
  /\ UNCHANGED <<answers, text, misread, server>>

\* The end mark of the client's stream.
ClientEnd ==
  /\ flow = "running"
  /\ Reduce(FALSE, "ending")
  /\ held' = 0
  /\ UNCHANGED <<conversation, server>>

-----------------------------------------------------------------------------
(* pop3_server.y, pop3_server.l                                            *)

First == IF requests = <<>> THEN 0 ELSE Head(requests)

\* pop3_parse_integer reports an error whatever it is given (strtol always
\* sets end), and the callers then take 0.
ParseInteger(n) == [value |-> n, error |-> TRUE]
Mail(c) == IF ParseInteger(c.mail).error THEN 0 ELSE ParseInteger(c.mail).value

ExpectsText(c) == c.code \in {"TOP", "RETR"} \/ (c.code \in {"LIST", "UIDL"} /\ Mail(c) = 0)

CheckTable(s, code) ==
  CASE s = "AUTHORIZATION" -> code \in {"USER", "PASS", "APOP", "QUIT", "UNKNOWN"}
    [] s = "TRANSACTION" -> code \notin {"USER", "PASS", "APOP"}
    [] OTHER -> code = "UNKNOWN"

TransferTable_Stays(code, s) ==                 \* a faulty variant
  IF s = "AUTHORIZATION" /\ code \in {"PASS", "APOP"} THEN "TRANSACTION" ELSE s
TransferTable(code, s) ==
  CASE s = "AUTHORIZATION" /\ code \in {"PASS", "APOP"} -> "TRANSACTION"
    [] s = "AUTHORIZATION" /\ code = "QUIT" -> "INIT"
    [] s = "TRANSACTION" /\ code = "QUIT" -> "UPDATE"
    [] OTHER -> s

StateCheck_Late == First = 0 \/ CheckTable(state', sent[First].code)   \* a faulty variant
StateCheck == First = 0 \/ CheckTable(state, sent[First].code)

StateAfter ==
  CASE ~reading.ok -> state
    [] reading.ok /\ First # 0 -> TransferTable(sent[First].code, state)
    [] OTHER -> IF state = "INIT" THEN "AUTHORIZATION" ELSE state

RequestsLeft_All == <<>>                        \* a faulty variant
RequestsLeft_Kept == requests                   \* a faulty variant
RequestsLeft == IF First = 0 THEN requests ELSE Tail(requests)

\* response_list: state check, state transfer, pop3_session_add_command.
Pair ==
  /\ state' = StateAfter
  /\ cmds' = Append(cmds, [req |-> First, res |-> reading.res, alarm |-> ~StateCheck])
  /\ requests' = RequestsLeft

\* An allocation fails before the pair is made; pop3_alloc_cmd is the last.
ServerFails ==
  /\ flow' = "failed" /\ reading' = NoResponse
  /\ state' \in {state} \cup (IF reading = NoResponse THEN {} ELSE {StateAfter})
  /\ UNCHANGED <<requests, cmds>>

PairReading_Always == Pair                      \* a faulty variant
PairReading_Asked ==                            \* a faulty variant
  IF reading = NoResponse \/ First = 0 THEN UNCHANGED <<requests, state, cmds>> ELSE Pair
PairReading == IF reading = NoResponse THEN UNCHANGED <<requests, state, cmds>> ELSE Pair

\* The mode in which what follows a status line is read.
ModeAfter_Before(ok) ==                         \* a faulty variant
  IF ok /\ requests # <<>> /\ ExpectsText(sent[Head(requests)]) THEN "BODY" ELSE "INITIAL"
ModeAfter(ok) ==
  IF ok /\ requests' # <<>> /\ ExpectsText(sent[Head(requests')]) THEN "BODY" ELSE "INITIAL"

\* A status line read in the start condition INITIAL: its first token ends
\* the response before it, then the rest of the line is read.  The stream may
\* end within the line.
StatusRead(res, ok) ==
  \/ /\ PairReading
     /\ \/ /\ reading' = [res |-> res, ok |-> ok] /\ mode' = ModeAfter(ok)
           /\ UNCHANGED flow
        \/ flow' = "failed" /\ reading' = NoResponse /\ UNCHANGED mode
     /\ UNCHANGED held
  \/ ServerFails /\ UNCHANGED <<held, mode>>

\* A line of text read in BODY is linked to the uninitialized head of a list.
TextRead ==
  /\ flow' = "corrupt"
  /\ UNCHANGED <<client, server>>

StatusLine(ok) ==
  /\ flow = "running"
  /\ Answer(ok)
  /\ IF mode = "INITIAL" THEN StatusRead(Len(answers) + 1, ok) ELSE TextRead

\* A line of text: in INITIAL it is skipped, unless it has a status in it
\* (once, a bound of the model).
TextLine ==
  /\ flow = "running" /\ text
  /\ \/ /\ mode = "BODY"
        /\ TextRead /\ UNCHANGED conversation
     \/ /\ mode = "INITIAL" /\ ~misread /\ misread' = TRUE
        /\ \E ok \in BOOLEAN : StatusRead(Len(answers), ok)
        /\ UNCHANGED <<sent, answers, text, lockstep>>

DotLine ==
  /\ flow = "running" /\ text /\ text' = FALSE
  /\ \/ /\ mode = "INITIAL"
        /\ UNCHANGED <<client, server, flow>>
     \/ /\ mode = "BODY"
        /\ \/ Pair /\ reading' = NoResponse /\ UNCHANGED flow
           \/ ServerFails
        /\ mode' = "INITIAL"
        /\ UNCHANGED held
  /\ UNCHANGED <<sent, answers, lockstep, misread>>

\* The end mark of the server's stream.
ServerEnd ==
  /\ flow = "ending"
  /\ \/ PairReading /\ reading' = NoResponse /\ flow' = "ended"
     \/ ServerFails
  /\ UNCHANGED <<conversation, held, mode>>

Next ==
  \/ \E c \in Commands : ClientCommand(c)
  \/ ClientEnd
  \/ \E ok \in BOOLEAN : StatusLine(ok)
  \/ TextLine \/ DotLine \/ ServerEnd

Spec == Init /\ [][Next]_vars

-----------------------------------------------------------------------------
(* Properties                                                              *)

\* Every variable has its type.
TypeOK ==
  /\ sent \in Seq(Commands) /\ Len(sent) <= MaxSent
  /\ answers \in Seq([ok : BOOLEAN, phase : States])
  /\ text \in BOOLEAN /\ lockstep \in BOOLEAN /\ misread \in BOOLEAN
  /\ held \in 0..Len(sent) /\ requests \in Seq(1..Len(sent))
  /\ reading \in [res : 0..Len(answers), ok : BOOLEAN]
  /\ mode \in {"INITIAL", "BODY"}
  /\ state \in States
  /\ cmds \in Seq([req : 0..Len(sent), res : 1..Len(answers), alarm : BOOLEAN])
  /\ flow \in {"running", "ending", "ended", "failed", "corrupt"}

Sound == flow \in {"running", "ending", "ended"}

\* Between the stack, request_list and cmd_list no command is lost, doubled or
\* overtaken (pop3_client.y 97-101, pop3_server.y 278-297).
Paired == {i \in 1..Len(cmds) : cmds[i].req # 0}
RequestsInOrder ==
  Sound =>
    LET n == Len(sent) - Len(requests) - (IF held = 0 THEN 0 ELSE 1)
    IN /\ {cmds[i].req : i \in Paired} = 1..n
       /\ \A i, j \in Paired : i < j => cmds[i].req < cmds[j].req
       /\ \A k \in 1..Len(requests) : requests[k] = n + k
       /\ held # 0 => held = Len(sent)

\* However a client pipelines, a command is paired with its own answer or with
\* the one before it, never with a later one (pop3_server.y 107-112).
OffByOneAtMost ==
  Sound /\ ~misread => \A i \in Paired :
    cmds[i].req \in {cmds[i].res - 1, cmds[i].res}

\* The client waits for each answer; a stream that ends with the greeting
\* alone is left out, the greeting is then paired with an unanswered command.
Waiting ==
  /\ Sound /\ lockstep /\ ~misread
  /\ flow = "ended" => Len(answers) # 1

\* In a conversation that waits for each answer every command is paired with
\* its own, and the greeting with none.
LockstepPairs ==
  Waiting => \A i \in 1..Len(cmds) : cmds[i].res = i /\ cmds[i].req = i - 1

\* In such a conversation state is the session's, as of the last answer paired
\* (pop3_server.y 325-361).
StateFollows ==
  Waiting /\ cmds # <<>> => state = answers[Len(cmds)].phase

\* In such a conversation the state check complains of a command the server
\* does not accept in the state the command met, and of no other
\* (pop3_server.y 299-323).
AlarmExact ==
  Waiting => \A i \in 2..Len(cmds) :
    cmds[i].alarm <=> ~Accepts(sent[i - 1], answers[i - 1].phase)

\* The text of an answer is not read as its content while the client waits for
\* each answer: only an unknown command corrupts memory (pop3_server.l 105-126).
NoTextWhileWaiting ==
  lockstep /\ ~misread =>
    /\ mode = "INITIAL"
    /\ flow = "corrupt" => \E i \in 1..Len(sent) : sent[i].code = "UNKNOWN"

\* When both ends were given nothing is left on a parser's stack, where
\* pop3_free_priv_data would not find it, and each answer is in a command.
EndComplete ==
  flow = "ended" => held = 0 /\ reading = NoResponse /\ (~misread => Len(cmds) = Len(answers))
=============================================================================
