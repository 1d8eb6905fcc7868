------------------------------ MODULE AtClient ------------------------------
(* AT commands to a modem: application threads execute commands under        *)
(* client->lock and wait for a semaphore, the thread client_parser reads     *)
(* lines from the ring buffer that the interrupt of the serial port fills.   *)
(* The configuration with AT_OS_USED and AT_UART_RECV_IRQ.                   *)
(*                                                                           *)
(* What the modem sends is a stream of tokens: the text of an answer or of   *)
(* an unsolicited line (URC), which names the command it belongs to, the end *)
(* of a line, and the prompt ">" that has none. esp8266_send stands for its  *)
(* one-packet case; a URC handler that reads data of its own is left out.    *)
EXTENDS UtilsRingbuff, Integers, SequencesExt

CONSTANTS
    Threads,      \* application threads
    NoThread,     \* client->lock is free
    CLINET_BUFF_LEN,
    MaxCommands,  \* bound: commands executed
    MaxNoise      \* bound: lines the modem prints that are no answers and not in the URC table

ASSUME AtAssumption ==
    /\ {CLINET_BUFF_LEN, MaxCommands} \subseteq Nat \ {0} /\ MaxNoise \in Nat
    /\ NoThread \notin Threads

Commands == 1..MaxCommands
None     == 0
Nobody   == -1      \* the line was no command's answer

(* What a token can be.                                                      *)
EOL == [cmd |-> None, txt |-> "eol"]
Noise == [cmd |-> None, txt |-> "noise"]
Tokens == [cmd : Commands, txt : {"ok", "error", "prompt", "urc"}] \cup {EOL, Noise}

(* The tokens are what goes through the ring buffer.                         *)
ASSUME TokenAssumption == Data = Tokens /\ Zero = [cmd |-> None, txt |-> "zero"]

VARIABLES
    lock, resp, resp_status, end_sign, sem,
    pc, cmd, kind,     \* of a thread: its command and whether it is esp8266_send's
    sent,              \* commands executed so far
    line, p_pc, line_counts,   \* of the parser; line_counts outlives a command that timed out
    todo, uart, noise, \* of the modem: what it has been sent, what it is sending, lines printed
    got, timedOut,     \* history: whose answer completed a command; commands that timed out
    unsigned           \* history: CIPSEND commands whose end sign another thread reset

client  == <<lock, resp, resp_status>>
callers == <<pc, cmd, kind, sent>>
parser  == <<line, p_pc, line_counts>>
modem   == <<todo, uart, noise>>
history == <<got, timedOut, unsigned>>
vars    == <<ringVars, client, end_sign, sem, callers, parser, modem, history>>

(* at_client_para_init; the semaphore counts and starts at zero (Linux). An  *)
(* element of sem is the command whose answer posted it.                     *)
Init ==
    /\ RingInit
    /\ lock = NoThread /\ resp = None /\ resp_status = "AT_RESP_OK" /\ end_sign = FALSE /\ sem = <<>>
    /\ pc = [t \in Threads |-> "idle"] /\ cmd = [t \in Threads |-> None]
    /\ kind = [t \in Threads |-> "plain"] /\ sent = 0
    /\ line = <<>> /\ p_pc = "readline" /\ line_counts = 0
    /\ todo = <<>> /\ uart = <<>> /\ noise = 0
    /\ got = [c \in Commands |-> None] /\ timedOut = {}
    /\ unsigned = {}

-----------------------------------------------------------------------------
(* A command.                                                                *)

(* at_create_resp; esp8266_send sets the end sign before it has the lock.    *)
Begin(t) ==
    /\ pc[t] = "idle" /\ sent < MaxCommands
    /\ \E k \in {"plain", "send"} :
         /\ kind' = [kind EXCEPT ![t] = k]
         /\ end_sign' = (end_sign \/ k = "send")
    /\ pc' = [pc EXCEPT ![t] = "lock"]
    /\ UNCHANGED <<ringVars, client, sem, cmd, sent, parser, modem, history>>

(* at_obj_exec_cmd up to the wait. The response object carries the number of *)
(* its command and the line_num it was created with.                         *)
ExecCmd(t) ==
    /\ pc[t] = "lock" /\ lock = NoThread /\ sent < MaxCommands
    /\ sent' = sent + 1
    /\ lock' = t /\ resp_status' = "AT_RESP_OK" /\ resp' = sent + 1
    /\ cmd' = [cmd EXCEPT ![t] = sent + 1]
    /\ todo' = Append(todo, [cmd |-> sent + 1, kind |-> kind[t]])
    /\ unsigned' = IF kind[t] = "send" /\ ~end_sign THEN unsigned \cup {sent + 1} ELSE unsigned
    /\ pc' = [pc EXCEPT ![t] = "wait"]
    /\ UNCHANGED <<ringVars, end_sign, sem, kind, parser, uart, noise, got, timedOut>>

(* The exit of at_obj_exec_cmd. The caller deletes the response and is done, *)
(* or goes on to send its data.                                              *)
ExecExit(t, next) ==
    /\ resp' = None /\ lock' = NoThread /\ UNCHANGED resp_status
    /\ pc' = [pc EXCEPT ![t] = next]
    /\ cmd' = IF next = "data" THEN cmd ELSE [cmd EXCEPT ![t] = None]
    /\ UNCHANGED <<kind, sent>>

SemWaitDone(t) ==
    /\ pc[t] = "wait" /\ sem # <<>>
    /\ sem' = Tail(sem)
    /\ got' = [got EXCEPT ![cmd[t]] = Head(sem)]
    /\ ExecExit(t, IF kind[t] = "send" /\ resp_status = "AT_RESP_OK" THEN "data" ELSE "idle")
    /\ UNCHANGED <<ringVars, end_sign, parser, modem, timedOut, unsigned>>

(* A CIPSEND that failed returns with the end sign set.                      *)
SemWaitTimeout(t) ==
    /\ pc[t] = "wait" /\ sem = <<>>
    /\ timedOut' = timedOut \cup {cmd[t]}
    /\ ExecExit(t, "idle")
    /\ UNCHANGED <<ringVars, end_sign, sem, parser, modem, got, unsigned>>

(* esp8266_send, without the lock: it resets the end sign, also under the    *)
(* CIPSEND another thread waits for, and sends its data.                     *)
SendData(t) ==
    /\ pc[t] = "data"
    /\ end_sign' = FALSE
    /\ unsigned' = unsigned \cup {cmd[u] : u \in {u \in Threads : pc[u] = "wait" /\ kind[u] = "send"}}
    /\ todo' = Append(todo, [cmd |-> cmd[t], kind |-> "data"])
    /\ pc' = [pc EXCEPT ![t] = "idle"] /\ cmd' = [cmd EXCEPT ![t] = None]
    /\ UNCHANGED <<ringVars, client, sem, kind, sent, parser, uart, noise, got, timedOut>>

-----------------------------------------------------------------------------
(* client_parser. at_recv_readline takes one token after the other until the *)
(* line ends.                                                                *)

ReadAdvance ==
    /\ p_pc = "readline" /\ PopAdvance
    /\ UNCHANGED <<client, end_sign, sem, callers, parser, modem, history>>

EndsLine(tok) == tok = EOL \/ (end_sign /\ tok.txt = "prompt")

(* A line longer than recv_buffer empties the ring buffer as well.           *)
ReadLoad ==
    /\ PopLoad
    /\ LET fits == Len(line) < CLINET_BUFF_LEN IN
       /\ line' = IF fits THEN Append(line, popped') ELSE IF EndsLine(popped') THEN <<>> ELSE line
       /\ p_pc' = CASE ~EndsLine(popped') -> "readline"
                    [] EndsLine(popped') /\ fits -> "dispatch"
                    [] OTHER -> "flush"
    /\ UNCHANGED <<client, end_sign, sem, callers, line_counts, modem, history>>

(* at_client_getchar gives up: the partial line is forgotten. When the timer *)
(* runs out just after a byte was taken, that byte is forgotten too.         *)
ReadTimeout ==
    /\ p_pc = "readline"
    /\ \/ r_pc = "idle" /\ writepoint = readpoint /\ line # <<>> /\ UNCHANGED ringVars
       \/ PopLoad
    /\ line' = <<>>
    /\ UNCHANGED <<client, end_sign, sem, callers, p_pc, line_counts, modem, history>>

Flush ==
    /\ p_pc = "flush"
    /\ \/ FlushRead /\ UNCHANGED p_pc
       \/ FlushWrite /\ UNCHANGED p_pc
       \/ FlushClear /\ p_pc' = "readline"
    /\ UNCHANGED <<client, end_sign, sem, callers, line, line_counts, modem, history>>

(* Mutant: the first line completes a command that waits for the prompt.     *)
IgnoredNoSign == (Head(line).txt = "urc" /\ Last(line) = EOL) \/ resp = None

(* An unsolicited line, or a line nobody waits for. With the end sign set    *)
(* every line but the prompt is discarded.                                   *)
Ignored ==
    \/ Head(line).txt = "urc" /\ Last(line) = EOL
    \/ resp = None
    \/ end_sign /\ Last(line).txt # "prompt"

Ignore ==
    /\ p_pc = "dispatch" /\ Ignored
    /\ line' = <<>> /\ p_pc' = "readline"
    /\ UNCHANGED <<ringVars, client, end_sign, sem, callers, line_counts, modem, history>>

(* A response: line_num is 2 for esp8266_send and 0 otherwise.               *)
LineNum == IF \E t \in Threads : cmd[t] = resp /\ kind[t] = "send" THEN 2 ELSE 0

(* What a line does to the command that waits.                               *)
Outcome ==
    IF end_sign THEN "prompt"
    ELSE IF Head(line).txt = "ok" /\ LineNum = 0 THEN "ok"
    ELSE IF \E i \in DOMAIN line : line[i].txt = "error" THEN "error"
    ELSE IF line_counts + 1 = LineNum THEN "ok"
    ELSE "more"

(* client->resp was not NULL. It is read again for every use, without a      *)
(* check: in CopyLine and Complete it may be NULL or another command's.      *)
Dispatch ==
    /\ p_pc = "dispatch" /\ ~Ignored
    /\ p_pc' = Outcome
    /\ UNCHANGED <<ringVars, client, end_sign, sem, callers, line, line_counts, modem, history>>

(* The line is copied into the response and the command waits on.            *)
CopyLine ==
    /\ p_pc = "more"
    /\ line_counts' = line_counts + 1
    /\ line' = <<>> /\ p_pc' = "readline"
    /\ UNCHANGED <<ringVars, client, end_sign, sem, callers, modem, got, timedOut, unsigned>>

(* The token that made the line complete the command, and whose answer it is *)
(* part of: a line that was only counted is nobody's.                        *)
Decisive ==
    CASE p_pc = "prompt" -> Last(line)
      [] p_pc = "error" -> CHOOSE tok \in {line[i] : i \in DOMAIN line} : tok.txt = "error"
      [] OTHER -> Head(line)

Origin == IF Decisive.txt \in {"ok", "error", "prompt"} THEN Decisive.cmd ELSE Nobody

(* The exit of client_parser: status, line_counts of the response, post.     *)
Complete ==
    /\ p_pc \in {"prompt", "ok", "error"}
    /\ resp_status' = CASE p_pc = "ok" -> "AT_RESP_OK" [] p_pc = "error" -> "AT_RESP_ERROR"
                        [] OTHER -> resp_status
    /\ resp' = None
    /\ sem' = Append(sem, Origin)
    /\ line' = <<>> /\ p_pc' = "readline" /\ line_counts' = 0
    /\ UNCHANGED <<ringVars, lock, end_sign, callers, modem, got, timedOut, unsigned>>

-----------------------------------------------------------------------------
(* The modem and its serial line (external): it takes what it is sent in     *)
(* turn and answers, or does not; other lines come between answers.          *)

AnswersTo(a) == LET tok(x) == [cmd |-> a.cmd, txt |-> x] IN
    CASE a.kind = "plain" -> {<<>>, <<tok("error"), EOL>>, <<tok("ok"), EOL>>}
      [] a.kind = "send"  -> {<<>>, <<tok("error"), EOL>>, <<tok("ok"), EOL, tok("prompt")>>}
      [] a.kind = "data"  -> {<<>>, <<tok("urc"), EOL>>}

ModemAnswers ==
    /\ uart = <<>> /\ todo # <<>>
    /\ uart' \in AnswersTo(Head(todo))
    /\ todo' = Tail(todo)
    /\ UNCHANGED <<ringVars, client, end_sign, sem, callers, parser, noise, history>>

ModemPrints ==
    /\ uart = <<>> /\ noise < MaxNoise
    /\ uart' = <<Noise, EOL>>
    /\ noise' = noise + 1
    /\ UNCHANGED <<ringVars, client, end_sign, sem, callers, parser, todo, history>>

(* AT_UART_IRQHandler                                                        *)
Interrupt ==
    /\ uart # <<>>
    /\ Push(Head(uart))
    /\ uart' = Tail(uart)
    /\ UNCHANGED <<client, end_sign, sem, callers, parser, todo, noise, history>>

ThreadStep(t) == Begin(t) \/ ExecCmd(t) \/ SemWaitDone(t) \/ SemWaitTimeout(t) \/ SendData(t)
ParserStep == ReadAdvance \/ ReadLoad \/ ReadTimeout \/ Flush \/ Ignore \/ Dispatch \/ CopyLine \/ Complete
Next == ParserStep \/ ModemAnswers \/ ModemPrints \/ Interrupt \/ \E t \in Threads : ThreadStep(t)

Spec == Init /\ [][Next]_vars

-----------------------------------------------------------------------------
(* A command is completed by its own answer unless an earlier command timed  *)
(* out, or this one or an earlier one is a CIPSEND that lost its end sign.   *)
(* Then it may take the answer of an earlier command, or one that is         *)
(* nobody's, but never one of a later command.                               *)
AnswersMatch ==
    \A c \in Commands : got[c] \notin {None, c} =>
        /\ got[c] < c
        /\ (\E e \in timedOut : e < c) \/ (\E u \in unsigned : u <= c)
=============================================================================
