------------------------------ MODULE PtyInput ------------------------------
(***************************************************************************)
(* The keyboard of the owner's interactive terminal (PtyInputGate and the  *)
(* input chain of TerminalPtyService): keys arrive in chunks, the gate     *)
(* rebuilds the line being typed, a line is written to the audit log, and  *)
(* only then its Enter goes to the shell.  The audit may fail, a send may  *)
(* fail before or after the shell got the keys, and so may the Ctrl+C that *)
(* cancels a half-typed line.                                              *)
(*                                                                         *)
(* The shell is external: it edits its line as a readline shell does.      *)
(***************************************************************************)
EXTENDS Naturals, SequencesExt

CONSTANTS
  Bytes,       \* the keys the owner uses
  MaxLine,     \* MAX_LINE_CHARS
  MaxRate,     \* MAX_INPUT_BYTES_PER_SECOND
  MaxChunk,    \* bound: bytes of one message
  MaxKeys,     \* bound: bytes typed
  MaxQueue,    \* bound: chunks waiting in the chain
  MaxInFaults  \* bound: failed audits and sends

ASSUME BytesAssumption == Bytes \subseteq {"x", " ", "BS", "C-c", "C-w", "CR", "ESC", "["}
ASSUME InputBoundsAssumption ==
  /\ MaxLine \in Nat /\ MaxRate \in Nat /\ MaxChunk \in Nat /\ MaxKeys \in Nat
  /\ MaxQueue \in Nat /\ MaxInFaults \in Nat

VARIABLES
  gate,       \* PtyInputGate: line and escape
  queue,      \* inputChain: chunks not processed yet
  steps,      \* what feed made of the chunk in process
  phase,      \* "next", "audit", "send" or "cancel"
  shell,      \* the shell's line and escape
  rate,       \* rateBytes
  typed, inFaults,
  \* history
  audited,    \* the line written to the audit log since the last Enter
  ran,        \* the last line the shell ran, and what the log had for it
  spoilt      \* "yes" once a cancel was lost, a line outgrew MaxLine or a Ctrl+C fell
              \* inside an escape sequence, which the gate takes for part of it

inputVars == <<gate, queue, steps, phase, shell, rate, typed, inFaults, audited, ran, spoilt>>

Fresh == [line |-> <<>>, escape |-> "none"]
Chars == {"x", " ", "["}

-----------------------------------------------------------------------------
(* PtyInputGate *)

\* consumeEscape: the rest of an escape sequence is no text.
ConsumeEscape(escape, b) ==
  CASE escape = "esc" -> IF b = "[" THEN "csi" ELSE "none"
    [] escape = "csi" -> IF b \in {"x", "[", "BS"} THEN "none" ELSE "csi"

\* The line without the blanks at its ends, inner blanks joined.
Normalised(line) ==
  LET inner(i) == /\ line[i] # " " \/ (\E j \in 1 .. i - 1 : line[j] # " ")
                  /\ line[i] # " " \/ (\E j \in i + 1 .. Len(line) : line[j] # " ")
                  /\ line[i] = " " /\ i > 1 => line[i - 1] # " "
  IN  [k \in 1 .. Len(SelectSeq([i \in DOMAIN line |-> i], inner)) |->
         line[SelectSeq([i \in DOMAIN line |-> i], inner)[k]]]

\* Ctrl+W as the gate does it, /\s*\S*$/: without the blanks before the word.
StripWord(line) ==
  LET word  == {i \in 0 .. Len(line) : \A j \in i + 1 .. Len(line) : line[j] # " "}
      start == CHOOSE i \in word : \A j \in word : i <= j
      blank == {i \in 0 .. start : \A j \in i + 1 .. start : line[j] = " "}
  IN  SubSeq(line, 1, CHOOSE i \in blank : \A j \in blank : i <= j)

\* applyKey
ApplyKey(line, b) ==
  CASE b = "BS"  -> IF line = <<>> THEN <<>> ELSE Front(line)
    [] b = "C-c" -> <<>>
    [] b = "C-w" -> StripWord(line)
    [] OTHER     -> IF Len(line) < MaxLine THEN Append(line, b) ELSE line

\* One byte of feed; an Enter ends a step and takes the line.
FeedByte(s, b) ==
  CASE s.escape # "none" -> [s EXCEPT !.escape = ConsumeEscape(s.escape, b), !.bytes = Append(@, b)]
    [] s.escape = "none" /\ b = "ESC" -> [s EXCEPT !.escape = "esc", !.bytes = Append(@, b)]
    [] s.escape = "none" /\ b = "CR" ->
         [s EXCEPT !.line = <<>>, !.bytes = <<>>,
                   !.out = Append(@, [bytes |-> Append(s.bytes, b), line |-> Normalised(s.line)])]
    [] OTHER -> [s EXCEPT !.line = ApplyKey(s.line, b), !.bytes = Append(@, b)]

\* feed: what it has made of a chunk after i bytes; the steps, the last of them without Enter.
Fed(chunk) ==
  LET fed[i \in 0 .. Len(chunk)] ==
        IF i = 0 THEN [line |-> gate.line, escape |-> gate.escape, bytes |-> <<>>, out |-> <<>>]
                 ELSE FeedByte(fed[i - 1], chunk[i])
  IN  fed

Feed(chunk) ==
  LET end == Fed(chunk)[Len(chunk)]
  IN  [gate  |-> [line |-> end.line, escape |-> end.escape],
       steps |-> IF end.bytes = <<>> THEN end.out
                 ELSE Append(end.out, [bytes |-> end.bytes, line |-> <<>>])]

-----------------------------------------------------------------------------
(* The shell, external *)

\* Ctrl+W: the blanks behind the cursor and the word before them.
RuboutWord(line) ==
  LET text  == {i \in 0 .. Len(line) : \A j \in i + 1 .. Len(line) : line[j] = " "}
      last  == CHOOSE i \in text : \A j \in text : i <= j
      word  == {i \in 0 .. last : \A j \in i + 1 .. last : line[j] # " "}
  IN  SubSeq(line, 1, CHOOSE i \in word : \A j \in word : i <= j)

\* Ctrl+C interrupts whatever the shell is reading.
ShellByte(s, b) ==
  CASE b = "C-c" -> [s EXCEPT !.line = <<>>, !.escape = "none", !.spoilt = IF s.escape # "none" THEN "yes" ELSE @]
    [] s.escape # "none" /\ b # "C-c" -> [s EXCEPT !.escape = ConsumeEscape(s.escape, b)]
    [] s.escape = "none" /\ b = "ESC" -> [s EXCEPT !.escape = "esc"]
    [] s.escape = "none" /\ b = "CR"  ->
         [s EXCEPT !.line = <<>>,
                   !.ran = IF Normalised(s.line) = <<>> THEN @ ELSE [line |-> Normalised(s.line), log |-> audited]]
    [] s.escape = "none" /\ b = "BS"  -> [s EXCEPT !.line = IF @ = <<>> THEN @ ELSE Front(@)]
    [] s.escape = "none" /\ b = "C-w" -> [s EXCEPT !.line = RuboutWord(s.line)]
    [] OTHER -> [s EXCEPT !.line = Append(@, b), !.spoilt = IF Len(s.line) + 1 > MaxLine THEN "yes" ELSE @]

\* The shell after i bytes of those it gets, and what it has run.
Delivered(bytes) ==
  LET after[i \in 0 .. Len(bytes)] ==
        IF i = 0 THEN [line |-> shell.line, escape |-> shell.escape, ran |-> ran, spoilt |-> spoilt]
                 ELSE ShellByte(after[i - 1], bytes[i])
  IN  after

\* The shell gets keys.
Deliver(bytes) ==
  LET end == Delivered(bytes)[Len(bytes)]
  IN  shell' = [line |-> end.line, escape |-> end.escape] /\ ran' = end.ran /\ spoilt' = end.spoilt

-----------------------------------------------------------------------------
(* TerminalPtyService.input and process *)

InFault == inFaults < MaxInFaults /\ inFaults' = inFaults + 1

\* input: a chunk within the rate joins the chain, one over it is dropped whole.
Input(chunk) ==
  /\ Len(queue) < MaxQueue /\ typed + Len(chunk) <= MaxKeys /\ typed' = typed + Len(chunk)
  /\ rate' = IF rate + Len(chunk) > MaxRate THEN MaxRate + 1 ELSE rate + Len(chunk)
  /\ queue' = IF rate + Len(chunk) <= MaxRate THEN Append(queue, chunk) ELSE queue
  /\ UNCHANGED <<gate, steps, phase, shell, inFaults, audited, ran, spoilt>>

\* withinRate: a new second.
RateWindow ==
  /\ rate > 0 /\ rate' = 0
  /\ UNCHANGED <<gate, queue, steps, phase, shell, typed, inFaults, audited, ran, spoilt>>

\* The chain takes its next chunk.
ProcessChunk ==
  /\ phase = "next" /\ steps = <<>> /\ queue # <<>>
  /\ LET fed == Feed(Head(queue)) IN gate' = fed.gate /\ steps' = fed.steps
  /\ queue' = Tail(queue)
  /\ phase' = "audit"
  /\ UNCHANGED <<shell, rate, typed, inFaults, audited, ran, spoilt>>

\* process: the line is audited before its bytes go out.
Audit ==
  /\ phase = "audit" /\ steps # <<>>
  /\ audited' = IF Head(steps).line = <<>> THEN audited ELSE Head(steps).line
  /\ phase' = "send"
  /\ UNCHANGED <<gate, queue, steps, shell, rate, typed, inFaults, ran, spoilt>>

AuditFails ==
  /\ phase = "audit" /\ steps # <<>> /\ Head(steps).line # <<>> /\ InFault
  /\ phase' = "cancel"
  /\ UNCHANGED <<gate, queue, steps, shell, rate, typed, audited, ran, spoilt>>

\* ptyInput; a failure may be of the answer only.
SendStep ==
  /\ phase = "send"
  /\ Deliver(Head(steps).bytes)
  /\ steps' = Tail(steps)
  /\ phase' = IF Tail(steps) = <<>> THEN "next" ELSE "audit"
  /\ UNCHANGED <<gate, queue, rate, typed, inFaults, audited>>

SendFails ==
  /\ phase = "send" /\ InFault
  /\ \/ Deliver(Head(steps).bytes)
     \/ UNCHANGED <<shell, ran, spoilt>>
  /\ phase' = "cancel"
  /\ UNCHANGED <<gate, queue, steps, rate, typed, audited>>

\* Mutant: the gate keeps its half-typed line.
CancelKeepsLine ==
  /\ phase = "cancel"
  /\ steps' = <<>> /\ phase' = "next"
  /\ shell' = Fresh
  /\ UNCHANGED <<ran, spoilt, gate, queue, rate, typed, inFaults, audited>>

\* onInputFailure: the rest of the chunk is dropped, the gate starts afresh and the
\* shell is sent a Ctrl+C, which may be lost.
CancelLine ==
  /\ phase = "cancel"
  /\ gate' = Fresh /\ steps' = <<>> /\ phase' = "next"
  /\ \/ shell' = Fresh /\ UNCHANGED <<ran, spoilt, inFaults>>
     \/ InFault /\ spoilt' = "yes" /\ UNCHANGED <<shell, ran>>
  /\ UNCHANGED <<queue, rate, typed, audited>>

-----------------------------------------------------------------------------
InputInit ==
  /\ gate = Fresh /\ queue = <<>> /\ steps = <<>> /\ phase = "next" /\ shell = Fresh
  /\ rate = 0 /\ typed = 0 /\ inFaults = 0
  /\ audited = <<>> /\ ran = [line |-> <<>>, log |-> <<>>] /\ spoilt = "no"

InputNext ==
  \/ \E n \in 1 .. MaxChunk : \E chunk \in [1 .. n -> Bytes] : Input(chunk)
  \/ RateWindow \/ ProcessChunk \/ Audit \/ AuditFails \/ SendStep \/ SendFails \/ CancelLine

InputSpec == InputInit /\ [][InputNext]_inputVars

-----------------------------------------------------------------------------
\* Types of the gate, the chain and the shell.
InputTypeOK ==
  /\ gate.line \in Seq(Chars) /\ Len(gate.line) <= MaxLine
  /\ gate.escape \in {"none", "esc", "csi"} /\ shell.escape \in {"none", "esc", "csi"}
  /\ shell.line \in Seq(Chars)
  /\ phase \in {"next", "audit", "send", "cancel"} /\ (phase \in {"audit", "send"} => steps # <<>>)
  /\ rate \in 0 .. MaxRate + 1 /\ typed \in 0 .. MaxKeys /\ inFaults \in 0 .. MaxInFaults

\* Every line the shell runs is, word for word, the last one in the audit log: whatever
\* the chunks, the failures and what they left half-typed in the shell.  It holds while
\* no cancelling Ctrl+C was lost, no line outgrew what the gate keeps, and the owner
\* pressed no Ctrl+C inside an escape sequence.
LineAuditedFirst == spoilt = "no" /\ ran.line # <<>> => ran.log = ran.line

\* A line is in the audit log, word for word, before the shell runs it.
InputInv == InputTypeOK /\ LineAuditedFirst

\* The same without a word about lost Ctrl+Cs, checked where the owner also uses Ctrl+W.
EveryLineAudited == ran.line # <<>> => ran.log = ran.line
=============================================================================
