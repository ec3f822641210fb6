------------------------------ MODULE EventLogs ------------------------------
(***************************************************************************)
(* Which program a "Program data:" line of a transaction's log is from      *)
(* (extract_protocol_events, host/crates/agentbond-indexer/src/decode.rs).  *)
(* The log says nothing of it: the decoder follows the invoke and success   *)
(* lines with a stack of its own.  Any program may log text that looks like *)
(* such a line, may emit data that looks like an event, and the runtime     *)
(* leaves out the lines that do not fit its limit.                          *)
(*                                                                          *)
(* The decoder is a loop over the finished log in which a line changes the  *)
(* state only by itself, so the model lets it read each line as the runtime *)
(* writes it.  A transaction that fails is not indexed.                     *)
(***************************************************************************)
EXTENDS Naturals, Sequences

CONSTANTS
    Programs,       \* program ids
    AgentBond,      \* the program whose events are wanted
    Label,          \* "log:" or "data:", where an id is expected
    MaxCalls,       \* the runtime's limit on nested calls
    MaxStackDepth,  \* MAX_STACK_DEPTH (64)
    LogLimit,       \* the runtime's limit on the bytes of a log
    FrameLens,      \* bytes of invoke and success lines
    EventLen,       \* bytes of a data line with an event
    TextLens,       \* bytes of other lines
    MaxEvents       \* bound on the events of a transaction

\* With a base64 text of 82 bytes a data line is longer than an invoke line.
ASSUME LogAssumption ==
    /\ AgentBond \in Programs /\ Label \notin Programs
    /\ MaxCalls \in Nat /\ MaxStackDepth \in Nat /\ MaxCalls <= MaxStackDepth
    /\ LogLimit \in Nat /\ EventLen \in Nat
    /\ FrameLens \subseteq 0 .. EventLen
    /\ TextLens \subseteq Nat
    /\ MaxEvents \in Nat

VARIABLES
    calls,      \* the runtime's call stack
    written,    \* bytes of the log
    stack,      \* the decoder's stack
    decoded,    \* the decoder's events: the programs that really emitted them
    missed,     \* history: events of the program the decoder does not have
    disturbed   \* history: a line was left out, or looked like another kind

vars == <<calls, written, stack, decoded, missed, disturbed>>

LinesTypeOK ==
    /\ calls \in Seq(Programs) /\ Len(calls) <= MaxCalls
    /\ written \in Nat
    /\ stack \in Seq(Programs \cup {Label}) /\ Len(stack) <= MaxStackDepth
    /\ decoded \in Seq(Programs)
    /\ missed \in Nat

TypeOK == LinesTypeOK /\ disturbed \in BOOLEAN

Init ==
    /\ calls = << >> /\ written = 0
    /\ stack = << >> /\ decoded = << >>
    /\ missed = 0 /\ disturbed = FALSE

Top(s) == s[Len(s)]
Pop(s) == SubSeq(s, 1, Len(s) - 1)

-----------------------------------------------------------------------------
(***************************************************************************)
(* The decoder: its stack after one line.  A depth of 0 stands for an       *)
(* invoke line whose depth cannot be read.                                  *)
(***************************************************************************)

\* Mutant: the depth is compared with the frames below.
AfterInvoke_OffByOne(id, depth) ==
    IF depth \notin {0, Len(stack)} \/ Len(stack) >= MaxStackDepth
      THEN << >> ELSE Append(stack, id)

AfterInvoke(id, depth) ==
    IF depth \notin {0, Len(stack) + 1} \/ Len(stack) >= MaxStackDepth
      THEN << >> ELSE Append(stack, id)

\* Mutant: the line of any program ends the last frame.
AfterSuccess_AnyId(id) == IF stack # << >> THEN Pop(stack) ELSE << >>

\* A mismatch must not expose an older frame.
AfterSuccess(id) ==
    IF stack # << >> /\ Top(stack) = id THEN Pop(stack) ELSE << >>

\* An event counts while the program is the last frame.
Counts == stack # << >> /\ Top(stack) = AgentBond

-----------------------------------------------------------------------------
(***************************************************************************)
(* The runtime.  A line that does not fit is left out; a shorter one may    *)
(* fit later.                                                               *)
(***************************************************************************)

Fits(len) == written + len < LogLimit

\* A line that the decoder takes for a frame: next is its stack after it.
Line(len, next) ==
    IF Fits(len)
      THEN written' = written + len /\ stack' = next /\ UNCHANGED disturbed
      ELSE disturbed' = TRUE /\ UNCHANGED <<written, stack>>

Invoke(p, len) ==
    /\ Len(calls) < MaxCalls
    /\ calls' = Append(calls, p)
    /\ Line(len, AfterInvoke(p, Len(calls) + 1))
    /\ UNCHANGED <<decoded, missed>>

Return(len) ==
    /\ calls # << >>
    /\ calls' = Pop(calls)
    /\ Line(len, AfterSuccess(Top(calls)))
    /\ UNCHANGED <<decoded, missed>>

\* emit in the program's handlers, or another program's data of that shape.
Emit ==
    /\ calls # << >>
    /\ Len(decoded) + missed < MaxEvents
    /\ IF Fits(EventLen) THEN written' = written + EventLen /\ UNCHANGED disturbed
                         ELSE disturbed' = TRUE /\ UNCHANGED written
    /\ decoded' = IF Fits(EventLen) /\ Counts THEN Append(decoded, Top(calls))
                                              ELSE decoded
    /\ missed' = IF Top(calls) = AgentBond /\ ~(Fits(EventLen) /\ Counts)
                   THEN missed + 1 ELSE missed
    /\ UNCHANGED <<calls, stack>>

\* A program logs a text that begins like the end of a frame line.
Say(next, len) ==
    /\ calls # << >>
    /\ Fits(len)
    /\ written' = written + len
    /\ stack' = next
    /\ disturbed' = TRUE
    /\ UNCHANGED <<calls, decoded, missed>>

\* Every other line only takes room.
Chat(len) ==
    /\ Fits(len)
    /\ written' = written + len
    /\ UNCHANGED <<calls, stack, decoded, missed, disturbed>>

Next ==
    \/ \E len \in FrameLens : Return(len) \/ \E p \in Programs : Invoke(p, len)
    \/ Emit
    \/ \E len \in TextLens :
        \/ Chat(len)
        \/ \E depth \in 0 .. MaxStackDepth + 1 : Say(AfterInvoke(Label, depth), len)
        \/ Say(AfterSuccess(Label), len)

Spec == Init /\ [][Next]_vars

-----------------------------------------------------------------------------
\* Every event the decoder returns was emitted by the program itself, whatever
\* the programs around it log and wherever the log is cut: neither a text that
\* imitates a frame nor a frame that was left out makes a data line of another
\* program count (extract_protocol_events).
Attributed == \A i \in DOMAIN decoded : decoded[i] = AgentBond

\* In a complete log without such texts no event of the program is missed,
\* however deep the calls and in whatever order they return.
NothingMissed == missed > 0 => disturbed

\* The strengthening of Attributed: the decoder's real frames are frames of the
\* call stack at the same depth, they reach up to its end, and text is all that
\* may stand elsewhere; or else no event fits the log any more.
Aligned ==
    /\ \A i \in DOMAIN stack : stack[i] # Label =>
         /\ i \in DOMAIN calls /\ stack[i] = calls[i]
         /\ i < Len(calls) => i + 1 \in DOMAIN stack /\ stack[i + 1] # Label
Follows == Fits(EventLen) => Aligned

\* The strengthening of NothingMissed.
InStep == ~disturbed => stack = calls /\ missed = 0
==============================================================================
