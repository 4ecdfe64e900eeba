------------------------------ MODULE Terminal ------------------------------
(***************************************************************************)
(* The output of the terminal (rospovm/frontend/qt/shared/TTYWidget.cpp):  *)
(* bytes are collected and shown in batches.  The first byte of a batch    *)
(* queues a call in the event loop, the call starts a timer, and when the  *)
(* timer ends the batch is written into the document of the window, which  *)
(* keeps a number of lines and drops the oldest.                           *)
(***************************************************************************)
EXTENDS Integers, Sequences, FiniteSets, SequencesExt

CONSTANTS
    Letters,        \* bytes that are shown as they are, the newline among them
    Newline,
    MaxLines        \* lines the document keeps (2000)

Backspace == "backspace"
Return == "return"
Output == Letters \cup {Backspace, Return}

ASSUME LettersAssumption == Letters \cap {Backspace, Return} = {}
ASSUME LinesAssumption == Newline \in Letters /\ MaxLines \in Nat \ {0}

VARIABLES
    pending,        \* pendingOutput
    scheduled,      \* outputScheduled
    posted,         \* queued calls that start the timer
    timer,          \* outputTimer is running
    shown,          \* the document of the window
    meant,          \* history: the text if every byte were shown at once and kept
    long            \* history: that text has had more lines than the document keeps

terminalVars == <<pending, scheduled, posted, timer, shown, meant, long>>
-----------------------------------------------------------------------------
\* The newlines of a text from a place on; those behind which it has as many lines as
\* the document keeps.
Newlines(text, from) == {i \in from .. Len(text) : text[i] = Newline}
Excess(text) ==
    {i \in Newlines(text, 1) : Cardinality(Newlines(text, i + 1)) = MaxLines - 1}

\* The last lines of a text (setMaximumBlockCount).
Kept(text) ==
    IF Excess(text) = {} THEN text
    ELSE SubSeq(text, (CHOOSE i \in Excess(text) : TRUE) + 1, Len(text))

Shorter(text) == IF text = <<>> THEN <<>> ELSE Front(text)

\* The text after a byte that is shown at once.
Immediate(text, b) ==
    CASE b = Return    -> text
      [] b = Backspace -> Shorter(text)
      [] OTHER         -> Append(text, b)

\* (mutant) The flag is not set with the first byte of a batch.
AppendUnscheduled(b) ==
    /\ pending' = Append(pending, b)
    /\ posted' = posted + (IF scheduled THEN 0 ELSE 1)
    /\ meant' = Immediate(meant, b)
    /\ long' = (long \/ Excess(meant') # {})
    /\ UNCHANGED <<scheduled, timer, shown>>

AppendOutputByte(b) ==
    /\ pending' = Append(pending, b)
    /\ scheduled' = TRUE
    /\ posted' = posted + (IF scheduled THEN 0 ELSE 1)
    /\ meant' = Immediate(meant, b)
    /\ long' = (long \/ Excess(meant') # {})
    /\ UNCHANGED <<timer, shown>>

StartTimer ==
    /\ posted > 0
    /\ posted' = posted - 1
    /\ timer' = TRUE
    /\ UNCHANGED <<pending, scheduled, shown, meant, long>>

\* The text is inserted as a whole, up to a backspace or the end of the batch.
Interpret(part, b) ==
    CASE b = Return    -> part
      [] b = Backspace -> [document |-> Shorter(part.document \o part.text), text |-> <<>>]
      [] OTHER         -> [part EXCEPT !.text = Append(@, b)]

\* What the bytes of a batch make of it, one after the other.
Interpreted(start, output) ==
    LET part[n \in 0 .. Len(output)] ==
            IF n = 0 THEN start ELSE Interpret(part[n - 1], output[n])
    IN  part[Len(output)]

\* (mutant) A backspace only deletes from the text of its own batch.
FlushedWithin(document, output) ==
    Kept(document \o FoldLeft(Immediate, <<>>, output))

\* Lines are dropped at the end of the batch (endEditBlock).
Flushed(document, output) ==
    LET result == Interpreted([document |-> document, text |-> <<>>], output)
    IN  Kept(result.document \o result.text)

FlushOutput ==
    /\ timer
    /\ timer' = FALSE
    /\ shown' = Flushed(shown, pending)
    /\ pending' = <<>>
    /\ scheduled' = FALSE
    /\ UNCHANGED <<posted, meant, long>>

TerminalInit ==
    /\ pending = <<>> /\ scheduled = FALSE /\ posted = 0 /\ timer = FALSE
    /\ shown = <<>> /\ meant = <<>> /\ long = FALSE

\* The types of the terminal.
TerminalTypeOK ==
    /\ pending \in Seq(Output) /\ scheduled \in BOOLEAN
    /\ posted \in Nat /\ timer \in BOOLEAN
    /\ shown \in Seq(Letters) /\ meant \in Seq(Letters) /\ long \in BOOLEAN

\* A batch that is collected has exactly one call or timer that will show it,
\* and none is left without a batch.
ScheduledOnce ==
    /\ posted + (IF timer THEN 1 ELSE 0) = (IF scheduled THEN 1 ELSE 0)
    /\ pending # <<>> => scheduled

\* A text is the end of another one.
EndOf(text, whole) ==
    /\ Len(text) <= Len(whole)
    /\ \A i \in 1 .. Len(text) : text[i] = whole[Len(whole) - Len(text) + i]

\* A document shows the end of what was meant, and all of it if that has never had more
\* lines than are kept.
Shows(document) == EndOf(document, meant) /\ (~long => document = meant)

\* Each batch will be shown once, and then the document shows what it would if each byte
\* had been shown at once, though text is inserted as a whole, a backspace may delete from
\* an earlier batch, and the oldest lines are dropped (appendOutputByte, flushOutput,
\* setMaximumBlockCount).
BatchesSound == ScheduledOnce /\ Shows(Flushed(shown, pending))
=============================================================================
