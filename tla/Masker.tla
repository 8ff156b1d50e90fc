------------------------------- MODULE Masker -------------------------------
(***************************************************************************)
(* The writer that masks secrets in a job's output (secret/masker.go): it  *)
(* buffers what is written to it up to the last newline, so that a secret  *)
(* split between two writes is still found, and passes whole lines on.     *)
(*                                                                         *)
(* Text is a sequence of tokens, each a piece of a secret, a newline, or   *)
(* anything else.  The list of patterns is behind a lock; the buffer is    *)
(* not, so every read and every write of it is a step of its own here.     *)
(*                                                                         *)
(* No name is one of StepExecution, whose steps write the output, so that  *)
(* a module can extend both.                                               *)
(***************************************************************************)
EXTENDS Integers, SequencesExt

CONSTANTS
  Tokens,     \* the pieces text is made of
  Writers,    \* the goroutines that write
  Chunks,     \* what one Write may be given
  Secrets,    \* the secrets that may be registered
  Variants,   \* per secret, the patterns of AddSecret: itself, base64, URL encoding
  Limit,      \* maxBufSize
  MaxInput,   \* bound on the tokens written
  MaskFaults  \* what may go wrong, among MaskFaultKinds

MaskFaultKinds == {"sink"} \* the underlying writer fails

Newline == "newline"
Mask    == "***"

Text == Seq(Tokens)

ASSUME MaskerAssumption ==
  /\ Limit \in Nat /\ MaxInput \in Nat /\ MaskFaults \subseteq MaskFaultKinds
  /\ {Newline, Mask} \subseteq Tokens
  /\ Chunks \subseteq Text \ {<<>>}   \* Write returns at once if it is given nothing
  /\ Variants \in [Secrets -> Seq(Text \ {<<>>})]

VARIABLES
  patterns, \* m.patterns
  buf,      \* m.buf
  out,      \* what the underlying writer has received
  stage,    \* where each writer is in Write
  chunk,    \* the argument of its Write
  pats,     \* its copy of the patterns
  seen,     \* the buffer as it has read it
  toFlush,  \* the local of that name
  flusher,  \* where the worker is in Flush
  input,    \* everything written so far (no part of the program)
  raced,    \* two goroutines were in Write or Flush at once (likewise)
  cut,      \* a line was longer than the limit (likewise)
  late,     \* a secret was registered after the first write (likewise)
  lost      \* the underlying writer has failed (likewise)

locals == <<stage, chunk, pats, seen, toFlush>>
ghosts == <<input, raced, cut, late, lost>>
maskVars == <<patterns, buf, out, locals, flusher, ghosts>>

MaskTypeOK ==
  /\ patterns \in Seq(Text \ {<<>>})
  /\ buf \in Text /\ out \in Text /\ input \in Text
  /\ stage \in [Writers -> {"idle", "read", "append", "reread", "take", "emit"}]
  /\ chunk \in [Writers -> Text]
  /\ pats \in [Writers -> Seq(Text \ {<<>>})]
  /\ seen \in [Writers -> Text]
  /\ toFlush \in [Writers -> Text]
  /\ flusher \in {"running", "mask", "ended"}
  /\ raced \in BOOLEAN /\ cut \in BOOLEAN /\ late \in BOOLEAN /\ lost \in BOOLEAN

MaskInit ==
  /\ patterns = <<>> /\ buf = <<>> /\ out = <<>>
  /\ stage = [w \in Writers |-> "idle"]
  /\ chunk = [w \in Writers |-> <<>>]
  /\ pats = [w \in Writers |-> <<>>]
  /\ seen = [w \in Writers |-> <<>>]
  /\ toFlush = [w \in Writers |-> <<>>]
  /\ flusher = "running"
  /\ input = <<>>
  /\ raced = FALSE /\ cut = FALSE /\ late = FALSE /\ lost = FALSE

-----------------------------------------------------------------------------
\* Masking.

\* strings.ReplaceAll(s, p, "***"): from the left, without overlaps.
MaskPattern(s, p) ==
  LET r[i \in 1..(Len(s) + 1)] ==
        IF i > Len(s) THEN <<>>
        ELSE IF i + Len(p) - 1 <= Len(s) /\ SubSeq(s, i, i + Len(p) - 1) = p
          THEN <<Mask>> \o r[i + Len(p)]
        ELSE <<s[i]>> \o r[i + 1]
  IN r[1]

\* One pattern after the other.
maskString(s, ps) ==
  LET masked[i \in 0..Len(ps)] ==
        IF i = 0 THEN s ELSE MaskPattern(masked[i - 1], ps[i])
  IN masked[Len(ps)]

-----------------------------------------------------------------------------
\* AddSecret.  A secret registered twice is masked twice, to no effect, and is left out.

AddSecret(s) ==
  /\ flusher = "running"
  /\ \A i \in DOMAIN Variants[s] : ~ \E j \in DOMAIN patterns : patterns[j] = Variants[s][i]
  /\ patterns' = patterns \o Variants[s]
  /\ late' = (late \/ input # <<>>)
  /\ UNCHANGED <<buf, out, locals, flusher, input, raced, cut, lost>>

-----------------------------------------------------------------------------
\* Write.

Proceed(w, at) == stage' = [stage EXCEPT ![w] = at]

\* What the underlying writer does with text.
Sink(text) ==
  \/ out' = out \o text /\ UNCHANGED lost
  \/ "sink" \in MaskFaults /\ lost' = TRUE /\ UNCHANGED out

\* Without patterns the argument is passed through; otherwise it goes through the buffer.
Write(w, p) ==
  /\ stage[w] = "idle" /\ flusher = "running"
  /\ Len(input) + Len(p) <= MaxInput
  /\ input' = input \o p
  /\ raced' = (raced \/ \E v \in Writers \ {w} : stage[v] # "idle")
  /\ IF patterns = <<>>
       THEN Sink(p) /\ UNCHANGED locals
       ELSE /\ chunk' = [chunk EXCEPT ![w] = p]
            /\ pats' = [pats EXCEPT ![w] = patterns]
            /\ Proceed(w, "read")
            /\ UNCHANGED <<out, seen, toFlush, lost>>
  /\ UNCHANGED <<patterns, buf, flusher, cut, late>>

\* m.buf = append(m.buf, p...)
AppendRead(w) ==
  /\ stage[w] = "read"
  /\ seen' = [seen EXCEPT ![w] = buf]
  /\ Proceed(w, "append")
  /\ UNCHANGED <<patterns, buf, out, chunk, pats, toFlush, flusher, ghosts>>

AppendWrite(w) ==
  /\ stage[w] = "append"
  /\ buf' = seen[w] \o chunk[w]
  /\ chunk' = [chunk EXCEPT ![w] = <<>>]
  /\ seen' = [seen EXCEPT ![w] = <<>>]
  /\ Proceed(w, "reread")
  /\ UNCHANGED <<patterns, out, pats, toFlush, flusher, ghosts>>

\* Wrong on purpose: the whole buffer is flushed.
WholeBuffer(b) == Len(b)

\* How much of the buffer goes: up to the last newline, or all of it when it has grown
\* too large, or nothing.
FlushLength(b) ==
  LET lastNewline == SelectLastInSeq(b, LAMBDA t : t = Newline)
  IN IF lastNewline > 0 THEN lastNewline ELSE IF Len(b) > Limit THEN Len(b) ELSE 0

\* Wrong on purpose: nothing of it is kept.
NothingRemains(b) == <<>>

Remaining(b) == SubSeq(b, FlushLength(b) + 1, Len(b))

Look(w) ==
  /\ stage[w] = "reread"
  /\ IF FlushLength(buf) = 0
       THEN /\ Proceed(w, "idle")
            /\ pats' = [pats EXCEPT ![w] = <<>>]
            /\ UNCHANGED seen
       ELSE /\ Proceed(w, "take")
            /\ seen' = [seen EXCEPT ![w] = buf]
            /\ UNCHANGED pats
  /\ UNCHANGED <<patterns, buf, out, chunk, toFlush, flusher, ghosts>>

\* m.buf = remaining
Take(w) ==
  /\ stage[w] = "take"
  /\ toFlush' = [toFlush EXCEPT ![w] = SubSeq(seen[w], 1, FlushLength(seen[w]))]
  /\ buf' = Remaining(seen[w])
  /\ cut' = (cut \/ (Len(seen[w]) > Limit /\ ~ Contains(seen[w], Newline)))
  /\ seen' = [seen EXCEPT ![w] = <<>>]
  /\ Proceed(w, "emit")
  /\ UNCHANGED <<patterns, out, chunk, pats, flusher, input, raced, late, lost>>

\* When the underlying writer fails, what was taken from the buffer is gone.
Emit(w) ==
  /\ stage[w] = "emit"
  /\ Sink(maskString(toFlush[w], pats[w]))
  /\ toFlush' = [toFlush EXCEPT ![w] = <<>>]
  /\ pats' = [pats EXCEPT ![w] = <<>>]
  /\ Proceed(w, "idle")
  /\ UNCHANGED <<patterns, buf, chunk, seen, flusher, input, raced, cut, late>>

-----------------------------------------------------------------------------
\* Flush, by the worker when the job is over; its error is ignored.

FlushBegin ==
  /\ flusher = "running"
  /\ raced' = (raced \/ \E v \in Writers : stage[v] # "idle")
  /\ flusher' = IF buf = <<>> THEN "ended" ELSE "mask"
  /\ UNCHANGED <<patterns, buf, out, locals, input, cut, late, lost>>

Flush ==
  /\ flusher = "mask"
  /\ Sink(maskString(buf, patterns))
  /\ buf' = <<>>
  /\ flusher' = "ended"
  /\ UNCHANGED <<patterns, locals, input, raced, cut, late>>

Done == flusher = "ended" /\ (\A w \in Writers : stage[w] = "idle") /\ UNCHANGED maskVars

MaskNext ==
  \/ \E s \in Secrets : AddSecret(s)
  \/ \E w \in Writers :
       \/ \E p \in Chunks : Write(w, p)
       \/ AppendRead(w) \/ AppendWrite(w) \/ Look(w) \/ Take(w) \/ Emit(w)
  \/ FlushBegin \/ Flush
  \/ Done

MaskSpec == MaskInit /\ [][MaskNext]_maskVars

-----------------------------------------------------------------------------
\* Safety.

OneLine == \A i \in DOMAIN patterns : ~ Contains(patterns[i], Newline)

\* A Write that is under way has part of the text in its hands.
Quiet == \A w \in Writers : stage[w] = "idle"

\* Writes that do not overlap are masked as the whole text would be, however it was cut
\* into writes, as long as the secrets were registered first, none of them spans lines,
\* and no line exceeds the limit.
MaskedAsAWhole ==
  Quiet /\ OneLine /\ ~(raced \/ cut \/ late \/ lost) =>
    out \o maskString(buf, patterns) = maskString(input, patterns)

\* The tokens that are neither a piece of a secret nor the mask.
Plain == {t \in Tokens \ {Mask} :
            \A s \in Secrets : \A i \in DOMAIN Variants[s] : ~ Contains(Variants[s][i], t)}

PlainText(s) ==
  LET kept[i \in 0..Len(s)] ==
        IF i = 0 THEN <<>>
        ELSE IF s[i] \in Plain THEN Append(kept[i - 1], s[i])
        ELSE kept[i - 1]
  IN kept[Len(s)]

\* Whatever is registered when and wherever lines are cut, what is no secret is passed on
\* once and in order, or still in the buffer, unless writes overlap or the underlying
\* writer fails.
NothingLost == Quiet /\ ~(raced \/ lost) => PlainText(out \o buf) = PlainText(input)
=============================================================================
