------------------------------- MODULE StopDecoder -------------------------------
(***************************************************************************)
(* IncrementalDecoder of src/service/worker.rs: the text of one generation *)
(* job as it grows chunk by chunk, the part of it already streamed to the  *)
(* client, and the stop sequences that must never become visible.          *)
(*                                                                         *)
(* A letter is one character: every index the code uses (find, and the     *)
(* char_indices of held_stop_prefix) is a character boundary, so counting  *)
(* characters instead of bytes loses nothing.  The tokenizer's decode      *)
(* stream is external: a token yields some chunk of text, the empty one    *)
(* while a character is incomplete, or an error.                           *)
(***************************************************************************)
EXTENDS Naturals, Sequences

CONSTANTS Letter,      \* the characters of the text
          StopSets,    \* the sets of stop sequences a request may carry
          MaxText,     \* bound: length of a job's text
          MaxChunk     \* bound: letters one token adds

\* Validated requests have no empty stop sequence (request.rs:133).
ASSUME StopsAssumption ==
    \A stops \in StopSets : stops \subseteq Seq(Letter) \ {<<>>}
ASSUME BoundsAssumption == MaxText \in Nat /\ MaxChunk \in Nat

VARIABLES stop,      \* the job's stop sequences
          decoded,   \* all text decoded so far
          emitted,   \* the part of it sent to the client
          status     \* "running", or why the job was removed

textVars == <<stop, decoded, emitted, status>>

-----------------------------------------------------------------------------
\* A stop sequence begins after the first i letters of the text.
Found(text, i) ==
    \E s \in stop : /\ i + Len(s) <= Len(text)
                    /\ \A k \in 1..Len(s) : text[i + k] = s[k]

HasStop(text) == \E i \in 0..Len(text) : Found(text, i)

\* The last n letters begin a longer stop sequence.
MayStop(text, n) ==
    \E s \in stop : /\ Len(s) > n
                    /\ \A k \in 1..n : text[Len(text) - n + k] = s[k]

IsHeldShortest(text, n) ==
    /\ n = 0 \/ MayStop(text, n)
    /\ n = 0 => \A m \in 1..Len(text) : ~MayStop(text, m)
    /\ \A m \in 1..(n - 1) : ~MayStop(text, m)

\* The longest such suffix, or nothing.
IsHeld(text, n) ==
    /\ n = 0 \/ MayStop(text, n)
    /\ \A m \in (n + 1)..Len(text) : ~MayStop(text, m)

IsAnyStop(text, i) == Found(text, i)

IsFirstStop(text, i) == Found(text, i) /\ \A j \in 0..(i - 1) : ~Found(text, j)

\* How much of the text the client may see.
IsVisibleEnd(text, terminal, end) ==
    \/ IsFirstStop(text, end)
    \/ ~HasStop(text) /\ terminal /\ end = Len(text)
    \/ ~HasStop(text) /\ ~terminal /\ IsHeld(text, Len(text) - end)

-----------------------------------------------------------------------------
DecoderInit ==
    /\ stop \in StopSets
    /\ decoded = <<>> /\ emitted = <<>>
    /\ status = "running"

\* The text already streamed grows by what lies between it and end.
Stream(text, end) == emitted' = emitted \o SubSeq(text, Len(emitted) + 1, end)

\* push: one token of the job, the last one when the scheduler completed the
\* row.  process_step removes the job after a stop or the last token.
Push(chunk, terminal) ==
    LET text == decoded \o chunk IN
    /\ status = "running"
    /\ Len(text) <= MaxText
    /\ decoded' = text
    /\ \E end \in 0..Len(text) :
         /\ IsVisibleEnd(text, terminal, end)
         /\ \/ /\ end < Len(emitted)
               /\ status' = "crossed"
               /\ UNCHANGED emitted
            \/ /\ end >= Len(emitted)
               /\ Stream(text, end)
               /\ status' = IF HasStop(text) THEN "stopped"
                            ELSE IF terminal THEN "ended" ELSE "running"
    /\ UNCHANGED stop

\* The decode stream rejects the token: the job ends with an error.
PushFails ==
    /\ status = "running"
    /\ status' = "failed"
    /\ UNCHANGED <<stop, decoded, emitted>>

Chunks == UNION {[1..n -> Letter] : n \in 0..MaxChunk}

DecoderNext ==
    \/ \E chunk \in Chunks, terminal \in BOOLEAN : Push(chunk, terminal)
    \/ PushFails

DecoderSpec == DecoderInit /\ [][DecoderNext]_textVars

-----------------------------------------------------------------------------
(* Properties *)

\* Variables have their types; what was streamed is a beginning of the text.
TextOK ==
    /\ stop \in StopSets
    /\ decoded \in Seq(Letter) /\ emitted \in Seq(Letter)
    /\ Len(emitted) <= Len(decoded)
    /\ \A k \in 1..Len(emitted) : emitted[k] = decoded[k]
    /\ status \in {"running", "stopped", "ended", "failed", "crossed"}

\* Text that was streamed never turns out to be the beginning of a stop
\* sequence when a later chunk completes it: the error of worker.rs:409-413
\* cannot occur, whatever the stop sequences and however tokens cut the text.
NeverCrosses == status # "crossed"

\* While the job runs no stop sequence is in the text, and the client cannot
\* be shown a letter of one later: wherever a stop sequence that is not yet
\* complete has begun, streaming stopped before it.
NothingLeaks ==
    status = "running" =>
        /\ ~HasStop(decoded)
        /\ \A i \in 0..Len(decoded) :
              i < Len(emitted) => ~MayStop(decoded, Len(decoded) - i)

\* No stop sequence lies inside another one before its last letter.
Unnested ==
    \A s, t \in stop : \A i \in 0..Len(t) :
        i + Len(s) < Len(t) => \E k \in 1..Len(s) : t[i + k] # s[k]

\* A letter at a time, the text is cut where the first stop sequence begins
\* that is there when any is.
CutLetterByLetter(text, i) ==
    \E n \in 1..Len(text) :
        /\ ~HasStop(SubSeq(text, 1, n - 1))
        /\ Found(SubSeq(text, 1, n), i)
        /\ \A j \in 0..(i - 1) : ~Found(SubSeq(text, 1, n), j)

\* How tokens cut the text does not matter: a job ends with the text that
\* decoding it letter by letter would have streamed, everything when there is
\* no stop sequence in it.  (With a stop sequence inside another one the cut
\* does matter, see README.)
ChunksDoNotMatter ==
    /\ status = "ended" => emitted = decoded /\ ~HasStop(decoded)
    /\ (status = "stopped" /\ Unnested) => CutLetterByLetter(decoded, Len(emitted))

=============================================================================
