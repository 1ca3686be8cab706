----------------------------- MODULE MCUtf8Util -----------------------------
(* Instances of Utf8Util for TLC: every text over some bytes. *)
EXTENDS Utf8Util, SequencesExt

\* A letter, and the bytes on both sides of every limit.
EdgeBytes == {65, 128, 143, 144, 159, 160, 191, 193, 194, 224, 225, 237, 240, 244, 245}
EdgeTexts == BoundedSeq(EdgeBytes, 4)

\* One first byte of each length and one continuation byte, in longer texts.
LongTexts == BoundedSeq({65, 128, 194, 225, 241}, 5)

MCTexts == EdgeTexts \cup LongTexts
=============================================================================
