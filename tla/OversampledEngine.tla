-------------------------- MODULE OversampledEngine --------------------------
(* The engine with its oversampler, whose buffers it cuts a call into.      *)
EXTENDS Engine, Oversampler

\* An engine that is prepared resamples exactly: what the two stages remember makes the
\* blocks of a signal, up, through the circuit and down, one with the signal through the
\* half-band filters they stand for, wherever it is cut (Oversampler.h 92-195).
ResamplesExactly == prepared => AllResampled
=============================================================================
