----------------------------- MODULE MCIifFence -----------------------------
(* Instances of IifFence: two commands of one IP signal a fence that a       *)
(* command of another IP waits for.                                          *)
EXTENDS IifFence, TLC

CONSTANTS f1, f2, c1, c2, c3, w1, tpu, dsp

\* f1 is signalled by commands of the TPU; w1 waits for it on the DSP and
\* signals f2.
MCFences == {f1, f2}
MCIpOf == [k \in Cmd |-> IF k = w1 THEN dsp ELSE tpu]
MCIn == [k \in Cmd |-> IF k = w1 THEN {f1} ELSE {}]
MCOut == [k \in Cmd |-> IF k # w1 THEN {f1}
                        ELSE Fence \ {f1}]
MCTotal == [f \in Fence |-> IF f = f1 THEN Cardinality(Cmd \ {w1}) ELSE 1]
MCPreset == [f \in Fence |-> IF f = f1 THEN {dsp} ELSE {}]
MCNoPreset == [f \in Fence |-> {}]

\* The signalers of f1 are interchangeable.
Signalers == Permutations(Cmd \ {w1})
=============================================================================
