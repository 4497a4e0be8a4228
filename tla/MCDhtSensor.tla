---------------------------- MODULE MCDhtSensor ----------------------------
(* Two sensors in one function register; bytes of two bits, four frames;   *)
(* pulses off by up to ten microseconds, and one that is too short, too    *)
(* long, or so long that it moves the mean beyond every high pulse.        *)
EXTENDS DhtSensor

CONSTANTS a, b

MCTwo == {a, b}
MCPins == [s \in MCTwo |-> IF s = a THEN 4 ELSE 5]
MCData == {<<0, 0, 0, 0>>, <<3, 3, 3, 3>>, <<1, 2, 0, 3>>, <<2, 0, 1, 0>>}
MCFrames == {d \in [0..4 -> Bytes] :
                d[4] = Checksum(d) /\ \E v \in MCData : \A i \in 0..3 : d[i] = v[i + 1]}
MCSlight == {-10, 10}
MCGross == {-25, 25, 120, 300}
=============================================================================
