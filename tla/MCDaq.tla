-------------------------------- MODULE MCDaq --------------------------------
EXTENDS Daq, TLC

MCAiChan == [b \in Boards |-> IF b = 0 THEN {0, 1} ELSE {0}]
MCHardware == [b \in Boards |-> IF b = 0 THEN {"real"} ELSE {"dummy"}]

\* Scans of both boards or of single inputs without outputs, and scans of the
\* virtual board's input with two outputs, the second a follower of the first.
MCUses == ({} :> {Inputs, {<<0, 1>>, <<1, 0>>}}) @@ (Outputs :> {{<<1, 0>>}})
MCLinks == [o \in Outputs |-> IF o = 0 THEN {1} ELSE {}]
=============================================================================
