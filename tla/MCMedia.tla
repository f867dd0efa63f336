------------------------------ MODULE MCMedia ------------------------------
(* An instance of Media whose video ticks are two audio ticks long.  The    *)
(* units: pictures and parameter sets behind both start codes, first and    *)
(* last in their unit; audio with and without header, bare headers, zeros.  *)
EXTENDS Media
MCPeriod == [video |-> 2, audio |-> 1]

Long(type)  == [code |-> <<0, 0, 0, 1>>, bytes |-> <<96 + type, 128, 5>>]
Short(type) == [code |-> <<0, 0, 1>>, bytes |-> <<96 + type, 128, 7>>]

MCVideoUnits ==
    << <<Long(7), Long(8), Long(5)>>, <<Long(1)>>, <<Short(6), Short(5)>>,
       <<Short(1), Short(1)>>, <<Long(6), Short(7)>>, <<Long(6), Long(1)>>,
       <<Short(5)>>, <<Long(9), Short(1)>>, <<Long(7)>> >>

MCAudioUnits ==
    LET header == <<0, 16, 0, 24>>
    IN  <<[header |-> header, bytes |-> <<0, 0, 0>>],
          [header |-> header, bytes |-> <<9, 0, 0>>],
          [header |-> header, bytes |-> <<0, 16, 0, 8, 3>>],
          [header |-> <<>>, bytes |-> <<33, 9, 9, 9, 9>>],
          [header |-> <<>>, bytes |-> <<0, 0, 0, 0, 0>>],
          [header |-> header, bytes |-> <<0, 0, 1>>],
          [header |-> <<0, 16, 0, 0>>, bytes |-> <<>>],
          [header |-> header, bytes |-> <<4>>]>>
=============================================================================
