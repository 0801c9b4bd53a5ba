---------------------------- MODULE MCSerialPort ----------------------------
(* Two scripted bytes, terminals that type nothing or three bytes, two bytes out. *)
EXTENDS SerialPort

MCByte == {"s1", "s2", "a", "b", "c"}
MCScript == <<"s1", "s2">>
MCUsers == {<<>>, <<"a", "b", "c">>}
MCOutput == <<"x", "y">>
=============================================================================
