---------------------------- MODULE MCLocalTime ----------------------------
(* Zones without a change, with the clocks put forward and then back, and   *)
(* back and then forward; a minute is two ticks, an "hour" two minutes.     *)
EXTENDS LocalTime

Always(o) == [from |-> -100, offset |-> o]
From(t, o) == [from |-> t, offset |-> o]

SomeZones == {{Always(2)},
              {Always(2), From(12, 6), From(24, 2)},
              {Always(-2), From(10, -6), From(22, -2)}}
=============================================================================
