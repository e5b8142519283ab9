------------------------------ MODULE MCSurvey ------------------------------
(* Boundaries of a few cells: a plot cut along its diagonal, one with a bay  *)
(* that is cut through it, one with an island, a strip, and one so far out   *)
(* that additions are absorbed.                                              *)
EXTENDS Survey

Rectangle(x1, y1, x2, y2) == << <<x1, y1>>, <<x2, y1>>, <<x2, y2>>, <<x1, y2>>, <<x1, y1>> >>
Plot == <<Rectangle(0, 0, 10, 8)>>
Bay == << << <<0, 0>>, <<5, 0>>, <<8, 0>>, <<8, 8>>, <<5, 3>>, <<0, 8>>, <<0, 0>> >> >>
Island == <<Rectangle(1, 0, 9, 7), Rectangle(3, 1, 5, 5)>>
Strip == <<Rectangle(0, 0, 24, 5)>>
Wide == <<Rectangle(0, 0, 66, 2)>>
Outside == <<Rectangle(0, 0, 13, 12)>>
Coast == <<Rectangle(2400, 0, 2416, 8)>>
Flat == << << <<0, 0>>, <<4, 0>>, <<8, 0>>, <<0, 0>> >> >>

AllBoundaries == {Plot, Bay, Island, Strip, Wide, Outside, Coast, Flat}
Strays == { << <<0, 8>>, <<4, 4>>, <<8, 8>> >>, << <<3, 3>>, <<3, 3>> >> }

HalfBelow == << << <<0, 0>>, <<10, 0>>, <<10, 8>>, <<0, 0>> >> >>
HalfAbove == << << <<0, 0>>, <<10, 8>>, <<0, 8>>, <<0, 0>> >> >>
WestOfBay == << << <<0, 0>>, <<5, 0>>, <<5, 3>>, <<0, 8>>, <<0, 0>> >> >>
EastOfBay == << << <<5, 0>>, <<8, 0>>, <<8, 8>>, <<5, 3>>, <<5, 0>> >> >>
SplitsOfBoundaries == {<<Plot, HalfBelow, HalfAbove>>, <<Bay, EastOfBay, WestOfBay>>}
=============================================================================
