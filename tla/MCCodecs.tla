------------------------------ MODULE MCCodecs ------------------------------
(* Small instances of Codecs. *)
EXTENDS Codecs

\* Packets of the bytes to escape and those that follow an escape, alone and
\* in pairs that look like an escape, and one that needs none.
SomePackets == {<<125, 2>>, <<126, 1>>, <<125>>, <<126, 125>>, <<126, 1, 9>>,
                <<2>>, <<7>>}

\* Noise that ends like a packet, that holds delimiters and escapes, and more
\* than MaxFrameLength bytes of it.
SomeNoise == {<<9, 9, 9, 9, 9, 9, 7>>, <<125>>, <<126>>, <<8, 126, 125, 126, 8>>}

\* The documented lengths of business frames, some that no document gives, and
\* some of these that add up to documented ones.
Data  == {12, 21, 25, 34, 35, 28, 30, 36}
Extra == {0, 28, 35, 38, 5, 10}

Item(id, value) == [id |-> <<id>>, value |-> value]

\* Both battery items, a signal strength that looks like one of them, base
\* stations of both kinds and a list of them whose count is wrong, an empty item,
\* temperatures of an odd length, an unknown item that looks like another.
SomeItems ==
  {Item(233, <<80>>), Item(86, <<7, 74>>), Item(48, <<233>>), Item(93, <<0>>),
   Item(225, <<1, 148, 90, 233, 1, 5, 6>>), Item(93, <<1>>), Item(17, << >>),
   Item(81, <<1>>), Item(7, <<86, 2, 1>>)}

Param(id, value) == [id |-> <<0, 0, 0, id>>, value |-> value]

\* A DWORD, an empty string, one that looks like a parameter, a byte.
SomeParams ==
  {Param(1, <<0, 0, 0, 60>>), Param(19, << >>), Param(16, <<0, 0, 0, 1, 1, 1>>),
   Param(144, <<3>>)}

\* Noon of a day, and the minutes around the ends of its day in GMT+8, for days
\* at the ends of months and years, in a leap year and not.
Day(y, mo, d) == DateUTC(y, mo, d, 0, 0)
Instants ==
  {Day(y, md[1], md[2]) + m :
     y \in {0, 24, 26, 99},
     md \in {<<1, 2>>, <<2, 28>>, <<3, 1>>, <<4, 30>>, <<12, 30>>},
     m \in {0, 720, 959, 960, 1439}}
SomeFixes ==
  {[lat |-> 28, lon |-> 77, lockStatus |-> 64, instant |-> i] : i \in Instants}
  \cup {[lat |-> a, lon |-> o, lockStatus |-> s, instant |-> Day(26, 9, 25)] :
          a \in {-33, 0, 33}, o \in {-151, 0, 151}, s \in {0, 15, 16, 128, 255}}
SomeOffsets == {480, 330, 0, -300}
=============================================================================
