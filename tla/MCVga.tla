------------------------------- MODULE MCVga -------------------------------
EXTENDS Vga

\* Bits of the values a game programs: colours 0 and 5, the masks FFh and 13h,
\* set/reset in all planes, planes 2 and 5, colour compare, colour 5, all planes.
MCPrograms ==
  {<<0, {0, 2}>>, <<0, {}>>, <<1, 0..3>>, <<8, 0..7>>, <<8, {0, 1, 4}>>, <<4, {1}>>, <<4, {0, 2}>>,
   <<5, {}>>, <<5, {3}>>, <<2, {0, 2}>>, <<7, 0..3>>}
\* The letters A and B, carriage return, line feed, bell.
MCChars == {{0, 6}, {1, 6}, CR, LF, {0, 1, 2}}
MCPlaces == {<<0, 78>>, <<24, 79>>, <<255, 0>>}
MCMonoModes == {{}, {1}, {1, 7}}

=============================================================================
