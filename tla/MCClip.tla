------------------------------- MODULE MCClip -------------------------------
(* Clips for TLC: the frames of a real one are cut in runs of equal kind.  *)
EXTENDS Clip

voice == [band |-> 100, rumble |-> 20000]
soft == [band |-> 11, rumble |-> 5000]
murmur == [band |-> 15, rumble |-> 100000]
click == [band |-> 10000, rumble |-> 100]
hush == [band |-> 0, rumble |-> 0]

(* A clip whose frames are n of x, then m of y, then k of z, and whose     *)
(* last window just fits, or is just short of one more.                    *)
Sounding(n, x, m, y, k, z, more) ==
    [there |-> TRUE, decodes |-> TRUE, utf8 |-> TRUE, embeds |-> TRUE,
     samples |-> IF n + m + k = 0 THEN more ELSE FrameLen + HopLen * (n + m + k - 1) + more,
     frame |-> [i \in 0 .. n + m + k - 1 |-> IF i < n THEN x ELSE IF i < n + m THEN y ELSE z]]

Plain == Sounding(67, voice, 0, hush, 0, hush, 0)
Heard ==
    {Plain,
     Sounding(67, voice, 3, click, 0, hush, 0),
     Sounding(3, click, 67, soft, 30, murmur, 7),
     Sounding(50, voice, 17, soft, 0, hush, 100),
     Sounding(3, click, 57, voice, 10, soft, 0)}
Unheard ==
    {Sounding(66, voice, 0, hush, 0, hush, 239),
     Sounding(66, voice, 40, murmur, 0, hush, 0),
     Sounding(100, murmur, 0, hush, 0, hush, 0),
     Sounding(100, hush, 0, hush, 0, hush, 0),
     Sounding(0, hush, 0, hush, 0, hush, 479),
     Sounding(67, soft, 10, click, 0, hush, 0)}
Faulty ==
    {[Plain EXCEPT !.there = FALSE], [Plain EXCEPT !.decodes = FALSE],
     [Plain EXCEPT !.utf8 = FALSE], [Plain EXCEPT !.embeds = FALSE],
     [Plain EXCEPT !.utf8 = FALSE, !.decodes = FALSE]}

AllClips == Heard \cup Unheard \cup Faulty
=============================================================================
