---------------------------- MODULE MCOperations ----------------------------
(***************************************************************************)
(* The operations on images, each a subject of its own: an image written   *)
(* to a file and read back, numbers written and texts read, an area of an  *)
(* image fetched, the connected components found, a cache filled, images   *)
(* made and released by a script.  They share no state: a behaviour is one *)
(* of one subject, with the variables of the others idle.                  *)
(***************************************************************************)
EXTENDS ImageFiles, NumberStreams, MCPixelFetch, ConnectedComponents, FillOnce, Images

VARIABLE subject

allVars == << subject, fileVars, streamVars, fetchVars, ccVars, onceVars, imageVars >>

(* Three rows for the AKTIVE sinks to disorder, values outside of 0 to 510,
   bytes that look like text to the readers of binary files. *)
Gray == [x |-> -1, y |-> 2, width |-> 2, height |-> 3, depth |-> 1, meta |-> << 97, 0, 98 >>,
         pixel |-> << 70, 64, 20, 510, -4, 515 >>]
Color == [x |-> 0, y |-> -300, width |-> 2, height |-> 2, depth |-> 3, meta |-> << >>,
          pixel |-> << 70, 20, 64, 510, 0, 1, 509, 255, 66, 96, 97, 114 >>]
TestPictures == {Gray, Color}

TestNumbers == {0, 10, 128, 255, 65535, -1, -129}

(* Space, end of line, #, the digit 1, the letter x. *)
TestCharacters == {32, 10, 35, 49, 120}

(* All bitmaps of 3 by 3, and some where components meet late: a spiral, a
   comb upwards and one downwards, one that lies aside of 0, 0. *)
Picture(rows) ==
    [width |-> Len(rows[1]), height |-> Len(rows),
     set |-> {p \in (0 .. Len(rows[1]) - 1) \X (0 .. Len(rows) - 1) : rows[p[2] + 1][p[1] + 1] = 1}]
Spiral == Picture(<< << 1, 1, 1, 1, 1 >>, << 0, 0, 0, 0, 1 >>, << 1, 1, 1, 0, 1 >>,
                     << 1, 0, 0, 0, 1 >>, << 1, 1, 1, 1, 1 >> >>)
Comb   == Picture(<< << 1, 0, 1, 0, 1, 0, 1 >>, << 1, 0, 1, 0, 1, 0, 1 >>, << 1, 1, 1, 0, 1, 1, 1 >>,
                     << 0, 0, 1, 1, 1, 0, 0 >> >>)
Forks  == Picture(<< << 1, 1, 1, 0, 1, 1 >>, << 1, 0, 1, 0, 1, 0 >>, << 0, 1, 0, 1, 0, 1 >>,
                     << 1, 1, 0, 1, 1, 1 >> >>)
Aside  == [width |-> 3, height |-> 3, set |-> (1 .. 3) \X (1 .. 3)]
TestBitmaps == [width : {3}, height : {3}, set : SUBSET ((0 .. 2) \X (0 .. 2))]
               \cup {Spiral, Comb, Forks, Aside}

Idle == << >>

IdleFile   == picture = Idle /\ format = Idle /\ info = Idle /\ todo = {} /\ phase = "idle"
IdleStream == items = << >> /\ stream = Idle /\ input = Idle /\ got = << >> /\ mode = "idle"
IdleFetch  == /\ operation = Idle /\ inputs = Idle /\ domain = Idle /\ request = Idle
              /\ wanted = Idle /\ block = Idle /\ zones = {} /\ stage = "idle"
IdleComponents == bitmap = Idle /\ eight = FALSE /\ blocks = {} /\ unscanned = {} /\ result = "none"
IdleOnce   == /\ cache = "none" /\ memory = Idle /\ filled = {} /\ holder = Idle
              /\ place = [t \in Readers |-> "idle"] /\ want = Idle /\ missing = Idle
              /\ filling = [row \in RowSet |-> 0]

Init == \/ subject = "file" /\ InitFile /\ IdleStream /\ IdleFetch /\ IdleComponents /\ IdleOnce /\ InitImages
        \/ subject = "stream" /\ IdleFile /\ InitStream /\ IdleFetch /\ IdleComponents /\ IdleOnce /\ InitImages
        \/ subject = "fetch" /\ IdleFile /\ IdleStream /\ InitFetch /\ IdleComponents /\ IdleOnce /\ InitImages
        \/ subject = "components" /\ IdleFile /\ IdleStream /\ IdleFetch /\ InitComponents /\ IdleOnce /\ InitImages
        \/ subject = "once" /\ IdleFile /\ IdleStream /\ IdleFetch /\ IdleComponents /\ InitOnce /\ InitImages
        \/ subject = "images" /\ IdleFile /\ IdleStream /\ IdleFetch /\ IdleComponents /\ IdleOnce /\ InitImages

Next ==
    \/ /\ subject = "file" /\ FileStep
       /\ UNCHANGED << subject, streamVars, fetchVars, ccVars, onceVars, imageVars >>
    \/ /\ subject = "stream" /\ StreamStep
       /\ UNCHANGED << subject, fileVars, fetchVars, ccVars, onceVars, imageVars >>
    \/ /\ subject = "fetch" /\ FetchStep
       /\ UNCHANGED << subject, fileVars, streamVars, ccVars, onceVars, imageVars >>
    \/ /\ subject = "components" /\ ComponentStep
       /\ UNCHANGED << subject, fileVars, streamVars, fetchVars, onceVars, imageVars >>
    \/ /\ subject = "once" /\ OnceStep
       /\ UNCHANGED << subject, fileVars, streamVars, fetchVars, ccVars, imageVars >>
    \/ /\ subject = "images" /\ ImageStep
       /\ UNCHANGED << subject, fileVars, streamVars, fetchVars, ccVars, onceVars >>

Spec == Init /\ [][Next]_allVars
=============================================================================
