------------------------------ MODULE Gallery ------------------------------
(***************************************************************************)
(* What the photos promise, without handlers, round trips or failures.     *)
(* The image is stored before the row and destroyed before it, so that no  *)
(* row is ever deleted before its image; an image that is gone does not    *)
(* come back under a row, nor a row that is deleted; comments and ratings  *)
(* are hung on a row that is there and go when it goes, all at once.       *)
(* Photos.tla is shown to implement this module.                           *)
(***************************************************************************)
CONSTANTS Photo,     \* photos
          Item       \* what can hang on one: comments and ratings

VARIABLES row,       \* row[p]: "free", "stored" or "deleted"
          image,     \* the photos whose image is stored
          hung       \* hung[p]: what hangs on p

vars == <<row, image, hung>>

Init == /\ row = [p \in Photo |-> "free"]
        /\ image = {}
        /\ hung = [p \in Photo |-> {}]

\* The image comes first; it stays alone if the upload fails now.
Put(p) == /\ row[p] = "free" /\ p \notin image
          /\ image' = image \cup {p}
          /\ UNCHANGED <<row, hung>>

\* The row, for an image that is there.
Enter(p) == /\ row[p] = "free" /\ p \in image
            /\ row' = [row EXCEPT ![p] = "stored"]
            /\ UNCHANGED <<image, hung>>

\* A deletion begins with the image; the row stays alone if it fails now.
Lose(p) == /\ row[p] = "stored"
           /\ image' = image \ {p}
           /\ UNCHANGED <<row, hung>>

\* It ends with the row and with what hangs on it.
Erase(p) == /\ row[p] = "stored" /\ p \notin image
            /\ row' = [row EXCEPT ![p] = "deleted"]
            /\ hung' = [hung EXCEPT ![p] = {}]
            /\ UNCHANGED image

\* A photo whose deletion is under way is still commented and rated.
Hang(p, i) == /\ row[p] = "stored"
              /\ hung' = [hung EXCEPT ![p] = hung[p] \cup {i}]
              /\ UNCHANGED <<row, image>>

TakeDown(p, i) == /\ i \in hung[p]
                  /\ hung' = [hung EXCEPT ![p] = hung[p] \ {i}]
                  /\ UNCHANGED <<row, image>>

Next == \E p \in Photo : \/ Put(p) \/ Enter(p) \/ Lose(p) \/ Erase(p)
                         \/ \E i \in Item : Hang(p, i) \/ TakeDown(p, i)

Spec == Init /\ [][Next]_vars
=============================================================================
