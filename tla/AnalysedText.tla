---------------------------- MODULE AnalysedText ----------------------------
(***************************************************************************)
(* What the server promises about the text it analyses of a source file:   *)
(* that of the client's document while one is open, and otherwise one that *)
(* the file has had on disk.  Documents implements it with a file loader   *)
(* whose answers may be late.                                              *)
(***************************************************************************)
CONSTANTS
    Files,           \* the files that a client may open and a program may write
    Texts,           \* the texts of a file
    Absent           \* no document, or no file

VARIABLES
    doc,             \* the text of the client's document of each file
    past,            \* the contents each file has had on disk
    text             \* the text the database has of each file, or Absent

vars == <<doc, past, text>>
Contents == Texts \cup {Absent}

Init ==
    /\ doc = [f \in Files |-> Absent]
    /\ past \in [Files -> {{c} : c \in Contents}]
    /\ text = [f \in Files |-> Absent]

(* The client opens a document or edits it: its text is the file's at once. *)
Edit(f) ==
    \E t \in Texts :
        /\ doc' = [doc EXCEPT ![f] = t]
        /\ text' = [text EXCEPT ![f] = t]
        /\ UNCHANGED past

Close(f) ==
    /\ doc' = [doc EXCEPT ![f] = Absent]
    /\ UNCHANGED <<past, text>>

Write(f) ==
    \E c \in Contents :
        /\ past' = [past EXCEPT ![f] = @ \cup {c}]
        /\ UNCHANGED <<doc, text>>

(* Files without a document are read again, each as it once was. *)
Reread ==
    /\ \A f \in Files :
           text'[f] # text[f] => doc[f] = Absent /\ text'[f] \in past[f]
    /\ DOMAIN text' = Files
    /\ UNCHANGED <<doc, past>>

Next == (\E f \in Files : Edit(f) \/ Close(f) \/ Write(f)) \/ Reread

Spec == Init /\ [][Next]_vars
=============================================================================
