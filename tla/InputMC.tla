------------------------------- MODULE InputMC ------------------------------
(***************************************************************************)
(* What the user types, on small instances: InputFence and HostInput.      *)
(*                                                                         *)
(* The two are checked side by side: `part' says which of them a           *)
(* behaviour is about.  InputFence has its own variables; those of         *)
(* HostInput are the slots s1 to s8.  What a behaviour is not about stays  *)
(* at rest.                                                                *)
(***************************************************************************)
EXTENDS InputFence

CONSTANTS Parts   \* the components a run is about

VARIABLES part, s1, s2, s3, s4, s5, s6, s7, s8

slots == <<s1, s2, s3, s4, s5, s6, s7, s8>>
runVars == <<vars, part, slots>>

-----------------------------------------------------------------------------
(* What is typed: text, half a sequence, half a paste, an upload command.  *)

FenceScripts ==
  {<<<<"x">>, <<"x">>>>, <<<<"1b">>, <<"x", "x">>>>,
   <<PASTE_START \o <<"x">>, PASTE_END>>, <<<<"1d">>, <<"v", "x">>, <<"x">>>>}

Budget(a, s, r, n, g, q, w, b) ==
  [active |-> a, sync |-> s, reconnecting |-> r, snapshot |-> n, gap |-> g,
   required |-> q, winch |-> w, scroll |-> b]
FenceBudgets ==
  {Budget(2, 1, 1, 1, 0, 0, 0, 1), Budget(2, 0, 0, 1, 1, 0, 0, 0),
   Budget(2, 0, 0, 1, 0, 1, 0, 0), Budget(2, 0, 0, 1, 0, 0, 1, 1)}

AtRest == Init /\ script = <<<<"x">>, <<"x">>>> /\ left = Budget(2, 0, 0, 1, 1, 0, 0, 0)

-----------------------------------------------------------------------------
(* Byte streams of one, two or three keys, sequences, strings and pastes.  *)

Key(id, control, kind) ==
  <<"1b", "[", id, ";", IF control THEN "5" ELSE "1">>
  \o (IF kind = "1" THEN <<"u">> ELSE <<":", kind, "u">>)

Texts == {<<"x">>, <<"1d">>, <<".">>, <<"03">>, <<"c2", "9d">>, <<"e2", "9b", "80">>,
          <<"1b", "x">>, <<"1b", "c2", "80">>, <<"1b", "O", "A">>, <<"1b", "[", "A">>}
Keys == {Key("93", TRUE, k) : k \in {"1", "3"}} \cup {Key("46", FALSE, k) : k \in {"1", "3"}}
        \cup {Key("120", FALSE, k) : k \in {"1", "2", "3"}}
        \cup {Key("57442", FALSE, "1")}
Controls == {PAGE_UP, PAGE_DOWN, <<"1b", "[", "<", "p", "M">>, <<"1b", "[", "<", "q", "m">>,
             <<"1b", "[", "I">>, <<"9b", "O">>,
             <<"1b", "[", "0", "n">>, <<"1b", "[", "?997", ";", "1", "n">>,
             <<"1b", "[", "?997", ";", "2", "2", "2", "2", "2", "2", "2", "2", "n">>,
             <<"9b", "?997", ";", "1", "n">>}
Oscs == {<<"1b", "]", "11", ";", "c", "07">>, <<"1b", "]", "11", "1b", "\\">>,
         <<"9d", "4", ";", "9c">>, <<"1b", "]", "11", "c2", "9c", "18">>,
         <<"1b", "]", "11", "x", "x", "x", "x", "1b", "\\">>,
         <<"1b", "]", "11", "x", "x", "x", "c2", "9c", "07">>}
Pastes == {PASTE_START \o <<"x">> \o PASTE_END, PASTE_START \o <<"1d", ".", "1b">> \o PASTE_END,
           PASTE_START \o <<"x", "x", "x", "x", "x">> \o PASTE_END}
Words == Texts \cup Keys \cup Controls \cup Oscs \cup Pastes
\* Sequences longer than an unfinished one may be: CSI, SS3 and mouse report.
Ones == [i \in 1..8 |-> "1"]
Longs == {<<"1b", "[">> \o Ones \o <<"v">>, <<"9b">> \o Ones \o <<"v">>,
          <<"1b", "O">> \o Ones \o <<"A">>, <<"1b", "[", "<">> \o Ones \o <<"M">>}
KeyWords == Keys \cup {<<"1d">>, <<"x">>, <<".">>}

InputStreams ==
  {a \o b : a \in Words, b \in Words}
  \cup {<<"1d">> \o a \o b : a \in Texts, b \in Texts}
  \cup {a \o b \o c : a \in {Key("93", TRUE, "1"), <<"1d">>, Key("120", FALSE, "1")},
                      b \in KeyWords, c \in KeyWords}
  \cup {Key("93", TRUE, "1") \o Key("46", FALSE, "1") \o <<"1d">> \o <<"x">>
        \o Key("46", FALSE, "3")}
  \cup {a \o l \o b : a \in {<<"x">>, <<"1d">>, Key("93", TRUE, "1")}, l \in Longs,
                      b \in {<<"x">>, <<".">>, <<"1d">>, Key("46", FALSE, "1")}}

Input == INSTANCE HostInput WITH
  Streams <- InputStreams, MaxChunk <- 2,
  stream <- s1, read <- s2, report <- s3, codec <- s4, prefix <- s5,
  out <- s6, expired <- s7, failed <- s8

-----------------------------------------------------------------------------
RunInit ==
  \/ /\ part = "fence" /\ part \in Parts /\ Init
     /\ s1 = 0 /\ s2 = 0 /\ s3 = 0 /\ s4 = 0 /\ s5 = 0 /\ s6 = 0 /\ s7 = 0 /\ s8 = 0
  \/ part = "input" /\ part \in Parts /\ AtRest /\ Input!Init

RunNext ==
  \/ part = "fence" /\ Next /\ UNCHANGED <<part, slots>>
  \/ part = "input" /\ Input!Next /\ UNCHANGED <<vars, part>>

RunSpec == RunInit /\ [][RunNext]_runVars

-----------------------------------------------------------------------------
\* HostInput: neither the cuts of the byte stream nor commands divide a
\* sequence or a key's press from its release.
InputIsWhole == part = "input" => Input!SplitInvariant /\ Input!ReleaseFollowsPress
=============================================================================
