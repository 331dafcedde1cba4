---------------------------- MODULE MCYouConfig -----------------------------
(* YouConfig with a short list of defaults and the downloads that differ in *)
(* what they do to it: a whole file, its beginnings as a cut connection     *)
(* leaves them, an error page, and nothing.                                 *)
EXTENDS YouConfig

Line(s, ip, dns, fuck) ==
  [kind |-> "rule", suffix |-> s, does |-> [ip |-> ip, dns |-> dns, fuck |-> fuck, proxy |-> FALSE]]

\* "video" also matches hosts of "cdn", as ".youtube" does those of others.
MCContains == {<<"cdn.video", "video">>, <<"cdn.video", "cdn">>, <<"site", "site">>}

MCDefaults == <<Line("video", FALSE, TRUE, TRUE), Line("cdn", TRUE, FALSE, FALSE)>>

Comment == [kind |-> "skip"]
Whole == <<Comment, Line("cdn", TRUE, FALSE, TRUE), Line("site", TRUE, FALSE, TRUE)>>

\* The cut may come inside a line: after "ip", where strcpy() needs a word, or
\* before it, which leaves a rule without effect.
MCFiles == {Whole, SubSeq(Whole, 1, 2), SubSeq(Whole, 1, 1), <<>>,
            SubSeq(Whole, 1, 2) \o <<Line("site", FALSE, FALSE, FALSE)>>,
            SubSeq(Whole, 1, 2) \o <<[kind |-> "bad"]>>}

MCVersions == {1, 2, 200, 256}
MCCharMin == -128
=============================================================================
