----------------------------- MODULE MCSettings -----------------------------
(* Two fonts, two colours, the colour of one widget, and files of one global *)
(* line and one or two sections.                                            *)
EXTENDS Settings

MCStrings      == {Unset, "font 1", "font 2", "red", "blue"}
MCWidgetColors == {"time.fgcolor"}
MCHeight       == [s \in MCStrings |-> IF s = "font 2" THEN 30 ELSE 20]

Set(k, v)  == [is |-> "set", key |-> k, value |-> v]
Theme(n)   == [is |-> "theme", key |-> n]
Bad        == [is |-> "bad"]
Opt(k, v, s) == [key |-> k, value |-> v, switch |-> s]

MCLines == {Set("font.desc", "font 2"), Set("font.fgcolor", "red"), Set("time.fgcolor", "blue"),
            Set("window.y", Derive), Set("window.h", 25)}
Maybe(S) == {<<>>} \cup {<<l>> : l \in S}

NoFile == [exists |-> FALSE, lines |-> <<>>]
Some(lines) == [exists |-> TRUE, lines |-> lines]

\* A global line, and then no section; one, with two lines; or two sections, either
\* of which may be the one asked for.
MCFiles ==
  {NoFile} \cup
  {Some(g) : g \in Maybe(MCLines)} \cup
  {Some(<<g, Theme(n), t, u>>) : g \in MCLines \cup {Bad}, n \in {"top", "low"},
                                 t \in MCLines \cup {Bad}, u \in {Set("font.desc", "font 1")}} \cup
  {Some(<<Theme(n), t, Theme(m), u>>) : n, m \in {"top", "low"}, t \in MCLines, u \in MCLines}

MCOptions ==
  { <<>>,
    <<Opt("font.desc", "font 2", TRUE)>>,
    <<Opt("time.fgcolor", "red", FALSE), Opt("time.fgcolor", "blue", FALSE)>>,
    <<Opt("font.desc", "font 2", FALSE), Opt("font.desc", "font 1", TRUE), Opt("window.y", Derive, TRUE)>> }
MCArgs == [theme : {NoTheme, "top"}, options : MCOptions]

\* Files that choose the font and nothing else.
MCFontFiles == {Some(g) : g \in Maybe({Set("font.desc", "font 1"), Set("font.desc", "font 2")})}
MCFontArgs  == {[theme |-> NoTheme, options |-> <<>>]}
=============================================================================
