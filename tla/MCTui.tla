------------------------------- MODULE MCTui -------------------------------
(***************************************************************************)
(* Values for the constants of Tui.                                        *)
(***************************************************************************)
EXTENDS Tui, TLC

CONSTANTS ta, tb, tc, tv

OneLabel == <<tv>>
Ranks    == ta :> 1 @@ tb :> 2 @@ tc :> 3
Names    == ta :> 2 @@ tb :> 0 @@ tc :> 1
Lengths  == ta :> <<1, 2>> @@ tb :> <<3>> @@ tc :> <<>>

Look(state, paused, done, label, rank, files) ==
  [state |-> state, paused |-> paused, done |-> done, label |-> label, rank |-> rank, files |-> files]
Going(id)   == NewTorrent(id)
Filed(id)   == [NewTorrent(id) EXCEPT !.label = tv]
Finished(id) == Look("seeding", FALSE, TRUE, NoLabel, 1, [i \in DOMAIN Lengths[id] |-> 2])

Line(name, args) == [name |-> name, args |-> args]
Click(t, r) == [target |-> t, row |-> r, wheel |-> 0]
Wheel(t, d) == [target |-> t, row |-> 0, wheel |-> d]
Bounds(keys, changes, ticks, edits) == [keys |-> keys, changes |-> changes, ticks |-> ticks, edits |-> edits]

Quiet == [keys |-> {}, lines |-> {}, mice |-> {}, finder |-> FALSE, world |-> <<>>, changes |-> {}, offers |-> {},
          flaky |-> FALSE, drops |-> FALSE, left |-> Bounds(3, 1, 0, 0)]

\* Marking, filtering, searching and removing while a torrent goes.
Marking ==
  [Quiet EXCEPT !.keys = {"j", "space", "/", "}", "x"}, !.world = ta :> Filed(ta) @@ tb :> Going(tb),
                !.changes = {[id |-> tb, to |-> <<>>]}]

\* The layers escape peels, with a label that disappears.
Peeling ==
  [Quiet EXCEPT !.keys = {"{", "G", "/", "esc"}, !.world = ta :> Filed(ta) @@ tb :> Finished(tb),
                !.changes = {[id |-> ta, to |-> <<Going(ta)>>]}, !.left = Bounds(5, 1, 0, 0)]

\* Three torrents, and the mouse.
Pointing ==
  [Quiet EXCEPT !.keys = {"?", "m", "ctrl+c"}, !.world = ta :> Going(ta) @@ tb :> Going(tb) @@ tc :> Filed(tc),
                !.mice = {Click("list", 0), Wheel("list", 1), Wheel("list", -1), Click("sidebar", 5),
                          Wheel("sidebar", -1), Click("tabs", 2), Click("body", 1), Wheel("body", 1)}, !.left = Bounds(4, 0, 0, 0)]

\* Searching an indexer, walking away, searching again and adding.
Finding ==
  [Quiet EXCEPT !.keys = {"f", "j", "enter", "esc"}, !.finder = TRUE, !.offers = {<<ta>>, <<NoID>>, <<>>},
                !.flaky = TRUE, !.left = Bounds(8, 0, 0, 0)]

\* The detail pane, its files and their priorities.
Viewing ==
  [Quiet EXCEPT !.keys = {"j", "v", "3", "enter", "space", "+", "o"}, !.world = ta :> Going(ta) @@ tb :> Going(tb),
                !.changes = {[id |-> ta, to |-> <<>>]}, !.left = Bounds(4, 1, 0, 0)]

\* Every command of the palette, and the chord.
Commanding ==
  [Quiet EXCEPT !.keys = {":", "j", "enter", "d"}, !.world = ta :> Filed(ta) @@ tb :> Finished(tb), !.flaky = TRUE,
                !.lines = {Line("add", <<>>), Line("add", <<{tc}>>), Line("rm", <<>>), Line("pause", <<>>),
                           Line("purge", <<>>), Line("limit", <<>>), Line("limit", <<"500k">>),
                           Line("move", <<"dir">>), Line("mouse", <<>>), Line("label", <<>>), Line("label", <<tv>>),
                           Line("find", <<>>), Line("sort", <<>>), Line("sort", <<"rank", "desc">>),
                           Line("sort", <<"name">>), Line("help", <<>>), Line("q", <<>>), Line("", <<>>),
                           Line("bogus", <<>>)}, !.left = Bounds(4, 0, 0, 0)]

\* The theme picker, and a theme file that is edited.
Theming ==
  [Quiet EXCEPT !.keys = {":", "j", "enter", "esc"}, !.left = Bounds(8, 0, 0, 2),
                !.lines = {Line("theme", <<>>), Line("theme", <<"user">>)}]

\* Adding under a label or a search that hides what is added.
Adding ==
  [Quiet EXCEPT !.keys = {":", "j", "enter", "{", "/"}, !.lines = {Line("add", <<{tb}>>)},
                !.world = ta :> Filed(ta), !.left = Bounds(6, 0, 0, 0)]

\* Adding two at once, and losing the daemon.
Losing ==
  [Quiet EXCEPT !.keys = {":", "j", "enter"}, !.lines = {Line("add", <<{tb, tc}>>)}, !.drops = TRUE]

\* The remaining keys, one after another.
Touring ==
  [Quiet EXCEPT !.keys = {"k", "g", "p", "X", "r", "D", "tab", "shift+tab", "]", "[", "1", "2", "-", "h", "f"},
                !.world = ta :> Filed(ta) @@ tb :> Going(tb), !.changes = {[id |-> tb, to |-> <<Finished(tb)>>]},
                !.left = Bounds(3, 0, 0, 0)]

AllScenes == {Marking, Peeling, Pointing, Finding, Viewing, Commanding, Theming, Adding, Losing, Touring}
=============================================================================
