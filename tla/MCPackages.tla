----------------------------- MODULE MCPackages -----------------------------
EXTENDS Packages, TLC

MCMe == "me"
Blob(cs) == <<of(cs)>>
Def(name, good) == [name |-> name, version |-> "1", good |-> good]

Plain == [name |-> "app", version |-> "1", publisher |-> "ann", publisher_key |-> "ann",
          bundle |-> <<>>, models |-> <<>>, ui |-> <<>>, projections |-> <<>>, attention |-> <<>>,
          sig |-> <<>>]

One     == sign([Plain EXCEPT !.bundle = <<[hash |-> <<"c2">>, chunks |-> <<"c1">>]>>,
                              !.models = <<Def("note", TRUE)>>], "ann")
Two     == sign([Plain EXCEPT !.version = "2", !.bundle = Blob(<<"c1", "c2">>),
                              !.models = <<Def("note", TRUE)>>], "ann")
Altered == [One EXCEPT !.bundle = Blob(<<"c2">>)]
Pushy   == sign([Plain EXCEPT !.name = "pushy", !.ui = <<[label |-> "settings", fits |-> TRUE]>>], "ann")

MCOffers  == (<<"pkg", "one">> :> <<One>>) @@ (<<"pkg", "two">> :> <<Two>>) @@ (<<"pkg", "altered">> :> <<Altered>>)
             @@ (<<"pkg", "pushy">> :> <<Pushy>>) @@ (<<"pkg", "garbled">> :> <<>>)
MCHeld    == {<<"pkg", "altered">>, <<"pkg", "pushy">>, <<"pkg", "garbled">>}
MCGenuine == {One, Two, Pushy}
MCDrafts  == {[Plain EXCEPT !.name = "own", !.publisher = "me", !.bundle = <<<<"c3">>>>]}
MCDefinitions == {Def("task", TRUE)}
MCWanted  == {<<"pkg", "two">>}
MCDeletable == {<<"pkg", "one">>}
MCPeers   == {"p"}
MCPeerHas == "p" :> {"c1", "c2"}
=============================================================================
