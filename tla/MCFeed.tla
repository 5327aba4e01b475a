------------------------------- MODULE MCFeed -------------------------------
EXTENDS Feed, TLC

Bill  == <<"bill">>
Board == <<"board">>
Paid  == <<"bill", "entry">>   \* the name of the record that MCRules makes of Bill
Wr(name, model, kind, set, unset) ==
    [name |-> name, model |-> model, kind |-> kind, set |-> set, unset |-> unset, space |-> NoDoc]

MCStanding == <<Wr(Board, "space", <<"init">>, <<>>, {})>>
MCWrites ==
    {Wr(Board, "space", <<"delete">>, <<>>, {}),
     Wr(Bill, "bill", <<"init">>, [amount |-> "one", job |-> "roof"], {}),
     Wr(Bill, "bill", <<"accept">>, [status |-> "accepted"], {}),
     Wr(Bill, "bill", <<"unset">>, <<>>, {"job"}),
     Wr(Bill, "bill", <<"edit">>, [amount |-> "two", job |-> "wall"], {}),
     Wr(Bill, "bill", <<"set">>, [__name__ |-> <<"invoice">>], {}),
     Wr(Bill, "bill", <<"delete">>, <<>>, {}),
     Wr(Paid, "entry", <<"init">>, <<>>, {}),
     Wr(Paid, "entry", <<"delete">>, <<>>, {})}

Proc(name, kind, field, value, reaction) ==
    [name |-> name, models |-> {"bill"}, action_kind |-> kind, field |-> field, value |-> value,
     reaction |-> reaction, created |-> 0]

MCReference == Proc("pay", <<"accept">>, <<"status">>, <<"accepted">>, [kind |-> "run"])
Receipt     == Proc("receipt", <<"accept">>, <<>>, <<>>,
                    [kind |-> "create-doc", model |-> "receipt", name |-> <<"$model", "$doc">>,
                     fields |-> [for |-> "bill"]])
Watch       == Proc("pay", <<>>, <<>>, <<>>, [kind |-> "log"])
MCCommands  == {[op |-> "set", spec |-> Receipt], [op |-> "set", spec |-> Watch],
                [op |-> "remove", spec |-> Receipt]}

MCRules     == {[from |-> "bill", on |-> "accept", to |-> "entry", into |-> Board, fields |-> {"amount"}]}
MCRelations == {<<"bill", "job">>}
MCFilters   == <<[models |-> {"bill"}, action_kind |-> <<>>, field |-> <<>>, value |-> <<>>],
                 [models |-> {}, action_kind |-> <<"accept">>, field |-> <<>>, value |-> <<>>]>>
MCDeployments == {{"runner", "projector"}, {"coordinator"}, {"manager"}}
=============================================================================
