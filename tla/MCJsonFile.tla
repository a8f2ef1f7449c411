----------------------------- MODULE MCJsonFile -----------------------------
(***************************************************************************)
(* An instance of JsonFile for TLC.                                        *)
(***************************************************************************)
EXTENDS JsonFile

(* thready's own configuration, and two with limits that are soon reached, *)
(* one with the other comments and one with both.                          *)
SomeConfigs ==
    {[buffer_initial_size |-> 0, max_nesting |-> 0, max_data |-> 0,
      allow_c_comments |-> FALSE, allow_yaml_comments |-> TRUE],
     [buffer_initial_size |-> 1, max_nesting |-> 2, max_data |-> 7,
      allow_c_comments |-> TRUE, allow_yaml_comments |-> FALSE],
     [buffer_initial_size |-> 0, max_nesting |-> 3, max_data |-> 4,
      allow_c_comments |-> TRUE, allow_yaml_comments |-> TRUE]}

(* [ ] { } : , " newline # / * - 0 12 .5 e9 true \n, A, a high and a low    *)
(* surrogate as \uXXXX, a letter of two bytes and its second byte alone;   *)
(* and the beginnings {"":0 and 5e9, and 2.5, and 9e-8, of longer texts.   *)
SomeWords ==
    {<<91>>, <<93>>, <<123>>, <<125>>, <<58>>, <<44>>, <<34>>, <<10>>, <<35>>,
     <<47, 42>>, <<42, 47>>, <<45>>, <<48>>, <<49, 50>>, <<46, 53>>, <<101, 57>>,
     <<116, 114, 117, 101>>, <<92, 110>>, <<92, 117, 48, 48, 52, 49>>,
     <<92, 117, 100, 56, 51, 52>>, <<92, 117, 68, 68, 49, 101>>, <<195, 169>>,
     <<169>>, <<123, 34, 34, 58, 48>>, <<53, 101, 57, 44>>, <<50, 46, 53, 44>>,
     <<57, 101, 45, 56, 44>>}

(* What is 1.1754943e-38 to a float is here 9e-8. *)
NearMin == {<<57, 101, 45, 56>>}

(* Keys and strings with what has to be escaped. *)
SomeData ==
    {Event(t, <<>>) : t \in Begins \cup Ends \cup {"NULL", "TRUE", "FALSE"}}
        \cup {Event("INT", <<45, 55>>), Event("INT", <<49, 50, 56>>),
              Event("FLOAT", <<48, 46, 53>>), Event("KEY", <<110>>),
              Event("KEY", <<34, 92>>), Event("STRING", <<1, 47, 195, 169>>),
              Event("BSTRING", <<10, 233>>)}
=============================================================================
