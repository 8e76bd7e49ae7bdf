----------------------------- MODULE MCEventPath -----------------------------
(***************************************************************************)
(* The way of an event and of a filter, for TLC: one message, and filters  *)
(* that it matches, does not match, and that are invalid or missing.       *)
(***************************************************************************)
EXTENDS EventPath

MCMessages ==
  [source : {"a"}, type : {"a"}, subject : {"a"}, data : {"object"}, dataContentType : {"a"},
   schemaURL : {""}, metadata : {{}, Entries}, correlationID : {""}, causationID : {""},
   partitionKey : {""}, priority : {1, 4}]

MCFilters ==
  {None} \cup [source : {"", "a.*", "("}, type : {""}, subject : {""}, minPriority : {0, 3},
               metadata : {{}, Entries}]

MCMatching == {<<"a.*", "a">>}

=============================================================================
