---------------------------- MODULE MCEventTable ----------------------------
(* Small event files for each vendor.  The field values include the lowest  *)
(* and the highest bit of each field, so that neighbours that overlap and   *)
(* fields that are cut off show.  An AMD entry may have a unit mask and no  *)
(* code, or a code and no unit mask, of the same number {0, 7}.             *)
EXTENDS EventTable

Entry(codes, masked, umasks, edges, inverts, cmasks, spellings, described, rests) ==
  [name : {"n1", "n2"}, codes : codes, masked : masked, umask : umasks, edge : edges,
   invert : inverts, cmask : cmasks, spelling : spellings, described : described,
   rest : rests]

MCEntries ==
  [v \in {"Intel", "AMD", "ARM"} |->
     CASE v = "Intel" -> Entry({<<{0}>>, <<{0, 7}>>, <<{0}, {1, 7}>>}, {TRUE}, {{}, {0, 7}},
                               {{}, {0}}, {{}, {0}}, {{}, {0, 7}}, {"a"}, {TRUE},
                               {"none", "msr"})
       [] v = "AMD"   -> {e \in Entry({<<>>, <<{0, 7}>>, <<{0, 7, 8}>>, <<{0, 11}>>},
                                      BOOLEAN, {{}, {0, 7}}, {{}}, {{}}, {{}},
                                      {"a", "b"}, {TRUE}, {"core", "L3PMC"}) :
                            ~e.masked => e.umask = {}}
       [] v = "ARM"   -> Entry({<<>>, <<{0}>>, <<{0, 15}>>}, {FALSE}, {{}},
                               {{}}, {{}}, {{}}, {"a"}, BOOLEAN, {"none"})]
=============================================================================
