---------------------------- MODULE MCHttpTools ----------------------------
(* An ordinary site, and an evil one, defined by lines, whose pages refer  *)
(* to the first, later, and to a site that nobody knows.                   *)
EXTENDS HttpTools

PagesOf == [socket |-> 1, direct |-> 2]

TwoSites == <<"good", "evil">>
Evil == {"evil"}

Line(section, key, body) == [section |-> section, key |-> key, body |-> body]

Pages ==
  [good |-> [definition |-> <<>>, generates |-> {<<0, 0>>, <<1, 1>>}],
   evil |-> [definition |-> <<Line("HTML", "page", <<>>), Line("HTML", "", <<Ref("own", "txt", FALSE, FALSE)>>),
                              Line("RESOURCES", "txt", <<>>),
                              Line("HTML", "page", <<Ref("good", "img", TRUE, TRUE), Ref("nobody", "img", FALSE, FALSE)>>)>>,
             generates |-> {<<0, 0>>}]]

Special(www, p, amortize) == [www |-> www, p |-> p, amortize |-> amortize]
Flash == {Special("good", 2, 1), Special("evil", 2, 2), Special("evil", 1, 1)}

TwoScripts ==
  {<<>>, <<[www |-> "evil", resource |-> "other"], [www |-> "good", resource |-> "page"]>>, <<[www |-> "evil", resource |-> ""]>>}
=============================================================================
