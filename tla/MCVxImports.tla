---------------------------- MODULE MCVxImports ----------------------------
(***************************************************************************)
(* Programs of up to three natv lines: modules and functions of which one  *)
(* is the end of another, all conventions, and none to four parameters.    *)
(***************************************************************************)
EXTENDS VxImports

N(mod, func, conv, params) == [mod |-> mod, func |-> func, conv |-> conv, params |-> params]

FewNatvs ==
    {N(<<1, 2>>, <<3>>, "cdecl", 2), N(<<2>>, <<3>>, "cdecl", 2), N(<<1, 2>>, <<3, 3>>, "cdecl", 2),
     N(<<1, 2>>, <<3>>, "stdcall", 2), N(<<1, 2>>, <<3>>, "stdcall", 1), N(<<3>>, <<1, 3>>, "cdecl", 0),
     N(<<1>>, <<2>>, "fastcall", 2), N(<<1>>, <<3>>, "fastcall", 4), N(<<2, 2>>, <<1>>, "fastcall", 1)}

FewSources == UNION {[1..n -> FewNatvs] : n \in 1..3}
FourPushed == {<<11, 12, 13, 14, 15>>}
HostFrame == <<201, 202, 203>>
TwoResults == {0, 7}
=============================================================================
