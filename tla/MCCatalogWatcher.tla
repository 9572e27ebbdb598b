------------------------- MODULE MCCatalogWatcher -------------------------
(* lokomotive.cs2 as the Central Station writes it: loco 0x41 with one    *)
(* function, then loco 0x42; and a catalog that drops the second loco.    *)
EXTENDS CatalogWatcher

Uid41 == Key(1, "uid", <<"0", "x", "4", "1">>)
Uid42 == Key(1, "uid", <<"0", "x", "4", "2">>)
CatA == << Hdr("lokomotive"), Uid41, Line(1, "funktionen", FALSE, <<>>),
           Key(2, "nr", <<"0">>), Key(2, "typ", <<"1">>),
           Hdr("lokomotive"), Uid42 >>
CatB == << Hdr("lokomotive"), Uid41 >>

MCCatalogs == {CatA, CatB}
MCInitFile == CatA
===========================================================================
