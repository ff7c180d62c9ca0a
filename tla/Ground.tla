-------------------------------- MODULE Ground -------------------------------
(***************************************************************************)
(* The terrain of a site with what stands, lies and grows on it: the relief *)
(* and its tiles, the surface of the site, roads, lines, buildings, plants  *)
(* and water.  build_site_ifc has them side by side; the names of the parts *)
(* on the surface stay apart.                                              *)
(***************************************************************************)
EXTENDS Relief, Tiles, SiteTin

Roads     == INSTANCE Roads
Linear    == INSTANCE LinearObjects
Buildings == INSTANCE Buildings
Landscape == INSTANCE Landscape
=============================================================================
