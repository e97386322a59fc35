--------------------------------- MODULE Store ---------------------------------
(***************************************************************************)
(* A producer's shop as a whole: the catalogue and its addresses, the page *)
(* editors, the promoters, the checkout of an event and the customers.     *)
(* Every module's actions interleave with those of the others; `left`, the *)
(* bounds, is the only variable two modules' actions may both change on    *)
(* their own.                                                              *)
(***************************************************************************)
EXTENDS Editors, Promoters, Shop

storeVars == <<catalogVars, editorVars, promoterVars, customerVars, shopVars, left>>

Init == CatalogInit /\ EditorsInit /\ PromotersInit /\ CustomersInit /\ ShopInit

Next ==
    \/ CatalogNext /\ UNCHANGED <<editorVars, promoterVars, customerVars, shopVars>>
    \/ EditorsNext /\ UNCHANGED <<catalogVars, promoterVars, customerVars, shopVars>>
    \/ PromotersNext /\ UNCHANGED <<catalogVars, editorVars, customerVars, shopVars>>
    \/ CustomersNext /\ UNCHANGED <<catalogVars, editorVars, promoterVars, shopVars>>
    \/ ShopNext /\ UNCHANGED <<catalogVars, editorVars, promoterVars>>

Spec == Init /\ [][Next]_storeVars

StoreTypeOK ==
    /\ CatalogTypeOK /\ EditorsTypeOK /\ PromotersTypeOK /\ CustomersTypeOK /\ ShopTypeOK

(* What is given to the public leads where it should: the addresses of     *)
(* events, and the private report links of promoters.                      *)
AddressesLeadHome == AddressLeadsHome /\ ReportLinksOpen
================================================================================
