--------------------------- MODULE Tenants_proofs ---------------------------
(***************************************************************************)
(* The schemas of any number of tenants, with any lag between code and     *)
(* database.  The argument has two parts: what the revisions are, read     *)
(* from their tables, and what a command then does to a schema.            *)
(***************************************************************************)
EXTENDS Tenants, TLAPS

-----------------------------------------------------------------------------
(***************************************************************************)
(* The tables.  No two revisions have an identifier or an object in        *)
(* common, none adds what the baseline has, and only 0047 takes something  *)
(* away, which 0046 has added.                                             *)
(***************************************************************************)
Differ(r, q) == /\ r.id # q.id
                /\ r.add \cap q.add = {}
                /\ r.public \cap q.public = {}

Plain(r) == /\ r.undo = r.add /\ r.drop = {}
            /\ r.strict \subseteq r.add /\ r.publicStrict \subseteq r.public

(* The forms of a revision. *)
LEMMA PlainIs ==
    \A id, ps, a, b :
        /\ Plain(Strict(id, ps, a)) /\ Plain(Guarded(id, ps, a))
        /\ Plain(ForwardOnly(id, ps, a)) /\ Plain(Nothing(id, ps))
        /\ Plain(Both(id, ps, a, b)) /\ Plain(PublicStrict(id, ps, b))
        /\ Plain(PublicGuarded(id, ps, b))
BY DEF Plain, Strict, Guarded, ForwardOnly, Nothing, Both, PublicStrict,
       PublicGuarded

Form(r, id, parents, add, strict, public_, publicStrict, forward) ==
    /\ r.id = id /\ r.parents = parents /\ r.add = add /\ r.strict = strict
    /\ r.drop = {} /\ r.undo = add /\ r.public = public_
    /\ r.publicStrict = publicStrict /\ r.forward = forward

LEMMA FormsAre ==
    \A id, ps, a, b :
        /\ Form(Strict(id, ps, a), id, ps, a, a, {}, {}, FALSE)
        /\ Form(Nothing(id, ps), id, ps, {}, {}, {}, {}, FALSE)
        /\ Form(Guarded(id, ps, a), id, ps, a, {}, {}, {}, FALSE)
        /\ Form(ForwardOnly(id, ps, a), id, ps, a, {}, {}, {}, TRUE)
        /\ Form(Both(id, ps, a, b), id, ps, a, a, b, b, FALSE)
        /\ Form(PublicStrict(id, ps, b), id, ps, {}, {}, b, b, FALSE)
        /\ Form(PublicGuarded(id, ps, b), id, ps, {}, {}, b, {}, FALSE)
BY DEF Form, Strict, Nothing, Guarded, ForwardOnly, Both, PublicStrict,
       PublicGuarded

(* The one that takes columns away, those of the table it makes again. *)
LEMMA TheDrop ==
    /\ R0047.id = "0047" /\ R0047.parents = {"0046"}
    /\ R0047.add = Cols("product_overrides", {"product_id"})
                     \cup Cols("products", {"external_product_id", "tax_rate"})
    /\ R0047.undo = R0047.add /\ R0047.strict \subseteq R0047.add
    /\ R0047.public = {} /\ R0047.publicStrict = {}
    /\ R0047.drop = Cols("product_overrides",
                         {"connection_id", "external_product_id"})
BY DEF R0047, Strict

LEMMA Dropped ==
    /\ R0046.id = "0046" /\ R0046 \in Revisions
    /\ R0047 \in Revisions
    /\ R0047.drop \subseteq R0046.add
    /\ R0047.drop \cap TenantModels = {}
<1>1. R0046.id = "0046" /\ R0046 \in Revisions /\ R0047 \in Revisions
  BY FormsAre DEF Form, R0046, Revisions
<1>2. R0047.drop \subseteq R0046.add
  BY FormsAre, TheDrop DEF Form, R0046, Tables, Cols
<1>3. R0047.drop \cap TenantModels = {}
  BY TheDrop DEF Tables, Cols, TenantModels, CustomersModels, ConfigModels1,
           ConfigModels2, AuthModels, AllergenModels1, AllergenModels2,
           ImageModels, CatalogModels1, CatalogModels2, DeliveryModels1,
           DeliveryModels2, DeliveryModels3, FavoritesModels,
           HaccpFoundationModels1, HaccpFoundationModels2,
           HaccpFoundationModels3, HaccpModels1, HaccpModels2, StaffModels,
           KdsModels, LoyaltyModels, LoyaltyConfigModels1,
           LoyaltyConfigModels2, DevicesModels, OrdersModels1, OrdersModels2,
           PaymentsModels, PromotionsModels, StockModels, StockSiteModels1,
           StockSiteModels2
<1> QED BY <1>1, <1>2, <1>3

(* The revisions in parts, for the provers. *)
From0001 == {R0001, R0002, R0003, R0004, R0005, R0006, R0007, R0008, R0009a}
From0009b == {R0009b, R0009c, R0012, R0013, R0014, R0015, R0016, R0017,
              R0018}
From0019 == {R0019, R0020, R0021, R0022, R0023, R0024, R0025, R0026, R0027}
From0028 == {R0028, R0029, R0030, R0031, R0032, R0033, R0034, R0035, R0036}
From0037 == {R0037, R0038, R0039, R0040, R0041, R0042, R0043, R0044, R0045}
From0046 == {R0046, R0047, R0048, R0049, R0050, R0051, R0052, R0053, R0054}
From0055 == {R0055, R0056, R0057, R0058, R0059, R0060, R0061, R0062, R0064,
             R0065}
From0063 == {R0063, R0066, R0067, R0068, R0069, R0070, R0071}
From0072 == {R0072, R0073, R0074, R0075, R0076, R0077, R0078, R0079,
             Rhaccp_p1}
Fromhaccp_p3 == {Rhaccp_p3, Rhaccp_merge, R0080, R0081}

LEMMA Parts ==
    Revisions = From0001 \cup From0009b \cup From0019 \cup From0028
                  \cup From0037 \cup From0046 \cup From0055 \cup From0063
                  \cup From0072 \cup Fromhaccp_p3
BY DEF Revisions, From0001, From0009b, From0019, From0028, From0037,
       From0046, From0055, From0063, From0072, Fromhaccp_p3

(* Of every revision, one by one: its form, and where its objects are. *)
USE DEF R0001, R0002, R0003, R0004, R0005, R0006, R0007, R0008, R0009a,
        R0009b, R0009c, R0012, R0013, R0014, R0015, R0016, R0017, R0018,
        R0019, R0020, R0021, R0022, R0023, R0024, R0025, R0026, R0027,
        R0028, R0029, R0030, R0031, R0032, R0033, R0034, R0035, R0036,
        R0037, R0038, R0039, R0040, R0041, R0042, R0043, R0044, R0045,
        R0046, R0048, R0049, R0050, R0051, R0052, R0053, R0054, R0055,
        R0056, R0057, R0058, R0059, R0060, R0061, R0062, R0064, R0065,
        R0063, R0066, R0067, R0068, R0069, R0070, R0071, R0072, R0073,
        R0074, R0075, R0076, R0077, R0078, R0079, Rhaccp_p1, Rhaccp_p3,
        Rhaccp_merge, R0080, R0081

(* All but one are plain. *)
LEMMA AllPlain == \A r \in Revisions : r = R0047 \/ Plain(r)
<1>1. \A r \in From0001 : r = R0047 \/ Plain(r)
  BY ZenonT(60), PlainIs DEF From0001
<1>2. \A r \in From0009b : r = R0047 \/ Plain(r)
  BY ZenonT(60), PlainIs DEF From0009b
<1>3. \A r \in From0019 : r = R0047 \/ Plain(r)
  BY ZenonT(60), PlainIs DEF From0019
<1>4. \A r \in From0028 : r = R0047 \/ Plain(r)
  BY ZenonT(60), PlainIs DEF From0028
<1>5. \A r \in From0037 : r = R0047 \/ Plain(r)
  BY ZenonT(60), PlainIs DEF From0037
<1>6. \A r \in From0046 : r = R0047 \/ Plain(r)
  BY ZenonT(60), PlainIs DEF From0046
<1>7. \A r \in From0055 : r = R0047 \/ Plain(r)
  BY ZenonT(60), PlainIs DEF From0055
<1>8. \A r \in From0063 : r = R0047 \/ Plain(r)
  BY ZenonT(60), PlainIs DEF From0063
<1>9. \A r \in From0072 : r = R0047 \/ Plain(r)
  BY ZenonT(60), PlainIs DEF From0072
<1>10. \A r \in Fromhaccp_p3 : r = R0047 \/ Plain(r)
  BY ZenonT(60), PlainIs DEF Fromhaccp_p3
<1> QED BY Parts, <1>1, <1>2, <1>3, <1>4, <1>5, <1>6, <1>7, <1>8, <1>9,
          <1>10

USE DEF Allergens0009b, Loyalty0009c, Limits0009c, Orders0035, Catalog0035,
    Staff0041, Alerts0041, Screens0049, Checks0051, Records0051, Costs0067,
    Zones0074, Drivers0076, Sites_p1, Sessions_p1, Evidence_p1,
    Positions_p1, Proofs_p1

(* None adds what the baseline has. *)
LEMMA AllNew == \A r \in Revisions : r.add \cap Baseline = {}
<1> USE FormsAre, TheDrop DEF Form
<1>1. \A r \in From0001 : r.add \cap Baseline = {}
  BY DEF From0001, Baseline, Tables, Cols
<1>2. \A r \in From0009b : r.add \cap Baseline = {}
  BY DEF From0009b, Baseline, Tables, Cols
<1>3. \A r \in From0019 : r.add \cap Baseline = {}
  BY DEF From0019, Baseline, Tables, Cols
<1>4. \A r \in From0028 : r.add \cap Baseline = {}
  BY DEF From0028, Baseline, Tables, Cols
<1>5. \A r \in From0037 : r.add \cap Baseline = {}
  BY DEF From0037, Baseline, Tables, Cols
<1>6. \A r \in From0046 : r.add \cap Baseline = {}
  BY DEF From0046, Baseline, Tables, Cols
<1>7. \A r \in From0055 : r.add \cap Baseline = {}
  BY DEF From0055, Baseline, Tables, Cols
<1>8. \A r \in From0063 : r.add \cap Baseline = {}
  BY DEF From0063, Baseline, Tables, Cols
<1>9. \A r \in From0072 : r.add \cap Baseline = {}
  BY DEF From0072, Baseline, Tables, Cols
<1>10. \A r \in Fromhaccp_p3 : r.add \cap Baseline = {}
  BY DEF Fromhaccp_p3, Baseline, Tables, Cols
<1> QED BY Parts, <1>1, <1>2, <1>3, <1>4, <1>5, <1>6, <1>7, <1>8, <1>9,
          <1>10

(* None adds what the models do not have, but for what 0047 takes away. *)
LEMMA AllModelled == \A r \in Revisions :
                        r.add \subseteq TenantModels \cup R0047.drop
<1> USE FormsAre, TheDrop DEF Form
<1>1. \A r \in From0001 : r.add \subseteq TenantModels \cup R0047.drop
  BY DEF From0001, Tables, Cols, TenantModels,
         CustomersModels, ConfigModels1, ConfigModels2, AuthModels, AllergenModels1,
         AllergenModels2, ImageModels, CatalogModels1, CatalogModels2,
         DeliveryModels1, DeliveryModels2, DeliveryModels3, FavoritesModels,
         HaccpFoundationModels1, HaccpFoundationModels2,
         HaccpFoundationModels3, HaccpModels1, HaccpModels2, StaffModels,
         KdsModels, LoyaltyModels, LoyaltyConfigModels1,
         LoyaltyConfigModels2, DevicesModels, OrdersModels1, OrdersModels2,
         PaymentsModels, PromotionsModels, StockModels, StockSiteModels1,
         StockSiteModels2
<1>2. \A r \in From0009b : r.add \subseteq TenantModels \cup R0047.drop
  BY DEF From0009b, Tables, Cols, TenantModels,
         CustomersModels, ConfigModels1, ConfigModels2, AuthModels, AllergenModels1,
         AllergenModels2, ImageModels, CatalogModels1, CatalogModels2,
         DeliveryModels1, DeliveryModels2, DeliveryModels3, FavoritesModels,
         HaccpFoundationModels1, HaccpFoundationModels2,
         HaccpFoundationModels3, HaccpModels1, HaccpModels2, StaffModels,
         KdsModels, LoyaltyModels, LoyaltyConfigModels1,
         LoyaltyConfigModels2, DevicesModels, OrdersModels1, OrdersModels2,
         PaymentsModels, PromotionsModels, StockModels, StockSiteModels1,
         StockSiteModels2
<1>3. \A r \in From0019 : r.add \subseteq TenantModels \cup R0047.drop
  BY DEF From0019, Tables, Cols, TenantModels,
         CustomersModels, ConfigModels1, ConfigModels2, AuthModels, AllergenModels1,
         AllergenModels2, ImageModels, CatalogModels1, CatalogModels2,
         DeliveryModels1, DeliveryModels2, DeliveryModels3, FavoritesModels,
         HaccpFoundationModels1, HaccpFoundationModels2,
         HaccpFoundationModels3, HaccpModels1, HaccpModels2, StaffModels,
         KdsModels, LoyaltyModels, LoyaltyConfigModels1,
         LoyaltyConfigModels2, DevicesModels, OrdersModels1, OrdersModels2,
         PaymentsModels, PromotionsModels, StockModels, StockSiteModels1,
         StockSiteModels2
<1>4. \A r \in From0028 : r.add \subseteq TenantModels \cup R0047.drop
  BY DEF From0028, Tables, Cols, TenantModels,
         CustomersModels, ConfigModels1, ConfigModels2, AuthModels, AllergenModels1,
         AllergenModels2, ImageModels, CatalogModels1, CatalogModels2,
         DeliveryModels1, DeliveryModels2, DeliveryModels3, FavoritesModels,
         HaccpFoundationModels1, HaccpFoundationModels2,
         HaccpFoundationModels3, HaccpModels1, HaccpModels2, StaffModels,
         KdsModels, LoyaltyModels, LoyaltyConfigModels1,
         LoyaltyConfigModels2, DevicesModels, OrdersModels1, OrdersModels2,
         PaymentsModels, PromotionsModels, StockModels, StockSiteModels1,
         StockSiteModels2
<1>5. \A r \in From0037 : r.add \subseteq TenantModels \cup R0047.drop
  BY DEF From0037, Tables, Cols, TenantModels,
         CustomersModels, ConfigModels1, ConfigModels2, AuthModels, AllergenModels1,
         AllergenModels2, ImageModels, CatalogModels1, CatalogModels2,
         DeliveryModels1, DeliveryModels2, DeliveryModels3, FavoritesModels,
         HaccpFoundationModels1, HaccpFoundationModels2,
         HaccpFoundationModels3, HaccpModels1, HaccpModels2, StaffModels,
         KdsModels, LoyaltyModels, LoyaltyConfigModels1,
         LoyaltyConfigModels2, DevicesModels, OrdersModels1, OrdersModels2,
         PaymentsModels, PromotionsModels, StockModels, StockSiteModels1,
         StockSiteModels2
<1>6. \A r \in From0046 : r.add \subseteq TenantModels \cup R0047.drop
  BY DEF From0046, Tables, Cols, TenantModels,
         CustomersModels, ConfigModels1, ConfigModels2, AuthModels, AllergenModels1,
         AllergenModels2, ImageModels, CatalogModels1, CatalogModels2,
         DeliveryModels1, DeliveryModels2, DeliveryModels3, FavoritesModels,
         HaccpFoundationModels1, HaccpFoundationModels2,
         HaccpFoundationModels3, HaccpModels1, HaccpModels2, StaffModels,
         KdsModels, LoyaltyModels, LoyaltyConfigModels1,
         LoyaltyConfigModels2, DevicesModels, OrdersModels1, OrdersModels2,
         PaymentsModels, PromotionsModels, StockModels, StockSiteModels1,
         StockSiteModels2
<1>7. \A r \in From0055 : r.add \subseteq TenantModels \cup R0047.drop
  BY DEF From0055, Tables, Cols, TenantModels,
         CustomersModels, ConfigModels1, ConfigModels2, AuthModels, AllergenModels1,
         AllergenModels2, ImageModels, CatalogModels1, CatalogModels2,
         DeliveryModels1, DeliveryModels2, DeliveryModels3, FavoritesModels,
         HaccpFoundationModels1, HaccpFoundationModels2,
         HaccpFoundationModels3, HaccpModels1, HaccpModels2, StaffModels,
         KdsModels, LoyaltyModels, LoyaltyConfigModels1,
         LoyaltyConfigModels2, DevicesModels, OrdersModels1, OrdersModels2,
         PaymentsModels, PromotionsModels, StockModels, StockSiteModels1,
         StockSiteModels2
<1>8. \A r \in From0063 : r.add \subseteq TenantModels \cup R0047.drop
  BY DEF From0063, Tables, Cols, TenantModels,
         CustomersModels, ConfigModels1, ConfigModels2, AuthModels, AllergenModels1,
         AllergenModels2, ImageModels, CatalogModels1, CatalogModels2,
         DeliveryModels1, DeliveryModels2, DeliveryModels3, FavoritesModels,
         HaccpFoundationModels1, HaccpFoundationModels2,
         HaccpFoundationModels3, HaccpModels1, HaccpModels2, StaffModels,
         KdsModels, LoyaltyModels, LoyaltyConfigModels1,
         LoyaltyConfigModels2, DevicesModels, OrdersModels1, OrdersModels2,
         PaymentsModels, PromotionsModels, StockModels, StockSiteModels1,
         StockSiteModels2
<1>9. \A r \in From0072 : r.add \subseteq TenantModels \cup R0047.drop
  BY DEF From0072, Tables, Cols, TenantModels,
         CustomersModels, ConfigModels1, ConfigModels2, AuthModels, AllergenModels1,
         AllergenModels2, ImageModels, CatalogModels1, CatalogModels2,
         DeliveryModels1, DeliveryModels2, DeliveryModels3, FavoritesModels,
         HaccpFoundationModels1, HaccpFoundationModels2,
         HaccpFoundationModels3, HaccpModels1, HaccpModels2, StaffModels,
         KdsModels, LoyaltyModels, LoyaltyConfigModels1,
         LoyaltyConfigModels2, DevicesModels, OrdersModels1, OrdersModels2,
         PaymentsModels, PromotionsModels, StockModels, StockSiteModels1,
         StockSiteModels2
<1>10. \A r \in Fromhaccp_p3 : r.add \subseteq TenantModels \cup R0047.drop
  BY DEF Fromhaccp_p3, Tables, Cols, TenantModels,
         CustomersModels, ConfigModels1, ConfigModels2, AuthModels, AllergenModels1,
         AllergenModels2, ImageModels, CatalogModels1, CatalogModels2,
         DeliveryModels1, DeliveryModels2, DeliveryModels3, FavoritesModels,
         HaccpFoundationModels1, HaccpFoundationModels2,
         HaccpFoundationModels3, HaccpModels1, HaccpModels2, StaffModels,
         KdsModels, LoyaltyModels, LoyaltyConfigModels1,
         LoyaltyConfigModels2, DevicesModels, OrdersModels1, OrdersModels2,
         PaymentsModels, PromotionsModels, StockModels, StockSiteModels1,
         StockSiteModels2
<1> QED BY Parts, <1>1, <1>2, <1>3, <1>4, <1>5, <1>6, <1>7, <1>8, <1>9,
          <1>10

(* No two have anything in common. *)
LEMMA AllDiffer == \A r \in Revisions, q \in Revisions : r = q \/ Differ(r, q)
<1> USE FormsAre, TheDrop DEF Form
<1>1. \A r \in Revisions, q \in From0001 : r = q \/ Differ(r, q)
  BY SMTT(60) DEF From0001, Differ, Revisions, Tables, Cols
<1>2. \A r \in Revisions, q \in From0009b : r = q \/ Differ(r, q)
  BY SMTT(60) DEF From0009b, Differ, Revisions, Tables, Cols
<1>3. \A r \in Revisions, q \in From0019 : r = q \/ Differ(r, q)
  BY SMTT(60) DEF From0019, Differ, Revisions, Tables, Cols
<1>4. \A r \in Revisions, q \in From0028 : r = q \/ Differ(r, q)
  BY SMTT(60) DEF From0028, Differ, Revisions, Tables, Cols
<1>5. \A r \in Revisions, q \in From0037 : r = q \/ Differ(r, q)
  BY SMTT(60) DEF From0037, Differ, Revisions, Tables, Cols
<1>6. \A r \in Revisions, q \in From0046 : r = q \/ Differ(r, q)
  BY SMTT(60) DEF From0046, Differ, Revisions, Tables, Cols
<1>7. \A r \in Revisions, q \in From0055 : r = q \/ Differ(r, q)
  BY SMTT(60) DEF From0055, Differ, Revisions, Tables, Cols
<1>8. \A r \in Revisions, q \in From0063 : r = q \/ Differ(r, q)
  BY SMTT(60) DEF From0063, Differ, Revisions, Tables, Cols
<1>9. \A r \in Revisions, q \in From0072 : r = q \/ Differ(r, q)
  BY SMTT(60) DEF From0072, Differ, Revisions, Tables, Cols
<1>10. \A r \in Revisions, q \in Fromhaccp_p3 : r = q \/ Differ(r, q)
  BY SMTT(60) DEF Fromhaccp_p3, Differ, Revisions, Tables, Cols
<1> QED BY Parts, <1>1, <1>2, <1>3, <1>4, <1>5, <1>6, <1>7, <1>8, <1>9,
          <1>10

(* What the models have, the baseline or a revision has. *)
LEMMA ModelsBuilt ==
    /\ CustomersModels \subseteq R0062.add
    /\ ConfigModels1 \subseteq R0009a.add \cup R0015.add \cup R0020.add \cup
            R0026.add \cup R0033.add \cup R0039.add \cup R0052.add \cup
            R0059.add \cup R0060.add \cup R0061.add \cup R0071.add
    /\ ConfigModels2 \subseteq R0009a.add \cup R0012.add \cup R0016.add
    /\ AuthModels \subseteq Baseline \cup R0018.add \cup R0019.add \cup R0021.add
            \cup R0030.add \cup R0039.add \cup R0062.add \cup R0066.add
    /\ AllergenModels1 \subseteq R0009b.add \cup R0013.add
    /\ AllergenModels2 \subseteq R0009b.add
    /\ ImageModels \subseteq R0006.add
    /\ CatalogModels1 \subseteq Baseline \cup R0022.add \cup R0035.add \cup
            R0037.add \cup R0040.add \cup R0047.add \cup R0067.add
    /\ CatalogModels2 \subseteq R0022.add \cup R0046.add \cup R0047.add \cup
            R0080.add
    /\ DeliveryModels1 \subseteq Baseline \cup R0036.add \cup R0038.add \cup
            R0074.add \cup R0076.add \cup R0077.add
    /\ DeliveryModels2 \subseteq R0076.add \cup R0077.add \cup R0078.add \cup
            R0079.add
    /\ DeliveryModels3 \subseteq R0077.add \cup R0078.add
    /\ FavoritesModels \subseteq R0053.add
    /\ HaccpFoundationModels1 \subseteq Rhaccp_p1.add
    /\ HaccpFoundationModels2 \subseteq Rhaccp_p1.add
    /\ HaccpFoundationModels3 \subseteq Rhaccp_p1.add
    /\ HaccpModels1 \subseteq R0051.add
    /\ HaccpModels2 \subseteq R0051.add
    /\ StaffModels \subseteq R0041.add \cup R0042.add \cup R0074.add
    /\ KdsModels \subseteq R0049.add \cup R0072.add
    /\ LoyaltyModels \subseteq Baseline \cup R0028.add
    /\ LoyaltyConfigModels1 \subseteq R0009c.add \cup R0028.add
    /\ LoyaltyConfigModels2 \subseteq R0009c.add
    /\ DevicesModels \subseteq R0008.add
    /\ OrdersModels1 \subseteq Baseline \cup R0004.add \cup R0023.add \cup
            R0034.add \cup R0035.add \cup R0043.add \cup R0063.add \cup
            R0073.add \cup R0077.add \cup R0081.add
    /\ OrdersModels2 \subseteq R0048.add
    /\ PaymentsModels \subseteq Baseline \cup R0007.add \cup R0027.add \cup
            R0031.add \cup R0035.add \cup R0075.add
    /\ PromotionsModels \subseteq Baseline \cup R0009c.add \cup R0029.add \cup
            R0074.add
    /\ StockModels \subseteq Baseline \cup R0005.add \cup R0025.add \cup R0039.add
            \cup R0067.add \cup R0068.add \cup R0070.add
    /\ StockSiteModels1 \subseteq Rhaccp_p1.add
    /\ StockSiteModels2 \subseteq Rhaccp_p1.add
<1> USE FormsAre, TheDrop DEF Form
<1>1. CustomersModels \subseteq R0062.add
  BY DEF CustomersModels, Tables, Cols
<1>2. ConfigModels1 \subseteq R0009a.add \cup R0015.add \cup R0020.add \cup
          R0026.add \cup R0033.add \cup R0039.add \cup R0052.add \cup
          R0059.add \cup R0060.add \cup R0061.add \cup R0071.add
  BY DEF ConfigModels1, Tables, Cols
<1>3. ConfigModels2 \subseteq R0009a.add \cup R0012.add \cup R0016.add
  BY DEF ConfigModels2, Tables, Cols
<1>4. AuthModels \subseteq Baseline \cup R0018.add \cup R0019.add \cup R0021.add
          \cup R0030.add \cup R0039.add \cup R0062.add \cup R0066.add
  BY DEF AuthModels, Tables, Cols, Baseline
<1>5. AllergenModels1 \subseteq R0009b.add \cup R0013.add
  BY DEF AllergenModels1, Tables, Cols
<1>6. AllergenModels2 \subseteq R0009b.add
  BY DEF AllergenModels2, Tables, Cols
<1>7. ImageModels \subseteq R0006.add
  BY DEF ImageModels, Tables, Cols
<1>8. CatalogModels1 \subseteq Baseline \cup R0022.add \cup R0035.add \cup
          R0037.add \cup R0040.add \cup R0047.add \cup R0067.add
  BY DEF CatalogModels1, Tables, Cols, Baseline
<1>9. CatalogModels2 \subseteq R0022.add \cup R0046.add \cup R0047.add \cup
          R0080.add
  BY DEF CatalogModels2, Tables, Cols
<1>10. DeliveryModels1 \subseteq Baseline \cup R0036.add \cup R0038.add \cup
          R0074.add \cup R0076.add \cup R0077.add
  BY DEF DeliveryModels1, Tables, Cols, Baseline
<1>11. DeliveryModels2 \subseteq R0076.add \cup R0077.add \cup R0078.add \cup
          R0079.add
  BY DEF DeliveryModels2, Tables, Cols
<1>12. DeliveryModels3 \subseteq R0077.add \cup R0078.add
  BY DEF DeliveryModels3, Tables, Cols
<1>13. FavoritesModels \subseteq R0053.add
  BY DEF FavoritesModels, Tables, Cols
<1>14. HaccpFoundationModels1 \subseteq Rhaccp_p1.add
  BY DEF HaccpFoundationModels1, Tables, Cols
<1>15. HaccpFoundationModels2 \subseteq Rhaccp_p1.add
  BY DEF HaccpFoundationModels2, Tables, Cols
<1>16. HaccpFoundationModels3 \subseteq Rhaccp_p1.add
  BY DEF HaccpFoundationModels3, Tables, Cols
<1>17. HaccpModels1 \subseteq R0051.add
  BY DEF HaccpModels1, Tables, Cols
<1>18. HaccpModels2 \subseteq R0051.add
  BY DEF HaccpModels2, Tables, Cols
<1>19. StaffModels \subseteq R0041.add \cup R0042.add \cup R0074.add
  BY DEF StaffModels, Tables, Cols
<1>20. KdsModels \subseteq R0049.add \cup R0072.add
  BY DEF KdsModels, Tables, Cols
<1>21. LoyaltyModels \subseteq Baseline \cup R0028.add
  BY DEF LoyaltyModels, Tables, Cols, Baseline
<1>22. LoyaltyConfigModels1 \subseteq R0009c.add \cup R0028.add
  BY DEF LoyaltyConfigModels1, Tables, Cols
<1>23. LoyaltyConfigModels2 \subseteq R0009c.add
  BY DEF LoyaltyConfigModels2, Tables, Cols
<1>24. DevicesModels \subseteq R0008.add
  BY DEF DevicesModels, Tables, Cols
<1>25. OrdersModels1 \subseteq Baseline \cup R0004.add \cup R0023.add \cup
          R0034.add \cup R0035.add \cup R0043.add \cup R0063.add \cup
          R0073.add \cup R0077.add \cup R0081.add
  BY DEF OrdersModels1, Tables, Cols, Baseline
<1>26. OrdersModels2 \subseteq R0048.add
  BY DEF OrdersModels2, Tables, Cols
<1>27. PaymentsModels \subseteq Baseline \cup R0007.add \cup R0027.add \cup
          R0031.add \cup R0035.add \cup R0075.add
  BY DEF PaymentsModels, Tables, Cols, Baseline
<1>28. PromotionsModels \subseteq Baseline \cup R0009c.add \cup R0029.add \cup
          R0074.add
  BY DEF PromotionsModels, Tables, Cols, Baseline
<1>29. StockModels \subseteq Baseline \cup R0005.add \cup R0025.add \cup R0039.add
          \cup R0067.add \cup R0068.add \cup R0070.add
  BY DEF StockModels, Tables, Cols, Baseline
<1>30. StockSiteModels1 \subseteq Rhaccp_p1.add
  BY DEF StockSiteModels1, Tables, Cols
<1>31. StockSiteModels2 \subseteq Rhaccp_p1.add
  BY DEF StockSiteModels2, Tables, Cols
<1> QED BY <1>1, <1>2, <1>3, <1>4, <1>5, <1>6, <1>7, <1>8, <1>9, <1>10,
          <1>11, <1>12, <1>13, <1>14, <1>15, <1>16, <1>17, <1>18, <1>19,
          <1>20, <1>21, <1>22, <1>23, <1>24, <1>25, <1>26, <1>27, <1>28,
          <1>29, <1>30, <1>31

LEMMA PublicBuilt == PublicModels \subseteq R0050.public \cup R0054.public \cup R0055.public
BY FormsAre DEF Form, PublicModels, SuperAdminModels1, SuperAdminModels2, Tables, Cols

LEMMA BaselineModelled == Baseline \subseteq TenantModels
BY FormsAre DEF Form, Baseline, Tables, Cols, TenantModels,
       CustomersModels, ConfigModels1, ConfigModels2, AuthModels, AllergenModels1,
       AllergenModels2, ImageModels, CatalogModels1, CatalogModels2,
       DeliveryModels1, DeliveryModels2, DeliveryModels3, FavoritesModels,
       HaccpFoundationModels1, HaccpFoundationModels2,
       HaccpFoundationModels3, HaccpModels1, HaccpModels2, StaffModels,
       KdsModels, LoyaltyModels, LoyaltyConfigModels1, LoyaltyConfigModels2,
       DevicesModels, OrdersModels1, OrdersModels2, PaymentsModels,
       PromotionsModels, StockModels, StockSiteModels1, StockSiteModels2

HIDE DEF Allergens0009b, Loyalty0009c, Limits0009c, Orders0035, Catalog0035,
    Staff0041, Alerts0041, Screens0049, Checks0051, Records0051, Costs0067,
    Zones0074, Drivers0076, Sites_p1, Sessions_p1, Evidence_p1,
    Positions_p1, Proofs_p1, R0001, R0002, R0003, R0004, R0005, R0006,
    R0007, R0008, R0009a, R0009b, R0009c, R0012, R0013, R0014, R0015, R0016,
    R0017, R0018, R0019, R0020, R0021, R0022, R0023, R0024, R0025, R0026,
    R0027, R0028, R0029, R0030, R0031, R0032, R0033, R0034, R0035, R0036,
    R0037, R0038, R0039, R0040, R0041, R0042, R0043, R0044, R0045, R0046,
    R0048, R0049, R0050, R0051, R0052, R0053, R0054, R0055, R0056, R0057,
    R0058, R0059, R0060, R0061, R0062, R0064, R0065, R0063, R0066, R0067,
    R0068, R0069, R0070, R0071, R0072, R0073, R0074, R0075, R0076, R0077,
    R0078, R0079, Rhaccp_p1, Rhaccp_p3, Rhaccp_merge, R0080, R0081

(* The revisions taken together, but for the drop, are the models of the   *)
(* code, and those of public are there.                                    *)
LEMMA AllBuilt ==
    /\ (Baseline \cup UNION {r.add : r \in Revisions}) \ R0047.drop = TenantModels
    /\ PublicModels \subseteq UNION {r.public : r \in Revisions}
<1> DEFINE Built == Baseline \cup UNION {r.add : r \in Revisions}
<1>1. \A r \in Revisions : r.add \subseteq Built
  OBVIOUS
<1>2. TenantModels \subseteq Built
  BY <1>1, ModelsBuilt DEF TenantModels, Revisions
<1>3. Built \ R0047.drop \subseteq TenantModels
  BY AllModelled, BaselineModelled
<1>4. R0050 \in Revisions /\ R0054 \in Revisions /\ R0055 \in Revisions
  BY DEF Revisions
<1> QED BY <1>2, <1>3, <1>4, Dropped, PublicBuilt

(* What the commands rely on. *)
LEMMA Undone ==
    ASSUME NEW r \in Revisions
    PROVE  /\ r.undo = r.add /\ r.strict \subseteq r.add
           /\ r.publicStrict \subseteq r.public
           /\ r # R0047 => r.drop = {}
BY AllPlain, TheDrop DEF Plain

-----------------------------------------------------------------------------
(***************************************************************************)
(* The commands.  What is applied is closed under parents, as the revision *)
(* that a downgrade takes back has no children applied.                    *)
(***************************************************************************)
Rooted(s) == s \subseteq Ids /\ \A r \in Of(s) : r.parents \subseteq s

LEMMA OfMore ==
    ASSUME NEW r \in Revisions, NEW s
    PROVE  Of(s \cup {r.id}) = Of(s) \cup {r}
BY AllDiffer DEF Of, Differ

LEMMA OfLess ==
    ASSUME NEW r \in Revisions, NEW s
    PROVE  Of(s \ {r.id}) = Of(s) \ {r}
BY AllDiffer DEF Of, Differ

(* 0046 comes before 0047. *)
LEMMA DropAfter ==
    ASSUME NEW s, Rooted(s), R0047 \in Of(s)
    PROVE  R0046 \in Of(s)
BY TheDrop, Dropped DEF Rooted, Of

LEMMA UpgradeMigrates ==
    ASSUME NEW s, Rooted(s), NEW r \in Revisions, r.id \notin s
    PROVE  (Migrated(s) \cup r.add) \ r.drop = Migrated(s \cup {r.id})
<1> DEFINE A == UNION {q.add : q \in Of(s)}
           D == UNION {q.drop : q \in Of(s)}
<1>1. /\ Migrated(s) = (Baseline \cup A) \ D
      /\ Migrated(s \cup {r.id}) = (Baseline \cup A \cup r.add) \ (D \cup r.drop)
  BY OfMore DEF Migrated
<1>2. r.add \cap D = {}
  <2> SUFFICES ASSUME NEW q \in Of(s), NEW x \in q.drop, x \in r.add PROVE FALSE
    OBVIOUS
  <2>1. q \in Revisions /\ q = R0047
    BY Undone DEF Of
  <2>2. R0046 \in Of(s) /\ x \in R0046.add
    BY <2>1, DropAfter, Dropped
  <2>3. r = R0046
    BY <2>2, Dropped, AllDiffer DEF Differ
  <2> QED BY <2>2, <2>3 DEF Of
<1> QED BY <1>1, <1>2

LEMMA DowngradeMigrates ==
    ASSUME NEW s, Rooted(s), NEW r \in Of(s)
    PROVE  (Migrated(s) \ r.undo) \cup r.drop = Migrated(s \ {r.id})
<1> DEFINE A == UNION {q.add : q \in Of(s) \ {r}}
           D == UNION {q.drop : q \in Of(s) \ {r}}
<1>0. r \in Revisions /\ r.undo = r.add
  BY Undone DEF Of
<1>1. /\ Migrated(s) = (Baseline \cup A \cup r.add) \ (D \cup r.drop)
      /\ Migrated(s \ {r.id}) = (Baseline \cup A) \ D
  BY <1>0, OfLess DEF Migrated
<1>2. r.add \cap (Baseline \cup A) = {}
  BY <1>0, AllNew, AllDiffer DEF Differ, Of
<1>3. r.drop \subseteq A \ D
  <2>1. CASE r = R0047
    <3>1. D = {}
      BY <2>1, Undone DEF Of
    <3>2. R0046 \in Of(s) \ {r}
      BY <2>1, DropAfter, TheDrop, Dropped
    <3> QED BY <2>1, <3>1, <3>2, Dropped
  <2>2. CASE r # R0047
    BY <1>0, <2>2, Undone
  <2> QED BY <2>1, <2>2
<1> QED BY <1>0, <1>1, <1>2, <1>3

(* At the last revision a schema is what the models create. *)
LEMMA ReleasedIs == \A s : Released(s) = Migrated(s)
<1> SUFFICES Migrated(Ids) = TenantModels
  BY DEF Released
<1>1. Of(Ids) = Revisions
  BY DEF Of, Ids
<1>2. UNION {r.drop : r \in Revisions} = R0047.drop
  BY Undone, Dropped
<1> QED BY <1>1, <1>2, AllBuilt DEF Migrated

(***************************************************************************)
(* Every schema is where the revisions applied have brought it, and so is  *)
(* public; while no tenant is created during a deployment.                 *)
(***************************************************************************)
PublicOf(S) == UNION {r.public : r \in S}

SchemaInv ==
    /\ Rooted(applied)
    /\ public = PublicOf(Of(applied))
    /\ schema = [t \in Tenant |-> schema[t]]
    /\ InStep => \A t \in Tenant : schema[t] \in {{}, Migrated(applied)}

LEMMA PublicIs ==
    \A S, x : x \in PublicOf(S) <=> \E r \in S : x \in r.public
BY DEF PublicOf

LEMMA UpgradeStep ==
    ASSUME SchemaInv, NEW r \in Revisions, upgrade(r)
    PROVE  SchemaInv'
<1>1. /\ r.id \notin applied /\ r.parents \subseteq applied
      /\ applied' = applied \cup {r.id}
      /\ public' = public \cup r.public
      /\ \A t \in Tenant : schema'[t] \in {{}, (schema[t] \cup r.add) \ r.drop}
      /\ schema' = [t \in Tenant |-> schema'[t]]
      /\ \A t \in Tenant : schema[t] = {} => schema'[t] = {}
  BY DEF upgrade, Ready, Present
<1>2. Of(applied') = Of(applied) \cup {r}
  BY <1>1, OfMore
<1>3. Rooted(applied')
  BY <1>1, <1>2 DEF SchemaInv, Rooted, Ids
<1>4. public' = PublicOf(Of(applied'))
  <2>1. \A x : x \in public' <=> \E q \in Of(applied') : x \in q.public
    BY <1>1, <1>2, PublicIs DEF SchemaInv
  <2> QED BY <2>1, PublicIs
<1>5. ASSUME InStep, NEW t \in Tenant
      PROVE  schema'[t] \in {{}, Migrated(applied')}
  <2>1. (Migrated(applied) \cup r.add) \ r.drop = Migrated(applied')
    BY <1>1, UpgradeMigrates DEF SchemaInv
  <2> QED BY <1>1, <1>5, <2>1 DEF SchemaInv
<1> QED BY <1>1, <1>3, <1>4, <1>5 DEF SchemaInv

LEMMA DowngradeStep ==
    ASSUME SchemaInv, NEW r \in Revisions, downgrade(r)
    PROVE  SchemaInv'
<1>1. /\ r \in Of(applied) /\ \A c \in Of(applied) : r.id \notin c.parents
      /\ applied' = applied \ {r.id}
      /\ public' = public \ r.public
      /\ \A t \in Tenant : schema'[t] \in {{}, (schema[t] \ r.undo) \cup r.drop}
      /\ schema' = [t \in Tenant |-> schema'[t]]
      /\ \A t \in Tenant : schema[t] = {} => schema'[t] = {}
  BY DEF downgrade, Present, Of
<1>2. Of(applied') = Of(applied) \ {r}
  BY <1>1, OfLess
<1>3. Rooted(applied')
  BY <1>1, <1>2 DEF SchemaInv, Rooted
<1>4. \A q \in Of(applied) : q = r \/ q.public \cap r.public = {}
  BY AllDiffer DEF Of, Differ
<1>5. public' = PublicOf(Of(applied'))
  <2>1. Of(applied) = Of(applied') \cup {r}
    BY <1>1, <1>2
  <2>2. public = PublicOf(Of(applied')) \cup r.public
    BY <2>1, PublicIs DEF SchemaInv
  <2>3. \A q \in Of(applied') : q.public \cap r.public = {}
    BY <1>2, <1>4
  <2>4. \A x : x \in public' <=> \E q \in Of(applied') : x \in q.public
    BY <1>1, <2>2, <2>3, PublicIs
  <2> QED BY <2>4, PublicIs
<1>6. ASSUME InStep, NEW t \in Tenant
      PROVE  schema'[t] \in {{}, Migrated(applied')}
  <2>1. (Migrated(applied) \ r.undo) \cup r.drop = Migrated(applied')
    BY <1>1, DowngradeMigrates DEF SchemaInv
  <2> QED BY <1>1, <1>6, <2>1 DEF SchemaInv
<1> QED BY <1>1, <1>3, <1>5, <1>6 DEF SchemaInv

LEMMA ProvisionStep ==
    ASSUME SchemaInv, NEW t \in Tenant, provision_tenant(t)
    PROVE  SchemaInv'
<1>1. /\ applied' = applied /\ public' = public
      /\ InStep => code = applied
      /\ schema' = [schema EXCEPT ![t] = Released(code)]
  BY DEF provision_tenant
<1>2. schema = [u \in Tenant |-> schema[u]]
  BY DEF SchemaInv
<1>3. /\ schema' = [u \in Tenant |-> schema'[u]]
      /\ \A u \in Tenant : schema'[u] \in {schema[u], Migrated(code)}
  BY <1>1, <1>2, ReleasedIs
<1> QED BY <1>1, <1>3 DEF SchemaInv

THEOREM TenantsSchemas == Spec => []SchemaInv
<1>1. Init => SchemaInv
  BY PublicIs DEF Init, SchemaInv, Rooted, Of
<1>2. SchemaInv /\ [Next]_vars => SchemaInv'
  <2> SUFFICES ASSUME SchemaInv, [Next]_vars PROVE SchemaInv'
    OBVIOUS
  <2>1. CASE \E r \in Revisions : upgrade(r) \/ downgrade(r)
    BY <2>1, UpgradeStep, DowngradeStep
  <2>2. CASE \E t \in Tenant : provision_tenant(t)
    BY <2>2, ProvisionStep
  <2>3. CASE start \/ \E t \in Tenant : order_menu(t)
    BY <2>3 DEF start, order_menu, SchemaInv
  <2>4. CASE UNCHANGED vars
    BY <2>4 DEF vars, SchemaInv
  <2> QED BY <2>1, <2>2, <2>3, <2>4 DEF Next
<1> QED BY <1>1, <1>2, PTL DEF Spec

(* Every tenant has the structure of the revision the database is at,      *)
(* whenever it was created and whatever was taken back (alembic/env.py,    *)
(* provision_tenant), and public has the platform's tables.                *)
THEOREM TenantsFollowRevision == Spec => [](InStep => SchemaFollowsRevision)
<1>1. SchemaInv => (InStep => SchemaFollowsRevision)
  <2> SUFFICES ASSUME SchemaInv, InStep PROVE SchemaFollowsRevision
    OBVIOUS
  <2>1. \A t \in Present : schema[t] = Released(applied)
    BY ReleasedIs DEF SchemaInv, Present
  <2>2. applied = Ids => PublicModels \subseteq public
    BY AllBuilt DEF SchemaInv, Of, Ids, PublicOf
  <2> QED BY <2>1, <2>2 DEF SchemaFollowsRevision
<1> QED BY <1>1, TenantsSchemas, PTL

(* No schema, of a tenant or of the platform, has already what the next    *)
(* revision creates, so none rolls the migration of the others back.       *)
THEOREM TenantsNeverBlocked == Spec => [](InStep => NeverBlocked)
<1>1. ASSUME SchemaInv, InStep, NEW r \in Revisions, Ready(r) PROVE Fits(r)
  <2>1. \A q \in Of(applied) : /\ r.add \cap q.add = {}
                               /\ r.public \cap q.public = {}
    BY <1>1, AllDiffer DEF Of, Differ, Ready
  <2>2. Migrated(applied) \cap r.strict = {}
    BY <2>1, AllNew, Undone DEF Migrated
  <2>3. \A t \in Present : schema[t] \cap r.strict = {}
    BY <1>1, <2>2 DEF SchemaInv, Present
  <2>4. public \cap r.publicStrict = {}
    BY <1>1, <2>1, Undone, PublicIs DEF SchemaInv
  <2> QED BY <2>3, <2>4 DEF Fits
<1>2. SchemaInv => (InStep => NeverBlocked)
  BY <1>1 DEF NeverBlocked
<1> QED BY <1>2, TenantsSchemas, PTL
=============================================================================
