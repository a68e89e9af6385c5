----------------------------- MODULE Migrations -----------------------------
(***************************************************************************)
(* The revisions under alembic/versions, as what each one does to the      *)
(* schema of a tenant and to public.                                       *)
(*                                                                         *)
(* An object is a table, <<table, "*">>, or a column that was added to the *)
(* table later, <<table, column>>; a table stands for the columns it was   *)
(* created with.  Types, defaults, constraints and indexes are left out,   *)
(* and so is what a revision does to rows, unless it can make it fail.     *)
(***************************************************************************)

Tables(ts)  == {<<t, "*">> : t \in ts}
Cols(t, cs) == {<<t, c>> : c \in cs}

(* A revision adds objects to every tenant and to public, takes others     *)
(* away, and its downgrade removes undo and brings drop back.  It fails    *)
(* when an object of strict is there already: op.create_table and          *)
(* op.add_column raise, IF NOT EXISTS and the _exists helpers of the       *)
(* guarded revisions skip.  Every downgrade in the directory removes       *)
(* exactly what its upgrade adds.                                          *)
Strict(id, parents, add) ==
    [id |-> id, parents |-> parents, add |-> add, strict |-> add, drop |-> {},
     undo |-> add, public |-> {}, publicStrict |-> {}, forward |-> FALSE]
Nothing(id, parents)      == Strict(id, parents, {})
Guarded(id, parents, add) == [Strict(id, parents, add) EXCEPT !.strict = {}]
Both(id, parents, add, public) ==
    [Strict(id, parents, add) EXCEPT !.public = public, !.publicStrict = public]
PublicStrict(id, parents, public) == Both(id, parents, {}, public)
PublicGuarded(id, parents, public) ==
    [Nothing(id, parents) EXCEPT !.public = public]
ForwardOnly(id, parents, add) ==
    [Guarded(id, parents, add) EXCEPT !.forward = TRUE]

-----------------------------------------------------------------------------
(* The registry of the tenants. *)
R0001 == PublicStrict("0001", {},
    Tables({"tenant_configs", "tenants"}))
(* The tables of a tenant, still in public: see Baseline. *)
R0002 == PublicStrict("0002", {"0001"},
    Tables({"categories", "delivery_zones", "extras", "ingredients",
            "loyalty_accounts", "loyalty_transactions", "order_items",
            "order_status_history", "orders", "payments", "product_extras",
            "product_ingredients", "product_stock", "product_variants",
            "products", "promotions", "refresh_tokens", "stock_movements",
            "users", "variant_ingredients"}))
R0003 == PublicStrict("0003", {"0002"},
    Cols("refresh_tokens", {"token_lookup"}))
(* users in public, orders in every tenant. *)
R0004 == Both("0004", {"0003"},
    Cols("orders", {"promo_code"}),
    Cols("users", {"email_verification_expires_at",
            "email_verification_token", "email_verified_at"}))
R0005 == Strict("0005", {"0004"},
    Cols("ingredients", {"last_alert_sent_at"}))
R0006 == Strict("0006", {"0005"},
    Tables({"media_images"}))
R0007 == Strict("0007", {"0006"},
    Tables({"refunds"}))
R0008 == Strict("0008", {"0007"},
    Tables({"device_tokens"}))
R0009a == Strict("0009a", {"0008"},
    Tables({"business_hours", "exceptional_closures", "tenant_config"}))
Allergens0009b ==
    Tables({"allergen_definitions", "dietary_tags", "ingredient_allergens",
            "product_allergens", "product_dietary_tags"})
R0009b == Strict("0009b", {"0009a"}, Allergens0009b)
Loyalty0009c ==
    Tables({"loyalty_config", "loyalty_rewards", "loyalty_rules"})
Limits0009c ==
         Tables({"promo_code_usages"})
    \cup Cols("promotions", {"current_uses", "first_order_only", "max_uses",
            "max_uses_per_user"})
R0009c == Strict("0009c", {"0009b"}, Loyalty0009c \cup Limits0009c)
R0012 == Strict("0012", {"0009c"},
    Tables({"tenant_config_audits"}))
R0013 == Strict("0013", {"0012"},
    Tables({"allergen_change_audits"}))
(* Constraints only. *)
R0014 == Nothing("0014", {"0013"})
R0015 == Strict("0015", {"0014"},
    Cols("tenant_config", {"timezone"}))
R0016 == Strict("0016", {"0015"},
    Cols("tenant_config_audits", {"user_email"}))
R0017 == PublicStrict("0017", {"0016"},
    Cols("tenants", {"is_suspended", "suspended_at", "suspension_message"}))
R0018 == Strict("0018", {"0017"},
    Cols("users", {"must_change_password", "password_reset_expires_at",
            "password_reset_token"}))
R0019 == Strict("0019", {"0018"},
    Cols("refresh_tokens", {"ip_address", "user_agent"}))
R0020 == Strict("0020", {"0019"},
    Cols("tenant_config", {"scheduled_close_at"}))
R0021 == Strict("0021", {"0020"},
    Cols("users", {"mfa_backup_codes", "mfa_enabled", "mfa_secret"}))
R0022 == Strict("0022", {"0021"},
    Tables({"catalog_import_batches", "catalog_price_audits",
            "extra_ingredients", "product_recommendations"}))
R0023 == Strict("0023", {"0022"},
         Cols("order_items", {"extras_snapshot", "extras_total",
            "product_name_snapshot", "variant_name_snapshot"})
    \cup Cols("orders", {"delivery_zone_id", "estimated_delivery_at",
            "idempotency_key", "payment_status"}))
(* A constraint only. *)
R0024 == Nothing("0024", {"0023"})
R0025 == Strict("0025", {"0024"},
    Cols("stock_movements", {"user_id"}))
R0026 == Strict("0026", {"0025"},
    Cols("tenant_config", {"stock_alert_cooldown_hours"}))
R0027 == Guarded("0027", {"0026"},
         Cols("payments", {"expires_at", "provider_account_id"})
    \cup Cols("refunds", {"created_by_user_id", "failure_reason"}))
R0028 == Guarded("0028", {"0027"},
         Tables({"loyalty_point_reservations"})
    \cup Cols("loyalty_config", {"max_cumulative_multiplier",
            "points_to_euro_rate"})
    \cup Cols("loyalty_transactions", {"changed_by_user_id", "metadata",
            "order_id", "reservation_id", "reward_id", "source",
            "transaction_type"}))
R0029 == Guarded("0029", {"0028"},
         Tables({"promotion_campaigns", "promotion_target_categories",
            "promotion_target_products"})
    \cup Cols("promotions", {"campaign_id", "email_verified_required",
            "is_public", "is_stackable", "user_id"}))
R0030 == Strict("0030", {"0029"},
    Cols("users", {"phone"}))
R0031 == Guarded("0031", {"0030"},
    Tables({"processed_webhook_events"}))
(* Indexes only. *)
R0032 == Nothing("0032", {"0031"})
R0033 == Strict("0033", {"0032"},
    Cols("tenant_config", {"display_name", "font_family", "logo_url",
            "primary_color", "secondary_color"}))
R0034 == Strict("0034", {"0033"},
    Cols("orders", {"order_type"}))
Orders0035 ==
         Cols("order_items", {"preparation_station", "preparation_status",
            "prepared_at", "prepared_by_user_id"})
    \cup Cols("orders", {"created_by_user_id", "customer_name",
            "customer_phone", "source", "table_number"})
Catalog0035 ==
         Tables({"product_availability_overrides"})
    \cup Cols("categories", {"preparation_station"})
    \cup Cols("payments", {"amount_received", "created_by_user_id",
            "external_reference"})
    \cup Cols("products", {"preparation_station"})
R0035 == Guarded("0035", {"0034"}, Orders0035 \cup Catalog0035)
R0036 == Guarded("0036", {"0035"},
    Tables({"restaurant_delivery_settings"}))
R0037 == Guarded("0037", {"0036"},
    Cols("products", {"is_delivery_prohibited"}))
R0038 == Guarded("0038", {"0037"},
    Tables({"restaurant_delivery_settings_audits"}))
R0039 == Guarded("0039", {"0038"},
         Tables({"ingredient_batches", "stock_adjustment_requests"})
    \cup Cols("tenant_config", {"large_stock_adjustment_threshold",
            "print_config", "print_enabled"})
    \cup Cols("users", {"permissions"}))
R0040 == Guarded("0040", {"0039"},
    Cols("products", {"is_featured"}))
Staff0041 ==
    Tables({"employee_profiles", "establishments", "shifts",
            "time_clock_entries"})
Alerts0041 ==
    Tables({"establishment_hr_config", "hr_alerts",
            "time_clock_corrections"})
R0041 == Guarded("0041", {"0040"}, Staff0041 \cup Alerts0041)
R0042 == Guarded("0042", {"0041"},
    Cols("hr_alerts", {"establishment_id"}))
R0043 == Strict("0043", {"0042"},
    Cols("order_status_history", {"authority"}))
R0044 == PublicStrict("0044", {"0043"},
         Tables({"pos_connections"})
    \cup Cols("tenants", {"integration_mode"}))
R0045 == PublicStrict("0045", {"0044"},
    Cols("pos_connections", {"refresh_token_encrypted", "token_expires_at"}))
R0046 == Strict("0046", {"0045"},
         Tables({"catalog_snapshots", "product_overrides"})
    \cup Cols("product_overrides", {"connection_id", "external_product_id"}))
(* product_overrides is dropped and created again with another key. *)
R0047 ==
    [Strict("0047", {"0046"},
            Cols("product_overrides", {"product_id"})
            \cup Cols("products", {"external_product_id", "tax_rate"}))
        EXCEPT !.strict = Cols("products", {"external_product_id", "tax_rate"}),
               !.drop = Cols("product_overrides",
                             {"connection_id", "external_product_id"})]
R0048 == Strict("0048", {"0047"},
    Tables({"order_hub_transmissions", "processed_hub_order_events"}))
Screens0049 ==
    Tables({"kds_pairing_codes", "kds_remote_sessions", "kds_screens"})
R0049 == Guarded("0049", {"0048"}, Screens0049)
R0050 == PublicGuarded("0050", {"0049"},
    Tables({"super_admins"}))
Checks0051 ==
    Tables({"haccp_check_sessions", "haccp_cleaning_logs",
            "haccp_cleaning_tasks", "haccp_dlc_checks", "haccp_equipment",
            "haccp_temperature_logs"})
Records0051 ==
    Tables({"haccp_cooling_logs", "haccp_frying_oil_logs",
            "haccp_non_conformities", "haccp_reception_controls",
            "haccp_training_records"})
R0051 == Strict("0051", {"0050"}, Checks0051 \cup Records0051)
R0052 == Guarded("0052", {"0051"},
    Cols("tenant_config", {"haccp_frying_oil_enabled"}))
R0053 == Guarded("0053", {"0052"},
    Tables({"favorites"}))
R0054 == PublicGuarded("0054", {"0053"},
         Tables({"platform_audit_logs", "super_admin_recovery_codes",
            "super_admin_sessions"})
    \cup Cols("super_admins", {"auth_version", "mfa_enabled",
            "mfa_secret_encrypted"}))
R0055 == PublicGuarded("0055", {"0054"},
    Tables({"super_admin_impersonation_sessions"}))
(* Data only, and its downgrade does nothing: staff without a list of
   permissions are given the empty one. *)
R0056 == Nothing("0056", {"0055"})
(* Data only, and its downgrade does nothing: secrets are encrypted. *)
R0057 == Nothing("0057", {"0056"})
(* Data and foreign keys. *)
R0058 == Nothing("0058", {"0057"})
R0059 == Strict("0059", {"0058"},
    Cols("tenant_config", {"currency"}))
R0060 == Strict("0060", {"0059"},
    Cols("tenant_config", {"default_language"}))
R0061 == Strict("0061", {"0060"},
    Cols("tenant_config", {"contact_email", "contact_phone",
            "google_business_url", "instagram_url"}))
R0062 == Strict("0062", {"0061"},
         Tables({"admin_audit_logs", "customer_communications"})
    \cup Cols("users", {"marketing_email_opt_in", "marketing_push_opt_in"}))
(* Data of one tenant only. *)
R0064 == Nothing("0064", {"0062"})
(* Data of one tenant only. *)
R0065 == Nothing("0065", {"0064"})
R0063 == Strict("0063", {"0065"},
    Cols("orders", {"establishment_id"}))
(* Mutant: adds a column that 0030 has added. *)
R0066Again == Strict("0066", {"0063"},
    Cols("users", {"pending_profile_completion", "phone", "phone_e164",
            "phone_otp_attempts", "phone_otp_expires_at", "phone_otp_hash",
            "phone_verified_at"}))
R0066 == Strict("0066", {"0063"},
    Cols("users", {"pending_profile_completion", "phone_e164",
            "phone_otp_attempts", "phone_otp_expires_at", "phone_otp_hash",
            "phone_verified_at"}))
(* Duplicate lines of a recipe are merged before they are made unique. *)
Costs0067 ==
         Cols("extra_ingredients", {"quantity_unit"})
    \cup Cols("ingredients", {"purchase_price_per_unit", "purchase_unit"})
    \cup Cols("product_ingredients", {"quantity_unit"})
    \cup Cols("variant_ingredients", {"quantity_unit"})
R0067 == Strict("0067", {"0066"}, Costs0067)
R0068 == Strict("0068", {"0067"},
    Tables({"stock_recipe_audit_logs"}))
(* A comment on a column. *)
R0069 == Nothing("0069", {"0068"})
R0070 == Strict("0070", {"0069"},
    Cols("ingredient_batches", {"tertiary_started_at",
            "tertiary_use_within_hours"}))
R0071 == Strict("0071", {"0070"},
    Cols("tenant_config", {"haccp_dlc_gate_enabled"}))
R0072 == Guarded("0072", {"0071"},
    Cols("kds_screens", {"remote_enabled"}))
R0073 == Guarded("0073", {"0072"},
    Cols("orders", {"delivery_instructions", "delivery_lat", "delivery_lng"}))
Zones0074 ==
         Tables({"delivery_zone_rules"})
    \cup Cols("delivery_zones", {"establishment_id", "shape_kind",
            "shape_params"})
    \cup Cols("establishments", {"latitude", "longitude"})
    \cup Cols("promotions", {"free_delivery"})
R0074 == Guarded("0074", {"0073"}, Zones0074)
(* Mutant: a column is forgotten. *)
R0075Short == Guarded("0075", {"0074"},
    Cols("payments", {"captured_amount", "guarantee_terms_accepted_at",
            "guarantee_terms_version", "purpose", "settled_at",
            "settled_by_user_id"}))
R0075 == Guarded("0075", {"0074"},
    Cols("payments", {"captured_amount", "guarantee_terms_accepted_at",
            "guarantee_terms_version", "purpose", "settled_at",
            "settled_by_user_id", "settlement_note"}))
Drivers0076 ==
         Tables({"deliveries", "delivery_events", "delivery_runs",
            "driver_profiles"})
    \cup Cols("restaurant_delivery_settings", {"driver_dispatch_enabled"})
R0076 == Guarded("0076", {"0075"}, Drivers0076)
R0077 == Guarded("0077", {"0076"},
         Tables({"delivery_code_attempts", "delivery_failures"})
    \cup Cols("orders", {"delivery_code_nonce"})
    \cup Cols("restaurant_delivery_settings", {"delivery_proof_required",
            "failure_min_call_attempts", "failure_min_wait_minutes"}))
R0078 == Guarded("0078", {"0077"},
         Tables({"driver_last_locations", "driver_location_points"})
    \cup Cols("driver_profiles", {"location_consent_at",
            "location_consent_version"}))
R0079 == Guarded("0079", {"0078"},
    Tables({"establishment_dispatch_settings"}))
(* Forward only: the downgrade raises. *)
Sites_p1 ==
    Tables({"establishment_business_hours", "establishment_closures",
            "establishment_operations", "establishment_stock",
            "haccp_cleaning_scopes"})
Sessions_p1 ==
    Tables({"haccp_daily_sessions", "haccp_equipment_scopes",
            "haccp_reminder_deliveries", "haccp_staff_scopes"})
Evidence_p1 ==
    Tables({"haccp_audit_events", "haccp_regularizations",
            "haccp_requirements"})
Positions_p1 ==
    Tables({"establishment_stock_movements", "stock_batch_positions"})
Proofs_p1 ==
    Tables({"haccp_evidence", "haccp_requirement_batches",
            "stock_batch_allocations"})
Rhaccp_p1 == ForwardOnly("haccp_p1", {"0078"},
    Sites_p1 \cup Sessions_p1 \cup Evidence_p1 \cup Positions_p1 \cup Proofs_p1)
(* A primary key, where there is none: haccp_p1 has made it already. *)
Rhaccp_p3 == Nothing("haccp_p3", {"haccp_p1"})
(* Merges the two branches that start at 0078. *)
Rhaccp_merge == Nothing("haccp_merge", {"0079", "haccp_p3"})
R0080 == Guarded("0080", {"haccp_merge"},
    Tables({"menu_group_items", "menu_groups", "menus"}))
(* The downgrade raises when an order of a menu exists. *)
R0081 == Strict("0081", {"0080"},
    Cols("order_items", {"catalog_unit_price_snapshot", "item_type",
            "menu_group_id", "menu_group_name_snapshot", "menu_id",
            "menu_name_snapshot", "menu_snapshot", "parent_item_id"}))

-----------------------------------------------------------------------------
Revisions ==
    {R0001, R0002, R0003, R0004, R0005, R0006, R0007, R0008, R0009a, R0009b,
     R0009c, R0012, R0013, R0014, R0015, R0016, R0017, R0018, R0019, R0020,
     R0021, R0022, R0023, R0024, R0025, R0026, R0027, R0028, R0029, R0030,
     R0031, R0032, R0033, R0034, R0035, R0036, R0037, R0038, R0039, R0040,
     R0041, R0042, R0043, R0044, R0045, R0046, R0047, R0048, R0049, R0050,
     R0051, R0052, R0053, R0054, R0055, R0056, R0057, R0058, R0059, R0060,
     R0061, R0062, R0064, R0065, R0063, R0066, R0067, R0068, R0069, R0070,
     R0071, R0072, R0073, R0074, R0075, R0076, R0077, R0078, R0079,
     Rhaccp_p1, Rhaccp_p3, Rhaccp_merge, R0080, R0081}
=============================================================================
