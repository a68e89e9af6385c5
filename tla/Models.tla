------------------------------- MODULE Models -------------------------------
(***************************************************************************)
(* The tables that provisioning creates: the classes of                    *)
(* core/database/tenant_models.py, and those of public.  A column is named *)
(* when it is not part of the statement that first created its table.      *)
(***************************************************************************)
EXTENDS Migrations

CustomersModels ==
    Tables({"admin_audit_logs", "customer_communications"})
ConfigModels1 ==
         Tables({"business_hours", "tenant_config"})
    \cup Cols("tenant_config", {"contact_email", "contact_phone",
            "currency", "default_language", "display_name", "font_family",
            "google_business_url", "haccp_dlc_gate_enabled",
            "haccp_frying_oil_enabled", "instagram_url",
            "large_stock_adjustment_threshold", "logo_url", "primary_color",
            "print_config", "print_enabled", "scheduled_close_at",
            "secondary_color", "stock_alert_cooldown_hours", "timezone"})
ConfigModels2 ==
         Tables({"exceptional_closures", "tenant_config_audits"})
    \cup Cols("tenant_config_audits", {"user_email"})
AuthModels ==
         Tables({"refresh_tokens", "users"})
    \cup Cols("refresh_tokens", {"ip_address", "token_lookup", "user_agent"})
    \cup Cols("users", {"email_verification_expires_at",
            "email_verification_token", "email_verified_at",
            "marketing_email_opt_in", "marketing_push_opt_in",
            "mfa_backup_codes", "mfa_enabled", "mfa_secret",
            "must_change_password", "password_reset_expires_at",
            "password_reset_token", "pending_profile_completion",
            "permissions", "phone", "phone_e164", "phone_otp_attempts",
            "phone_otp_expires_at", "phone_otp_hash", "phone_verified_at"})
AllergenModels1 ==
    Tables({"allergen_change_audits", "allergen_definitions",
            "dietary_tags", "ingredient_allergens", "product_allergens"})
AllergenModels2 ==
    Tables({"product_dietary_tags"})
ImageModels ==
    Tables({"media_images"})
CatalogModels1 ==
         Tables({"categories", "extra_ingredients", "extras",
            "product_availability_overrides", "product_extras",
            "product_recommendations", "product_variants", "products"})
    \cup Cols("categories", {"preparation_station"})
    \cup Cols("extra_ingredients", {"quantity_unit"})
    \cup Cols("products", {"external_product_id", "is_delivery_prohibited",
            "is_featured", "preparation_station", "tax_rate"})
CatalogModels2 ==
         Tables({"catalog_import_batches", "catalog_price_audits",
            "catalog_snapshots", "menu_group_items", "menu_groups", "menus",
            "product_overrides"})
    \cup Cols("product_overrides", {"product_id"})
DeliveryModels1 ==
         Tables({"delivery_zone_rules", "delivery_zones",
            "restaurant_delivery_settings",
            "restaurant_delivery_settings_audits"})
    \cup Cols("delivery_zones", {"establishment_id", "shape_kind",
            "shape_params"})
    \cup Cols("restaurant_delivery_settings", {"delivery_proof_required",
            "driver_dispatch_enabled", "failure_min_call_attempts",
            "failure_min_wait_minutes"})
DeliveryModels2 ==
         Tables({"deliveries", "delivery_code_attempts", "delivery_events",
            "delivery_runs", "driver_profiles",
            "establishment_dispatch_settings"})
    \cup Cols("driver_profiles", {"location_consent_at",
            "location_consent_version"})
DeliveryModels3 ==
    Tables({"delivery_failures", "driver_last_locations",
            "driver_location_points"})
FavoritesModels ==
    Tables({"favorites"})
HaccpFoundationModels1 ==
    Tables({"establishment_business_hours", "establishment_closures",
            "establishment_operations", "haccp_cleaning_scopes",
            "haccp_equipment_scopes", "haccp_staff_scopes"})
HaccpFoundationModels2 ==
    Tables({"haccp_daily_sessions", "haccp_requirement_batches",
            "haccp_requirements"})
HaccpFoundationModels3 ==
    Tables({"haccp_audit_events", "haccp_evidence", "haccp_regularizations",
            "haccp_reminder_deliveries"})
HaccpModels1 ==
    Tables({"haccp_check_sessions", "haccp_cleaning_tasks",
            "haccp_dlc_checks", "haccp_equipment", "haccp_temperature_logs"})
HaccpModels2 ==
    Tables({"haccp_cleaning_logs", "haccp_cooling_logs",
            "haccp_frying_oil_logs", "haccp_non_conformities",
            "haccp_reception_controls", "haccp_training_records"})
StaffModels ==
         Tables({"employee_profiles", "establishment_hr_config",
            "establishments", "hr_alerts", "shifts",
            "time_clock_corrections", "time_clock_entries"})
    \cup Cols("establishments", {"latitude", "longitude"})
    \cup Cols("hr_alerts", {"establishment_id"})
KdsModels ==
         Tables({"kds_pairing_codes", "kds_remote_sessions", "kds_screens"})
    \cup Cols("kds_screens", {"remote_enabled"})
LoyaltyModels ==
         Tables({"loyalty_accounts", "loyalty_point_reservations",
            "loyalty_transactions"})
    \cup Cols("loyalty_transactions", {"changed_by_user_id", "metadata",
            "order_id", "reservation_id", "reward_id", "source",
            "transaction_type"})
LoyaltyConfigModels1 ==
         Tables({"loyalty_config", "loyalty_rules"})
    \cup Cols("loyalty_config", {"max_cumulative_multiplier",
            "points_to_euro_rate"})
LoyaltyConfigModels2 ==
    Tables({"loyalty_rewards"})
DevicesModels ==
    Tables({"device_tokens"})
OrdersModels1 ==
         Tables({"order_items", "order_status_history", "orders"})
    \cup Cols("order_items", {"catalog_unit_price_snapshot",
            "extras_snapshot", "extras_total", "item_type", "menu_group_id",
            "menu_group_name_snapshot", "menu_id", "menu_name_snapshot",
            "menu_snapshot", "parent_item_id", "preparation_station",
            "preparation_status", "prepared_at", "prepared_by_user_id",
            "product_name_snapshot", "variant_name_snapshot"})
    \cup Cols("order_status_history", {"authority"})
    \cup Cols("orders", {"created_by_user_id", "customer_name",
            "customer_phone", "delivery_code_nonce",
            "delivery_instructions", "delivery_lat", "delivery_lng",
            "delivery_zone_id", "establishment_id", "estimated_delivery_at",
            "idempotency_key", "order_type", "payment_status", "promo_code",
            "source", "table_number"})
OrdersModels2 ==
    Tables({"order_hub_transmissions", "processed_hub_order_events"})
PaymentsModels ==
         Tables({"payments", "processed_webhook_events", "refunds"})
    \cup Cols("payments", {"amount_received", "captured_amount",
            "created_by_user_id", "expires_at", "external_reference",
            "guarantee_terms_accepted_at", "guarantee_terms_version",
            "provider_account_id", "purpose", "settled_at",
            "settled_by_user_id", "settlement_note"})
    \cup Cols("refunds", {"created_by_user_id", "failure_reason"})
PromotionsModels ==
         Tables({"promo_code_usages", "promotion_campaigns",
            "promotion_target_categories", "promotion_target_products",
            "promotions"})
    \cup Cols("promotions", {"campaign_id", "current_uses",
            "email_verified_required", "first_order_only", "free_delivery",
            "is_public", "is_stackable", "max_uses", "max_uses_per_user",
            "user_id"})
StockModels ==
         Tables({"ingredient_batches", "ingredients", "product_ingredients",
            "stock_adjustment_requests", "stock_movements",
            "stock_recipe_audit_logs", "variant_ingredients"})
    \cup Cols("ingredient_batches", {"tertiary_started_at",
            "tertiary_use_within_hours"})
    \cup Cols("ingredients", {"last_alert_sent_at",
            "purchase_price_per_unit", "purchase_unit"})
    \cup Cols("product_ingredients", {"quantity_unit"})
    \cup Cols("stock_movements", {"user_id"})
    \cup Cols("variant_ingredients", {"quantity_unit"})
StockSiteModels1 ==
    Tables({"establishment_stock", "stock_batch_allocations",
            "stock_batch_positions"})
StockSiteModels2 ==
    Tables({"establishment_stock_movements"})
SuperAdminModels1 ==
         Tables({"super_admin_impersonation_sessions",
            "super_admin_recovery_codes", "super_admin_sessions",
            "super_admins"})
    \cup Cols("super_admins", {"auth_version", "mfa_enabled",
            "mfa_secret_encrypted"})
SuperAdminModels2 ==
    Tables({"platform_audit_logs"})

(* Base.metadata, as create_all makes it in a new schema. *)
TenantModels ==
         CustomersModels \cup ConfigModels1 \cup ConfigModels2
    \cup AuthModels \cup AllergenModels1 \cup AllergenModels2
    \cup ImageModels \cup CatalogModels1 \cup CatalogModels2
    \cup DeliveryModels1 \cup DeliveryModels2 \cup DeliveryModels3
    \cup FavoritesModels \cup HaccpFoundationModels1
    \cup HaccpFoundationModels2 \cup HaccpFoundationModels3
    \cup HaccpModels1 \cup HaccpModels2 \cup StaffModels \cup KdsModels
    \cup LoyaltyModels \cup LoyaltyConfigModels1 \cup LoyaltyConfigModels2
    \cup DevicesModels \cup OrdersModels1 \cup OrdersModels2
    \cup PaymentsModels \cup PromotionsModels \cup StockModels
    \cup StockSiteModels1 \cup StockSiteModels2

PublicModels == SuperAdminModels1 \cup SuperAdminModels2
=============================================================================
