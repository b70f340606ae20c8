---- MODULE ConsentsRoutes ----
\* The statute routes of the building consents jurisdiction (jurisdictions/building_consents/routes.cpp),
\* in the form of TenancyRoutes: every route is a flat list of terms with forced sections and no allow-list.
EXTENDS TenancyRoutes

BA(S) == {<<"BA2004", s>> : s \in S}
EBWO(S) == {<<"EBWO2020", s>> : s \in S}

carport_exemption == [Plain EXCEPT !.terms = {"Legacy"},
    !.forced = EBWO({"s11", "s18A"}) \cup BA({"s41"})]
garage == [Plain EXCEPT !.terms = {"Legacy"},
    !.forced = BA({"s41"}) \cup EBWO({"s3A", "s3B"})]
shed_barn == [Plain EXCEPT !.terms = {"Legacy"},
    !.forced = EBWO({"s4A", "s49"}) \cup BA({"s41"})]
detached_building_sleepout == [Plain EXCEPT !.terms = {"Legacy"},
    !.forced = EBWO({"s3A", "s3B", "s43"}) \cup BA({"s41"})]
granny_flat_standalone == [Plain EXCEPT !.terms = {"Legacy"},
    !.forced = BA({"s41"}) \cup EBWO({"s3A", "s3B"})]
deck_porch_veranda == [Plain EXCEPT !.terms = {"Legacy"},
    !.forced = EBWO({"s9", "s17A"}) \cup BA({"s41"})]
awning == [Plain EXCEPT !.terms = {"Legacy"},
    !.forced = EBWO({"s7", "s8", "s16A"}) \cup BA({"s41"})]
enclosed_veranda_conservatory == [Plain EXCEPT !.terms = {"Legacy"},
    !.forced = BA({"s41"}) \cup EBWO({"s9"})]
swimming_pool == [Plain EXCEPT !.terms = {"Legacy"},
    !.forced = BA({"s23", "s162C", "s162D", "s21A", "s41"})]
solar_panels == [Plain EXCEPT !.terms = {"Legacy"},
    !.forced = BA({"s28C", "s48", "s48A", "s41"}) \cup EBWO({"s48"})]
water_heater == [Plain EXCEPT !.terms = {"Legacy"},
    !.forced = BA({"s36", "s38", "s35", "s41"})]
outdoor_fireplace == [Plain EXCEPT !.terms = {"Legacy"},
    !.forced = EBWO({"s28A"}) \cup BA({"s28A", "s41"})]
plumbing_drainage == [Plain EXCEPT !.terms = {"Legacy"},
    !.forced = BA({"s35", "s41"})]
ground_moisture_barrier == [Plain EXCEPT !.terms = {"Legacy"},
    !.forced = BA({"s13A", "s41"})]
interior_alterations == [Plain EXCEPT !.terms = {"Legacy"},
    !.forced = BA({"s10", "s41"})]
certificate_of_acceptance == [Plain EXCEPT !.terms = {"Legacy"},
    !.forced = BA({"s96", "s97", "s98", "s99"})]
schedule_1_exempt_overview == [Plain EXCEPT !.terms = {"Legacy"},
    !.forced = BA({"s41"})]

ConsentsTable == <<carport_exemption, garage, shed_barn, detached_building_sleepout, granny_flat_standalone,
  deck_porch_veranda, awning, enclosed_veranda_conservatory, swimming_pool, solar_panels, water_heater,
  outdoor_fireplace, plumbing_drainage, ground_moisture_barrier, interior_alterations, certificate_of_acceptance,
  schedule_1_exempt_overview>>
==============================================================================
