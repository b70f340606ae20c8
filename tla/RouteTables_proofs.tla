---- MODULE RouteTables_proofs ----
\* Proofs about the route decision: what holds for any table (the matched routes, and with them what is
\* forced and allowed, only grow with the terms hit), what holds of the tables as they are written (each
\* route is within its own allow-list), and the properties of RouteTables that follow, for a question that
\* hits any number of terms of any number of routes.
EXTENDS RouteTables, FiniteSetTheorems, SequenceTheorems, TLAPS

-----------------------------------------------------------------------------
\* The tables as they are written, route by route.

\* A set whose members some sequence lists is finite.
LEMMA ListedFinite ==
  ASSUME NEW S, NEW q \in Seq(S), \A s \in S : \E n \in 1..Len(q) : q[n] = s
  PROVE  IsFiniteSet(S)
BY DEF IsFiniteSet

\* The section and regulation numbers the tenancy routes name, and those of the consents routes.
TenancyNumbers == {"r6", "r8", "r14", "r21", "r23", "r24", "r26", "r28", "s5", "s11", "s13", "s13A", "s13B",
                   "s13C", "s16", "s16A", "s16B", "s18", "s18A", "s18AA", "s19", "s22", "s22B", "s22BA",
                   "s22C", "s23", "s24", "s27", "s28", "s28A", "s29", "s31", "s36", "s38", "s40", "s41",
                   "s42A", "s42B", "s42C", "s42D", "s42E", "s42F", "s42G", "s43", "s43B", "s44", "s44A", "s45",
                   "s45A", "s46", "s47", "s48", "s49A", "s49B", "s49C", "s49D", "s50", "s51", "s52", "s53",
                   "s54", "s55", "s56", "s56B", "s56C", "s56D", "s56E", "s59", "s59B", "s60A", "s61", "s66",
                   "s77", "s78", "s80", "s85", "s86", "s88", "s89", "s95A", "s97", "s105", "s108", "s109",
                   "s109A", "s117", "s118", "s136", "s136A", "s138B", "s138C"}

LEMMA TenancyNumbersFinite == IsFiniteSet(TenancyNumbers)
<1> DEFINE q == <<"r6", "r8", "r14", "r21", "r23", "r24", "r26", "r28", "s5", "s11", "s13", "s13A", "s13B",
                  "s13C", "s16", "s16A", "s16B", "s18", "s18A", "s18AA", "s19", "s22", "s22B", "s22BA", "s22C",
                  "s23", "s24", "s27", "s28", "s28A", "s29", "s31", "s36", "s38", "s40", "s41", "s42A", "s42B",
                  "s42C", "s42D", "s42E", "s42F", "s42G", "s43", "s43B", "s44", "s44A", "s45", "s45A", "s46",
                  "s47", "s48", "s49A", "s49B", "s49C", "s49D", "s50", "s51", "s52", "s53", "s54", "s55",
                  "s56", "s56B", "s56C", "s56D", "s56E", "s59", "s59B", "s60A", "s61", "s66", "s77", "s78",
                  "s80", "s85", "s86", "s88", "s89", "s95A", "s97", "s105", "s108", "s109", "s109A", "s117",
                  "s118", "s136", "s136A", "s138B", "s138C">>
<1>1. q \in Seq(TenancyNumbers) BY DEF TenancyNumbers
<1>2. Len(q) = 91 OBVIOUS
<1>3. \A s \in TenancyNumbers : \E n \in 1..91 : q[n] = s BY DEF TenancyNumbers
<1> HIDE DEF q
<1>4. \A s \in TenancyNumbers : \E n \in 1..Len(q) : q[n] = s BY <1>2, <1>3
<1> QED BY <1>1, <1>4, ListedFinite

ConsentsNumbers == {"s3A", "s3B", "s4A", "s7", "s8", "s9", "s10", "s11", "s13A", "s16A", "s17A", "s18A",
                    "s21A", "s23", "s28A", "s28C", "s35", "s36", "s38", "s41", "s43", "s48", "s48A", "s49",
                    "s96", "s97", "s98", "s99", "s162C", "s162D"}

LEMMA ConsentsNumbersFinite == IsFiniteSet(ConsentsNumbers)
<1> DEFINE q == <<"s3A", "s3B", "s4A", "s7", "s8", "s9", "s10", "s11", "s13A", "s16A", "s17A", "s18A", "s21A",
                  "s23", "s28A", "s28C", "s35", "s36", "s38", "s41", "s43", "s48", "s48A", "s49", "s96", "s97",
                  "s98", "s99", "s162C", "s162D">>
<1>1. q \in Seq(ConsentsNumbers) BY DEF ConsentsNumbers
<1>2. Len(q) = 30 OBVIOUS
<1>3. \A s \in ConsentsNumbers : \E n \in 1..30 : q[n] = s BY DEF ConsentsNumbers
<1> HIDE DEF q
<1>4. \A s \in ConsentsNumbers : \E n \in 1..Len(q) : q[n] = s BY <1>2, <1>3
<1> QED BY <1>1, <1>4, ListedFinite

\* Every tenancy route forces nothing outside its own allow-list; a route with neither forces nothing.
LEMMA TenancyCovered == \A i \in DOMAIN TenancyTable : TenancyTable[i].forced \subseteq TenancyTable[i].allow
<1>1. /\ wear_and_tear.forced \subseteq wear_and_tear.allow
      /\ property_change.forced \subseteq property_change.allow
      /\ repairs_tenant_not_at_fault.forced \subseteq repairs_tenant_not_at_fault.allow
      /\ repairs_maintenance.forced \subseteq repairs_maintenance.allow
      /\ agreement_form.forced \subseteq agreement_form.allow
      /\ bond.forced \subseteq bond.allow
      /\ pet_bond.forced \subseteq pet_bond.allow
      /\ landlord_entry.forced \subseteq landlord_entry.allow
  BY DEF Plain, RTA, HHS, wear_and_tear, property_change, repairs_tenant_not_at_fault, repairs_maintenance,
         agreement_form, bond, pet_bond, landlord_entry
<1>2. /\ sham_flatmate_agreement.forced \subseteq sham_flatmate_agreement.allow
      /\ termination_notice.forced \subseteq termination_notice.allow
      /\ fixed_term_sell.forced \subseteq fixed_term_sell.allow
      /\ healthy_homes.forced \subseteq healthy_homes.allow
      /\ healthy_homes_facilities.forced \subseteq healthy_homes_facilities.allow
      /\ rent_increase.forced \subseteq rent_increase.allow
      /\ fixed_term_rent_review.forced \subseteq fixed_term_rent_review.allow
      /\ tenant_early_exit.forced \subseteq tenant_early_exit.allow
  BY DEF Plain, RTA, HHS, sham_flatmate_agreement, termination_notice, fixed_term_sell, healthy_homes,
         healthy_homes_facilities, rent_increase, fixed_term_rent_review, tenant_early_exit
<1>3. /\ carpark_dispute.forced \subseteq carpark_dispute.allow
      /\ family_violence_exit.forced \subseteq family_violence_exit.allow
      /\ quiet_enjoyment.forced \subseteq quiet_enjoyment.allow
      /\ tribunal_process.forced \subseteq tribunal_process.allow
      /\ water_charges.forced \subseteq water_charges.allow
      /\ rent_arrears.forced \subseteq rent_arrears.allow
      /\ electronic_notice_s13c.forced \subseteq electronic_notice_s13c.allow
      /\ fixed_term_mutual_agreement.forced \subseteq fixed_term_mutual_agreement.allow
  BY DEF Plain, RTA, HHS, carpark_dispute, family_violence_exit, quiet_enjoyment, tribunal_process,
         water_charges, rent_arrears, electronic_notice_s13c, fixed_term_mutual_agreement
<1>4. /\ tribunal_appeal.forced \subseteq tribunal_appeal.allow
      /\ healthy_homes_room_count.forced \subseteq healthy_homes_room_count.allow
      /\ repair_self_help_guard.forced \subseteq repair_self_help_guard.allow
      /\ overclaim_guard.forced \subseteq overclaim_guard.allow
      /\ subletting_without_consent.forced \subseteq subletting_without_consent.allow
      /\ tribunal_repair_order.forced \subseteq tribunal_repair_order.allow
      /\ repair_notice_s56.forced \subseteq repair_notice_s56.allow
      /\ lease_break_fee.forced \subseteq lease_break_fee.allow
  BY DEF Plain, RTA, HHS, tribunal_appeal, healthy_homes_room_count, repair_self_help_guard, overclaim_guard,
         subletting_without_consent, tribunal_repair_order, repair_notice_s56, lease_break_fee
<1>5. /\ tribunal_order_violation.forced \subseteq tribunal_order_violation.allow
      /\ repairs_landlord_not_fixing.forced \subseteq repairs_landlord_not_fixing.allow
      /\ exit_inspection_bond_process.forced \subseteq exit_inspection_bond_process.allow
      /\ pet_permission.forced \subseteq pet_permission.allow
      /\ inspection_report_access.forced \subseteq inspection_report_access.allow
      /\ bond_post_tribunal_order.forced \subseteq bond_post_tribunal_order.allow
      /\ painter_landlord_access.forced \subseteq painter_landlord_access.allow
      /\ property_uninhabitable_rent_abatement.forced \subseteq property_uninhabitable_rent_abatement.allow
  BY DEF Plain, RTA, HHS, tribunal_order_violation, repairs_landlord_not_fixing, exit_inspection_bond_process,
         pet_permission, inspection_report_access, bond_post_tribunal_order, painter_landlord_access,
         property_uninhabitable_rent_abatement
<1>6. /\ bond_release_form_signed.forced \subseteq bond_release_form_signed.allow
      /\ tribunal_post_filing.forced \subseteq tribunal_post_filing.allow
      /\ guest_damage_liability.forced \subseteq guest_damage_liability.allow
      /\ neighbour_contamination.forced \subseteq neighbour_contamination.allow
      /\ landlord_unresponsive_reference.forced \subseteq landlord_unresponsive_reference.allow
      /\ post_inspection_followup.forced \subseteq post_inspection_followup.allow
      /\ flooding_uninhabitable.forced \subseteq flooding_uninhabitable.allow
      /\ moveout_rent_calculation.forced \subseteq moveout_rent_calculation.allow
  BY DEF Plain, RTA, HHS, bond_release_form_signed, tribunal_post_filing, guest_damage_liability,
         neighbour_contamination, landlord_unresponsive_reference, post_inspection_followup,
         flooding_uninhabitable, moveout_rent_calculation
<1>7. /\ owner_occupation_notice.forced \subseteq owner_occupation_notice.allow
      /\ key_return_pm_closed.forced \subseteq key_return_pm_closed.allow
      /\ meth_contamination_defence.forced \subseteq meth_contamination_defence.allow
      /\ property_sale_viewings.forced \subseteq property_sale_viewings.allow
      /\ listing_photos_misleading.forced \subseteq listing_photos_misleading.allow
      /\ tribunal_application_timing.forced \subseteq tribunal_application_timing.allow
      /\ tribunal_mediation_enforcement.forced \subseteq tribunal_mediation_enforcement.allow
      /\ bond_agreement_sequence.forced \subseteq bond_agreement_sequence.allow
  BY DEF Plain, RTA, HHS, owner_occupation_notice, key_return_pm_closed, meth_contamination_defence,
         property_sale_viewings, listing_photos_misleading, tribunal_application_timing,
         tribunal_mediation_enforcement, bond_agreement_sequence
<1>8. /\ accidental_damage_insurance_excess.forced \subseteq accidental_damage_insurance_excess.allow
  BY DEF Plain, RTA, HHS, accidental_damage_insurance_excess
<1> QED BY <1>1, <1>2, <1>3, <1>4, <1>5, <1>6, <1>7, <1>8 DEF TenancyTable

\* Its sections are of the two Acts, by numbers of a finite list.
TenancySections == {"RTA", "HHS"} \X TenancyNumbers

LEMMA TenancyNames == \A i \in DOMAIN TenancyTable : TenancyTable[i].allow \subseteq TenancySections
<1>1. /\ wear_and_tear.allow \subseteq TenancySections
      /\ property_change.allow \subseteq TenancySections
      /\ repairs_tenant_not_at_fault.allow \subseteq TenancySections
      /\ repairs_maintenance.allow \subseteq TenancySections
      /\ agreement_form.allow \subseteq TenancySections
  BY DEF TenancySections, TenancyNumbers, Plain, RTA, HHS, wear_and_tear, property_change,
         repairs_tenant_not_at_fault, repairs_maintenance, agreement_form
<1>2. /\ bond.allow \subseteq TenancySections
      /\ pet_bond.allow \subseteq TenancySections
      /\ landlord_entry.allow \subseteq TenancySections
      /\ sham_flatmate_agreement.allow \subseteq TenancySections
      /\ termination_notice.allow \subseteq TenancySections
  BY DEF TenancySections, TenancyNumbers, Plain, RTA, HHS, bond, pet_bond, landlord_entry,
         sham_flatmate_agreement, termination_notice
<1>3. /\ fixed_term_sell.allow \subseteq TenancySections
      /\ healthy_homes.allow \subseteq TenancySections
      /\ healthy_homes_facilities.allow \subseteq TenancySections
      /\ rent_increase.allow \subseteq TenancySections
      /\ fixed_term_rent_review.allow \subseteq TenancySections
  BY DEF TenancySections, TenancyNumbers, Plain, RTA, HHS, fixed_term_sell, healthy_homes,
         healthy_homes_facilities, rent_increase, fixed_term_rent_review
<1>4. /\ tenant_early_exit.allow \subseteq TenancySections
      /\ carpark_dispute.allow \subseteq TenancySections
      /\ family_violence_exit.allow \subseteq TenancySections
      /\ quiet_enjoyment.allow \subseteq TenancySections
      /\ tribunal_process.allow \subseteq TenancySections
  BY DEF TenancySections, TenancyNumbers, Plain, RTA, HHS, tenant_early_exit, carpark_dispute,
         family_violence_exit, quiet_enjoyment, tribunal_process
<1>5. /\ water_charges.allow \subseteq TenancySections
      /\ rent_arrears.allow \subseteq TenancySections
      /\ electronic_notice_s13c.allow \subseteq TenancySections
      /\ fixed_term_mutual_agreement.allow \subseteq TenancySections
      /\ tribunal_appeal.allow \subseteq TenancySections
  BY DEF TenancySections, TenancyNumbers, Plain, RTA, HHS, water_charges, rent_arrears, electronic_notice_s13c,
         fixed_term_mutual_agreement, tribunal_appeal
<1>6. /\ healthy_homes_room_count.allow \subseteq TenancySections
      /\ repair_self_help_guard.allow \subseteq TenancySections
      /\ overclaim_guard.allow \subseteq TenancySections
      /\ subletting_without_consent.allow \subseteq TenancySections
      /\ tribunal_repair_order.allow \subseteq TenancySections
  BY DEF TenancySections, TenancyNumbers, Plain, RTA, HHS, healthy_homes_room_count, repair_self_help_guard,
         overclaim_guard, subletting_without_consent, tribunal_repair_order
<1>7. /\ repair_notice_s56.allow \subseteq TenancySections
      /\ lease_break_fee.allow \subseteq TenancySections
      /\ tribunal_order_violation.allow \subseteq TenancySections
      /\ repairs_landlord_not_fixing.allow \subseteq TenancySections
      /\ exit_inspection_bond_process.allow \subseteq TenancySections
  BY DEF TenancySections, TenancyNumbers, Plain, RTA, HHS, repair_notice_s56, lease_break_fee,
         tribunal_order_violation, repairs_landlord_not_fixing, exit_inspection_bond_process
<1>8. /\ pet_permission.allow \subseteq TenancySections
      /\ inspection_report_access.allow \subseteq TenancySections
      /\ bond_post_tribunal_order.allow \subseteq TenancySections
      /\ painter_landlord_access.allow \subseteq TenancySections
      /\ property_uninhabitable_rent_abatement.allow \subseteq TenancySections
  BY DEF TenancySections, TenancyNumbers, Plain, RTA, HHS, pet_permission, inspection_report_access,
         bond_post_tribunal_order, painter_landlord_access, property_uninhabitable_rent_abatement
<1>9. /\ bond_release_form_signed.allow \subseteq TenancySections
      /\ tribunal_post_filing.allow \subseteq TenancySections
      /\ guest_damage_liability.allow \subseteq TenancySections
      /\ neighbour_contamination.allow \subseteq TenancySections
      /\ landlord_unresponsive_reference.allow \subseteq TenancySections
  BY DEF TenancySections, TenancyNumbers, Plain, RTA, HHS, bond_release_form_signed, tribunal_post_filing,
         guest_damage_liability, neighbour_contamination, landlord_unresponsive_reference
<1>10. /\ post_inspection_followup.allow \subseteq TenancySections
      /\ flooding_uninhabitable.allow \subseteq TenancySections
      /\ moveout_rent_calculation.allow \subseteq TenancySections
      /\ owner_occupation_notice.allow \subseteq TenancySections
      /\ key_return_pm_closed.allow \subseteq TenancySections
  BY DEF TenancySections, TenancyNumbers, Plain, RTA, HHS, post_inspection_followup, flooding_uninhabitable,
         moveout_rent_calculation, owner_occupation_notice, key_return_pm_closed
<1>11. /\ meth_contamination_defence.allow \subseteq TenancySections
      /\ property_sale_viewings.allow \subseteq TenancySections
      /\ listing_photos_misleading.allow \subseteq TenancySections
      /\ tribunal_application_timing.allow \subseteq TenancySections
      /\ tribunal_mediation_enforcement.allow \subseteq TenancySections
  BY DEF TenancySections, TenancyNumbers, Plain, RTA, HHS, meth_contamination_defence, property_sale_viewings,
         listing_photos_misleading, tribunal_application_timing, tribunal_mediation_enforcement
<1>12. /\ bond_agreement_sequence.allow \subseteq TenancySections
      /\ accidental_damage_insurance_excess.allow \subseteq TenancySections
  BY DEF TenancySections, TenancyNumbers, Plain, RTA, HHS, bond_agreement_sequence,
         accidental_damage_insurance_excess
<1> QED BY <1>1, <1>2, <1>3, <1>4, <1>5, <1>6, <1>7, <1>8, <1>9, <1>10, <1>11, <1>12 DEF TenancyTable

\* No consents route has an allow-list, and its sections are of the Act and the exempted building work.
ConsentsSections == {"BA2004", "EBWO2020"} \X ConsentsNumbers

LEMMA ConsentsUnrestricted == \A i \in DOMAIN ConsentsTable : ConsentsTable[i].allow = {}
<1>1. /\ carport_exemption.allow = {}
      /\ garage.allow = {}
      /\ shed_barn.allow = {}
      /\ detached_building_sleepout.allow = {}
      /\ granny_flat_standalone.allow = {}
      /\ deck_porch_veranda.allow = {}
  BY DEF Plain, carport_exemption, garage, shed_barn, detached_building_sleepout, granny_flat_standalone,
         deck_porch_veranda
<1>2. /\ awning.allow = {}
      /\ enclosed_veranda_conservatory.allow = {}
      /\ swimming_pool.allow = {}
      /\ solar_panels.allow = {}
      /\ water_heater.allow = {}
      /\ outdoor_fireplace.allow = {}
  BY DEF Plain, awning, enclosed_veranda_conservatory, swimming_pool, solar_panels, water_heater,
         outdoor_fireplace
<1>3. /\ plumbing_drainage.allow = {}
      /\ ground_moisture_barrier.allow = {}
      /\ interior_alterations.allow = {}
      /\ certificate_of_acceptance.allow = {}
      /\ schedule_1_exempt_overview.allow = {}
  BY DEF Plain, plumbing_drainage, ground_moisture_barrier, interior_alterations, certificate_of_acceptance,
         schedule_1_exempt_overview
<1> QED BY <1>1, <1>2, <1>3 DEF ConsentsTable

LEMMA ConsentsNames == \A i \in DOMAIN ConsentsTable : ConsentsTable[i].forced \subseteq ConsentsSections
<1>1. /\ carport_exemption.forced \subseteq ConsentsSections
      /\ garage.forced \subseteq ConsentsSections
      /\ shed_barn.forced \subseteq ConsentsSections
      /\ detached_building_sleepout.forced \subseteq ConsentsSections
  BY DEF ConsentsSections, ConsentsNumbers, Plain, BA, EBWO, carport_exemption, garage, shed_barn,
         detached_building_sleepout
<1>2. /\ granny_flat_standalone.forced \subseteq ConsentsSections
      /\ deck_porch_veranda.forced \subseteq ConsentsSections
      /\ awning.forced \subseteq ConsentsSections
      /\ enclosed_veranda_conservatory.forced \subseteq ConsentsSections
  BY DEF ConsentsSections, ConsentsNumbers, Plain, BA, EBWO, granny_flat_standalone, deck_porch_veranda,
         awning, enclosed_veranda_conservatory
<1>3. /\ swimming_pool.forced \subseteq ConsentsSections
      /\ solar_panels.forced \subseteq ConsentsSections
      /\ water_heater.forced \subseteq ConsentsSections
      /\ outdoor_fireplace.forced \subseteq ConsentsSections
  BY DEF ConsentsSections, ConsentsNumbers, Plain, BA, EBWO, swimming_pool, solar_panels, water_heater,
         outdoor_fireplace
<1>4. /\ plumbing_drainage.forced \subseteq ConsentsSections
      /\ ground_moisture_barrier.forced \subseteq ConsentsSections
      /\ interior_alterations.forced \subseteq ConsentsSections
      /\ certificate_of_acceptance.forced \subseteq ConsentsSections
  BY DEF ConsentsSections, ConsentsNumbers, Plain, BA, EBWO, plumbing_drainage, ground_moisture_barrier,
         interior_alterations, certificate_of_acceptance
<1>5. /\ schedule_1_exempt_overview.forced \subseteq ConsentsSections
  BY DEF ConsentsSections, ConsentsNumbers, Plain, BA, EBWO, schedule_1_exempt_overview
<1> QED BY <1>1, <1>2, <1>3, <1>4, <1>5 DEF ConsentsTable

LEMMA PairFinite == \A a, b : IsFiniteSet({a, b})
<1> SUFFICES ASSUME NEW a, NEW b
             PROVE  IsFiniteSet({a, b})
  OBVIOUS
<1>1. IsFiniteSet({a})
  BY FS_Singleton
<1>2. IsFiniteSet({a} \cup {b})
  BY <1>1, FS_AddElement
<1> QED BY <1>2

\* Of every jurisdiction's table: what one route forces is within its own allow-list or within that of any
\* route that has one, and the sections it names are finitely many.
LEMMA TablesCover == \A j \in Jurisdictions : Covers(Table[j]) /\ IsFiniteSet(Sections(Table[j]))
<1>1. Covers(TenancyTable)
  BY TenancyCovered DEF Covers
<1>2. IsFiniteSet(Sections(TenancyTable))
  <2>1. Sections(TenancyTable) \subseteq TenancySections
    BY TenancyCovered, TenancyNames DEF Sections
  <2>2. IsFiniteSet(TenancySections)
    BY PairFinite, TenancyNumbersFinite, FS_Product DEF TenancySections
  <2> QED BY <2>1, <2>2, FS_Subset
<1>3. Covers(ConsentsTable)
  BY ConsentsUnrestricted DEF Covers
<1>4. IsFiniteSet(Sections(ConsentsTable))
  <2>1. Sections(ConsentsTable) \subseteq ConsentsSections
    BY ConsentsUnrestricted, ConsentsNames DEF Sections
  <2>2. IsFiniteSet(ConsentsSections)
    BY PairFinite, ConsentsNumbersFinite, FS_Product DEF ConsentsSections
  <2> QED BY <2>1, <2>2, FS_Subset
<1>5. Covers(SmallTable) /\ IsFiniteSet(Sections(SmallTable))
  BY SmallTableAssumption
<1> QED BY <1>1, <1>2, <1>3, <1>4, <1>5 DEF Jurisdictions, Table

-----------------------------------------------------------------------------
\* The decision, of any table.

\* A route that fires goes on firing when more of its terms are hit, unless one of them is an exclusion.
LEMMA FiresGrows ==
  ASSUME NEW r, NEW f, NEW g, f \subseteq g, "Exclude" \notin g, Fires(r, f)
  PROVE  Fires(r, g)
<1>1. Path(r, g) # "none"
  BY DEF Fires, Path, TwoTier
<1> QED BY <1>1 DEF Fires

\* More terms hit, none of them an exclusion, and every matched route is still matched.
LEMMA MatchedGrows ==
  ASSUME NEW table, NEW few, NEW more, few \subseteq more, \A h \in more \ few : h[2] # "Exclude"
  PROVE  Matched(table, few) \subseteq Matched(table, more)
<1> SUFFICES ASSUME NEW i \in Matched(table, few)
             PROVE  i \in Matched(table, more)
  OBVIOUS
<1>1. i \in {h[1] : h \in few} /\ Fires(table[i], HitsOf(few, i))
  BY DEF Matched
<1>2. HitsOf(few, i) \subseteq HitsOf(more, i)
  BY DEF HitsOf
<1>3. "Exclude" \notin HitsOf(few, i)
  BY <1>1 DEF Fires
<1>4. "Exclude" \notin HitsOf(more, i)
  BY <1>3 DEF HitsOf
<1>5. Fires(table[i], HitsOf(more, i))
  BY <1>1, <1>2, <1>4, FiresGrows
<1> QED BY <1>1, <1>5 DEF Matched

\* What is forced and what is allowed grow with the matched routes, whichever route dominates.
LEMMA ListsGrow ==
  ASSUME NEW table, NEW m, NEW n, m \subseteq n
  PROVE  Forced(table, m) \subseteq Forced(table, n) /\ AllowList(table, m) \subseteq AllowList(table, n)
BY DEF Forced, AllowList, AllowCandidates

\* When every route of the table is covered, any set of them is.
LEMMA AllowCovers ==
  ASSUME NEW table, Covers(table), NEW m \in SUBSET DOMAIN table, AllowList(table, m) # {}
  PROVE  Forced(table, m) \subseteq AllowList(table, m)
<1>1. PICK i \in m : table[i].allow # {}
  BY DEF AllowList, AllowCandidates
<1>2. table[i].allow \subseteq AllowList(table, m)
  BY <1>1 DEF AllowList, AllowCandidates
<1>3. ASSUME NEW j \in m
      PROVE  table[j].forced \subseteq AllowList(table, m)
  <2>1. table[j].forced \subseteq table[i].allow \cup table[j].allow
    BY <1>1 DEF Covers
  <2>2. table[j].allow \subseteq AllowList(table, m)
    BY DEF AllowList, AllowCandidates
  <2> QED BY <1>2, <2>1, <2>2
<1> QED BY <1>3 DEF Forced

\* The cap leaves room for n forced sections when an allow-list, if there is one, has n places.
LEMMA CapHasRoom ==
  ASSUME NEW n \in Nat, NEW a \in Nat, a = 0 \/ n <= a
  PROVE  ComputeMaxHits(n, a) >= n
BY DEF ComputeMaxHits

-----------------------------------------------------------------------------
\* A property of 0 that each number below n hands to the next is one of n: otherwise adding one would map the
\* numbers that have it into fewer.
LEMMA CountUp ==
  ASSUME NEW n \in Nat, NEW S \in SUBSET (0 .. n), 0 \in S,
         \A k \in S : k < n => k + 1 \in S
  PROVE  n \in S
<1> SUFFICES ASSUME n \notin S PROVE FALSE
  OBVIOUS
<1> DEFINE f == [k \in S |-> k + 1]
<1>1. IsFiniteSet(S) /\ IsFiniteSet(S \ {0}) /\ Cardinality(S \ {0}) = Cardinality(S) - 1
  <2>1. IsFiniteSet(S)
    <3>1. IsFiniteSet(0 .. n)
      BY FS_Interval
    <3> QED BY <3>1, FS_Subset
  <2> QED BY <2>1, FS_RemoveElement
<1>2. f \in [S -> S \ {0}] /\ \A j, k \in S : f[j] = f[k] => j = k
  OBVIOUS
<1>3. Cardinality(S) <= Cardinality(S \ {0})
  <2> HIDE DEF f
  <2>1. f \in Injection(S, S \ {0})
    BY <1>2 DEF Injection, IsInjective
  <2> QED BY <1>1, <2>1, FS_Injection
<1>4. Cardinality(S) \in Nat
  BY <1>1, FS_CardinalityType
<1> QED BY <1>1, <1>3, <1>4

-----------------------------------------------------------------------------
\* The automaton finds what a search at every position finds.

Texts == Seq(Alphabet)

\* w ends with v, character by character from the last one on.
Ends(v, w) == Len(v) <= Len(w) /\ \A k \in 0..Len(v) - 1 : v[Len(v) - k] = w[Len(w) - k]

LEMMA AppendText ==
  ASSUME NEW w \in Texts, NEW c \in Alphabet
  PROVE  /\ Append(w, c) \in Texts /\ Len(Append(w, c)) = Len(w) + 1
         /\ \A i \in 1..Len(w) : Append(w, c)[i] = w[i]
         /\ Append(w, c)[Len(w) + 1] = c
BY DEF Texts

LEMMA FrontText ==
  ASSUME NEW w \in Texts, w # <<>>
  PROVE  /\ Front(w) \in Texts /\ Last(w) \in Alphabet /\ Last(w) = w[Len(w)]
         /\ Len(w) \in Nat \ {0} /\ Len(Front(w)) = Len(w) - 1
         /\ \A i \in 1..Len(w) - 1 : Front(w)[i] = w[i]
         /\ w = Append(Front(w), Last(w))
<1>1. Len(w) \in Nat \ {0} /\ \A i \in 1..Len(w) : w[i] \in Alphabet
  BY EmptySeq DEF Texts
<1>2. /\ SubSeq(w, 1, Len(w) - 1) \in Texts
      /\ Len(SubSeq(w, 1, Len(w) - 1)) = Len(w) - 1
      /\ \A i \in 1..Len(w) - 1 : SubSeq(w, 1, Len(w) - 1)[i] = w[i]
  <2>1. w \in Seq(Alphabet) /\ 1 \in 1..Len(w) + 1 /\ Len(w) - 1 \in 1 - 1..Len(w)
    BY <1>1 DEF Texts
  <2>2. /\ SubSeq(w, 1, Len(w) - 1) \in Seq(Alphabet)
        /\ Len(SubSeq(w, 1, Len(w) - 1)) = (Len(w) - 1) - 1 + 1
        /\ \A i \in 1..(Len(w) - 1) - 1 + 1 : SubSeq(w, 1, Len(w) - 1)[i] = w[1 + i - 1]
    <3> DEFINE n == Len(w) - 1
    <3>1. 1 \in 1..Len(w) + 1 /\ n \in 1 - 1..Len(w)
      BY <2>1
    <3> HIDE DEF n
    <3>2. /\ SubSeq(w, 1, n) \in Seq(Alphabet)
          /\ Len(SubSeq(w, 1, n)) = n - 1 + 1
          /\ \A i \in 1..n - 1 + 1 : SubSeq(w, 1, n)[i] = w[1 + i - 1]
      BY <2>1, <3>1, SubSeqProperties
    <3> QED BY <3>2 DEF n
  <2>3. (Len(w) - 1) - 1 + 1 = Len(w) - 1 /\ \A i \in 1..Len(w) - 1 : 1 + i - 1 = i
    BY <1>1
  <2> QED BY <2>2, <2>3 DEF Texts
<1>3. /\ Front(w) \in Texts /\ Len(Front(w)) = Len(w) - 1
      /\ \A i \in 1..Len(w) - 1 : Front(w)[i] = w[i]
  BY <1>2 DEF Front
<1>4. Last(w) = w[Len(w)] /\ Last(w) \in Alphabet
  BY <1>1 DEF Last
<1>5. w = Append(Front(w), Last(w))
  <2>1. Append(Front(w), Last(w)) \in Texts /\ Len(Append(Front(w), Last(w))) = Len(w)
    BY <1>1, <1>3, <1>4, AppendText
  <2>2. ASSUME NEW i \in 1..Len(w) PROVE Append(Front(w), Last(w))[i] = w[i]
    BY <1>1, <1>3, <1>4, AppendText
  <2> QED BY <2>1, <2>2, SeqEqual DEF Texts
<1> QED BY <1>1, <1>3, <1>4, <1>5

LEMMA EndsTrans ==
  ASSUME NEW u \in Texts, NEW v \in Texts, NEW w \in Texts, Ends(u, v), Ends(v, w)
  PROVE  Ends(u, w)
<1>1. Len(u) \in Nat /\ Len(v) \in Nat /\ Len(w) \in Nat /\ Len(u) <= Len(v) /\ Len(v) <= Len(w)
  BY DEF Ends, Texts
<1>2. ASSUME NEW k \in 0..Len(u) - 1 PROVE u[Len(u) - k] = w[Len(w) - k]
  <2>1. k \in 0..Len(v) - 1
    BY <1>1
  <2>2. u[Len(u) - k] = v[Len(v) - k]
    BY DEF Ends
  <2>3. v[Len(v) - k] = w[Len(w) - k]
    BY <2>1 DEF Ends
  <2> QED BY <2>2, <2>3
<1>3. Len(u) <= Len(w)
  BY <1>1
<1> QED BY <1>2, <1>3 DEF Ends

LEMMA EndsBoth ==
  ASSUME NEW u \in Texts, NEW v \in Texts, NEW w \in Texts, Ends(u, w), Ends(v, w), Len(u) <= Len(v)
  PROVE  Ends(u, v)
<1>1. Len(u) \in Nat /\ Len(v) \in Nat /\ Len(u) <= Len(v)
  BY DEF Texts
<1>2. ASSUME NEW k \in 0..Len(u) - 1 PROVE u[Len(u) - k] = v[Len(v) - k]
  <2>1. k \in 0..Len(v) - 1
    BY <1>1
  <2>2. u[Len(u) - k] = w[Len(w) - k]
    BY DEF Ends
  <2>3. v[Len(v) - k] = w[Len(w) - k]
    BY <2>1 DEF Ends
  <2> QED BY <2>2, <2>3
<1> QED BY <1>1, <1>2 DEF Ends

LEMMA EndsWhole ==
  ASSUME NEW v \in Texts, NEW w \in Texts, Ends(v, w), Len(v) = Len(w)
  PROVE  v = w
<1>1. Len(v) \in Nat
  BY DEF Texts
<1>2. ASSUME NEW i \in 1..Len(v) PROVE v[i] = w[i]
  <2>1. Len(v) - i \in 0..Len(v) - 1 /\ Len(v) - (Len(v) - i) = i
    BY <1>1
  <2> QED BY <2>1 DEF Ends
<1> QED BY <1>2, SeqEqual DEF Texts

LEMMA EndsEmpty == \A w \in Texts : Ends(<<>>, w) /\ Ends(w, w)
BY DEF Ends, Texts

LEMMA EndsAppend ==
  ASSUME NEW v \in Texts, NEW w \in Texts, NEW c \in Alphabet, NEW d \in Alphabet
  PROVE  Ends(Append(v, c), Append(w, d)) <=> c = d /\ Ends(v, w)
<1> DEFINE vc == Append(v, c)
           wd == Append(w, d)
<1>1. /\ Len(v) \in Nat /\ Len(w) \in Nat /\ Len(vc) = Len(v) + 1 /\ Len(wd) = Len(w) + 1
      /\ \A i \in 1..Len(v) : vc[i] = v[i]
      /\ \A i \in 1..Len(w) : wd[i] = w[i]
      /\ vc[Len(v) + 1] = c /\ wd[Len(w) + 1] = d
  BY AppendText DEF Texts
<1> HIDE DEF vc, wd
<1>2. ASSUME Ends(vc, wd) PROVE c = d /\ Ends(v, w)
  <2>1. 0 \in 0..Len(vc) - 1 /\ Len(vc) - 0 = Len(v) + 1 /\ Len(wd) - 0 = Len(w) + 1
    BY <1>1
  <2>2. c = d
    BY <1>1, <1>2, <2>1 DEF Ends
  <2>3. ASSUME NEW k \in 0..Len(v) - 1 PROVE v[Len(v) - k] = w[Len(w) - k]
    <3>1. k + 1 \in 0..Len(vc) - 1 /\ Len(vc) - (k + 1) = Len(v) - k /\ Len(wd) - (k + 1) = Len(w) - k
      BY <1>1
    <3>2. vc[Len(v) - k] = wd[Len(w) - k]
      BY <1>2, <3>1 DEF Ends
    <3>3. Len(v) <= Len(w)
      BY <1>1, <1>2 DEF Ends
    <3> QED BY <1>1, <3>2, <3>3
  <2> QED BY <1>1, <1>2, <2>2, <2>3 DEF Ends
<1>3. ASSUME c = d, Ends(v, w) PROVE Ends(vc, wd)
  <2>1. ASSUME NEW k \in 0..Len(vc) - 1 PROVE vc[Len(vc) - k] = wd[Len(wd) - k]
    <3>1. CASE k = 0
      BY <1>1, <1>3, <3>1
    <3>2. CASE k # 0
      <4>1. k - 1 \in 0..Len(v) - 1 /\ Len(vc) - k = Len(v) - (k - 1) /\ Len(wd) - k = Len(w) - (k - 1)
        BY <1>1, <3>2
      <4>2. v[Len(v) - (k - 1)] = w[Len(w) - (k - 1)] /\ Len(v) <= Len(w)
        BY <1>3, <4>1 DEF Ends
      <4>3. Len(v) - (k - 1) \in 1..Len(v) /\ Len(w) - (k - 1) \in 1..Len(w)
        BY <1>1, <4>1, <4>2
      <4> QED BY <1>1, <4>1, <4>2, <4>3
    <3> QED BY <3>1, <3>2
  <2> QED BY <1>1, <1>3, <2>1 DEF Ends
<1> QED BY <1>2, <1>3 DEF vc, wd

LEMMA EndsProper ==
  ASSUME NEW w \in Texts, w # <<>>
  PROVE  /\ Tail(w) \in Texts /\ Len(Tail(w)) = Len(w) - 1
         /\ Ends(Tail(w), w)
         /\ \A v \in Texts : Ends(v, w) /\ Len(v) < Len(w) => Ends(v, Tail(w))
<1>1. Len(w) \in Nat \ {0}
  BY EmptySeq DEF Texts
<1>2. Tail(w) \in Texts /\ Len(Tail(w)) = Len(w) - 1 /\ \A i \in 1..Len(w) - 1 : Tail(w)[i] = w[i + 1]
  BY HeadTailProperties DEF Texts
<1> DEFINE t == Tail(w)
<1> HIDE DEF t
<1>3. ASSUME NEW k \in 0..Len(t) - 1 PROVE t[Len(t) - k] = w[Len(w) - k]
  <2>1. Len(t) - k \in 1..Len(w) - 1 /\ (Len(t) - k) + 1 = Len(w) - k
    BY <1>1, <1>2 DEF t
  <2> QED BY <1>2, <2>1 DEF t
<1>4. Ends(t, w)
  BY <1>1, <1>2, <1>3 DEF Ends, t
<1>5. ASSUME NEW v \in Texts, Ends(v, w), Len(v) < Len(w) PROVE Ends(v, t)
  <2>1. Len(v) <= Len(t)
    BY <1>1, <1>2, <1>5 DEF t, Texts
  <2> QED BY <1>2, <1>4, <1>5, <2>1, EndsBoth DEF t
<1> QED BY <1>2, <1>4, <1>5 DEF t

\* A proper end of a longer text.
LEMMA TailOfAppend ==
  ASSUME NEW w \in Texts, w # <<>>, NEW c \in Alphabet
  PROVE  Tail(Append(w, c)) = Append(Tail(w), c)
BY HeadTailAppend DEF Texts

LEMMA InsertedFacts ==
  /\ Inserted \subseteq Terms
  /\ \A t \in Inserted : t[3] \in Texts /\ Len(t[3]) \in Nat \ {0} /\ \A i \in 1..Len(t[3]) : IsAscii(t[3][i])
<1> SUFFICES ASSUME NEW t \in Inserted
             PROVE  t \in Terms /\ t[3] \in Texts /\ Len(t[3]) \in Nat \ {0} /\ \A i \in 1..Len(t[3]) : IsAscii(t[3][i])
  OBVIOUS
<1>1. t \in Terms /\ t[3] # <<>> /\ \A i \in DOMAIN t[3] : IsAscii(t[3][i])
  BY DEF Inserted
<1>2. t[3] \in Seq(Alphabet)
  BY <1>1, ScanAssumption
<1>3. DOMAIN t[3] = 1..Len(t[3])
  BY <1>2
<1>4. Len(t[3]) \in Nat \ {0}
  BY <1>1, <1>2, EmptySeq
<1> QED BY <1>1, <1>2, <1>3, <1>4 DEF Texts

\* A start of a text.
LEMMA StartText ==
  ASSUME NEW w \in Texts, NEW n \in 0..Len(w)
  PROVE  /\ SubSeq(w, 1, n) \in Texts /\ Len(SubSeq(w, 1, n)) = n
         /\ \A i \in 1..n : SubSeq(w, 1, n)[i] = w[i]
<1>1. Len(w) \in Nat /\ n \in Int /\ 1 \in Int /\ n \in Nat /\ \A i \in 1..n : w[i] \in Alphabet
  BY DEF Texts
<1>2. /\ SubSeq(w, 1, n) \in Seq(Alphabet)
      /\ Len(SubSeq(w, 1, n)) = IF 1 <= n THEN n - 1 + 1 ELSE 0
      /\ \A i \in 1..n - 1 + 1 : SubSeq(w, 1, n)[i] = w[1 + i - 1]
  BY <1>1, SubSeqProperties
<1>3. n - 1 + 1 = n /\ \A i \in 1..n : 1 + i - 1 = i
  BY <1>1
<1> QED BY <1>1, <1>2, <1>3 DEF Texts

LEMMA StartGrows ==
  ASSUME NEW w \in Texts, NEW n \in 1..Len(w)
  PROVE  /\ n - 1 \in 0..Len(w) /\ SubSeq(w, 1, n) = Append(SubSeq(w, 1, n - 1), w[n])
         /\ w[n] \in Alphabet /\ SubSeq(w, 1, n) # <<>>
         /\ Front(SubSeq(w, 1, n)) = SubSeq(w, 1, n - 1) /\ Last(SubSeq(w, 1, n)) = w[n]
<1>1. n \in Nat \ {0} /\ Len(w) \in Nat /\ n - 1 \in 0..Len(w) /\ n \in 0..Len(w) /\ w[n] \in Alphabet
  BY DEF Texts
<1> DEFINE u == SubSeq(w, 1, n)
           v == SubSeq(w, 1, n - 1)
<1>2. /\ u \in Texts /\ Len(u) = n /\ \A i \in 1..n : u[i] = w[i]
      /\ v \in Texts /\ Len(v) = n - 1 /\ \A i \in 1..n - 1 : v[i] = w[i]
  BY <1>1, StartText
<1> HIDE DEF u, v
<1>3. Append(v, w[n]) \in Texts /\ Len(Append(v, w[n])) = n /\ \A i \in 1..n : Append(v, w[n])[i] = w[i]
  BY <1>1, <1>2, AppendText
<1>4. u = Append(v, w[n])
  BY <1>1, <1>2, <1>3, SeqEqual DEF Texts
<1>5. u # <<>>
  BY <1>1, <1>2
<1>6. Front(u) \in Texts /\ Len(Front(u)) = n - 1 /\ \A i \in 1..n - 1 : Front(u)[i] = v[i]
  <2>1. u \in Texts /\ u # <<>> /\ Len(u) - 1 = n - 1
    BY <1>1, <1>2, <1>5
  <2>2. Front(u) \in Texts /\ Len(Front(u)) = n - 1 /\ \A i \in 1..n - 1 : Front(u)[i] = u[i]
    BY <2>1, FrontText
  <2> QED BY <1>1, <1>2, <2>2
<1>7. Front(u) = v
  BY <1>1, <1>2, <1>6, SeqEqual DEF Texts
<1>8. Last(u) = w[n]
  BY <1>1, <1>2, <1>5, FrontText
<1> QED BY <1>1, <1>4, <1>5, <1>7, <1>8 DEF u, v

\* The nodes: texts, closed under dropping the last character, without a character outside ASCII.
LEMMA NodeFacts ==
  /\ <<>> \in Nodes /\ <<>> \in Texts
  /\ \A u \in Nodes : u \in Texts /\ \A i \in 1..Len(u) : IsAscii(u[i])
  /\ \A u \in Nodes : u # <<>> => Front(u) \in Nodes
  /\ \A t \in Inserted : t[3] \in Nodes
<1>1. <<>> \in Nodes /\ <<>> \in Texts
  BY DEF Nodes, Texts
<1>2. ASSUME NEW u \in Nodes, u # <<>>
      PROVE  \E t \in Inserted : \E n \in 1..Len(t[3]) : u = SubSeq(t[3], 1, n)
  BY <1>2 DEF Nodes
<1>3. ASSUME NEW t \in Inserted, NEW n \in 1..Len(t[3]) PROVE SubSeq(t[3], 1, n) \in Nodes
  BY DEF Nodes
<1>4. ASSUME NEW u \in Nodes PROVE u \in Texts /\ \A i \in 1..Len(u) : IsAscii(u[i])
  <2>1. CASE u = <<>>
    BY <1>1, <2>1
  <2>2. CASE u # <<>>
    <3>0. \E t \in Inserted : \E n \in 1..Len(t[3]) : u = SubSeq(t[3], 1, n)
      BY <1>2, <2>2
    <3>1. PICK t \in Inserted : \E n \in 1..Len(t[3]) : u = SubSeq(t[3], 1, n)
      BY <3>0
    <3>1n. PICK n \in 1..Len(t[3]) : u = SubSeq(t[3], 1, n)
      BY <3>1
    <3>2. t[3] \in Texts /\ n \in 0..Len(t[3]) /\ n \in Nat /\ \A i \in 1..Len(t[3]) : IsAscii(t[3][i])
      BY InsertedFacts
    <3>3. u \in Texts /\ Len(u) = n /\ \A i \in 1..n : u[i] = t[3][i]
      BY <3>1n, <3>2, StartText
    <3>4. 1..n \subseteq 1..Len(t[3])
      BY <3>2, InsertedFacts
    <3> QED BY <3>2, <3>3, <3>4
  <2> QED BY <2>1, <2>2
<1>5. ASSUME NEW u \in Nodes, u # <<>> PROVE Front(u) \in Nodes
  <2>1. PICK t \in Inserted : \E n \in 1..Len(t[3]) : u = SubSeq(t[3], 1, n)
    BY <1>2, <1>5
  <2>1n. PICK n \in 1..Len(t[3]) : u = SubSeq(t[3], 1, n)
    BY <2>1
  <2>2. t[3] \in Texts /\ Len(t[3]) \in Nat
    BY InsertedFacts
  <2>3. Front(u) = SubSeq(t[3], 1, n - 1)
    BY <2>1n, <2>2, StartGrows
  <2>4. CASE n = 1
    <3>1. SubSeq(t[3], 1, n - 1) = <<>>
      BY <2>4, <2>2, SubSeqEmpty
    <3> QED BY <1>1, <2>3, <3>1
  <2>5. CASE n # 1
    <3>1. n - 1 \in 1..Len(t[3])
      BY <2>2, <2>5
    <3> QED BY <1>3, <2>3, <3>1
  <2> QED BY <2>4, <2>5
<1>6. ASSUME NEW t \in Inserted PROVE t[3] \in Nodes
  <2>1. t[3] \in Texts /\ Len(t[3]) \in Nat \ {0}
    BY InsertedFacts
  <2>2. Len(t[3]) \in 1..Len(t[3]) /\ Len(t[3]) \in 0..Len(t[3])
    BY <2>1
  <2>3. SubSeq(t[3], 1, Len(t[3])) = t[3]
    BY <2>1, <2>2, StartText, SeqEqual DEF Texts
  <2> QED BY <1>3, <2>2, <2>3
<1> QED BY <1>1, <1>4, <1>5, <1>6

\* The lengths of finitely many words are bounded.
LEMMA Bounded ==
  ASSUME NEW q, NEW N \in Nat, \A n \in 1..N : q[n] \in Nat
  PROVE  \E b \in Nat : \A n \in 1..N : q[n] <= b
<1> DEFINE S == {k \in 0..N : \E b \in Nat : \A n \in 1..k : q[n] <= b}
<1>1. 0 \in S
  OBVIOUS
<1>2. ASSUME NEW k \in S, k < N PROVE k + 1 \in S
  <2>1. PICK b \in Nat : \A n \in 1..k : q[n] <= b
    OBVIOUS
  <2> DEFINE e == q[k + 1]
  <2>2. e \in Nat /\ k + 1 \in 0..N
    BY <1>2
  <2> HIDE DEF e
  <2>3. b + e \in Nat /\ b <= b + e /\ e <= b + e
    BY <2>2
  <2>4. ASSUME NEW n \in 1..k + 1 PROVE q[n] <= b + e
    <3>1. CASE n = k + 1
      BY <2>3, <3>1 DEF e
    <3>2. CASE n # k + 1
      <4>1. n \in 1..k /\ n \in 1..N
        BY <3>2, <1>2
      <4> QED BY <2>1, <2>3, <4>1
    <3> QED BY <3>1, <3>2
  <2> QED BY <2>2, <2>3, <2>4
<1> HIDE DEF S
<1>3. N \in S
  BY <1>1, <1>2, CountUp DEF S
<1> QED BY <1>3 DEF S

LEMMA DepthFacts == Depth \in Nat /\ \A u \in Nodes : Len(u) \in Nat /\ Len(u) <= Depth
<1>1. PICK q \in Seq(Terms) : \A t \in Terms : \E n \in 1..Len(q) : q[n] = t
  BY ScanAssumption DEF IsFiniteSet
<1> DEFINE N == Len(q)
           ls == [n \in 1..N |-> Len(q[n][3])]
<1>2. N \in Nat /\ \A n \in 1..N : q[n] \in Terms
  OBVIOUS
<1>3. \A n \in 1..N : ls[n] \in Nat
  <2> SUFFICES ASSUME NEW n \in 1..N PROVE Len(q[n][3]) \in Nat
    OBVIOUS
  <2>1. q[n][3] \in Seq(Alphabet)
    BY <1>2, ScanAssumption
  <2> QED BY <2>1
<1>4. PICK b \in Nat : \A n \in 1..N : ls[n] <= b
  <2> HIDE DEF ls, N
  <2> QED BY <1>2, <1>3, Bounded
<1>5. ASSUME NEW u \in Nodes PROVE Len(u) \in Nat /\ Len(u) <= b
  <2>1. Len(u) \in Nat
    BY NodeFacts DEF Texts
  <2>2. CASE u = <<>>
    <3>1. Len(u) = 0
      BY <2>2
    <3> QED BY <3>1
  <2>3. CASE u # <<>>
    <3>1. \E t \in Inserted : \E n \in 1..Len(t[3]) : u = SubSeq(t[3], 1, n)
      BY <2>3 DEF Nodes
    <3>2. PICK t \in Inserted : \E n \in 1..Len(t[3]) : u = SubSeq(t[3], 1, n)
      BY <3>1
    <3>2n. PICK n \in 1..Len(t[3]) : u = SubSeq(t[3], 1, n)
      BY <3>2
    <3>3. t \in Terms /\ t[3] \in Texts /\ Len(t[3]) \in Nat /\ n \in 0..Len(t[3])
      BY InsertedFacts
    <3>4. Len(u) = n
      BY <3>2n, <3>3, StartText
    <3>5. PICK m \in 1..N : q[m] = t
      BY <1>1, <3>3
    <3>6. Len(t[3]) <= b
      BY <1>4, <3>5
    <3> QED BY <3>3, <3>4, <3>6
  <2> QED BY <2>1, <2>2, <2>3
\* The greatest length is the last of the bounded naturals that some node reaches.
<1> DEFINE Reached(k) == \E u \in Nodes : k <= Len(u)
           S == {k \in 0..b : Reached(k)}
<1>6. \E d \in {Len(u) : u \in Nodes} : \A u \in Nodes : Len(u) <= d
  <2> SUFFICES ASSUME \A v \in Nodes : \E u \in Nodes : ~(Len(u) <= Len(v)) PROVE FALSE
    OBVIOUS
  <2>1. 0 \in S
    BY <1>5, NodeFacts
  <2>2. ASSUME NEW k \in S, k < b PROVE k + 1 \in S
    <3>1. PICK v \in Nodes : k <= Len(v)
      OBVIOUS
    <3>2. PICK u \in Nodes : ~(Len(u) <= Len(v))
      OBVIOUS
    <3>3. k + 1 <= Len(u) /\ k + 1 \in 0..b
      BY <1>5, <2>2, <3>1, <3>2
    <3> QED BY <3>3
  <2>3. b \in S
    <3> HIDE DEF S
    <3>1. S \in SUBSET (0..b)
      BY DEF S
    <3> QED BY <2>1, <2>2, <3>1, CountUp
  <2>4. PICK v \in Nodes : b <= Len(v)
    BY <2>3
  <2>5. PICK u \in Nodes : ~(Len(u) <= Len(v))
    OBVIOUS
  <2> QED BY <1>5, <2>4, <2>5
<1>7. Depth \in {Len(u) : u \in Nodes} /\ \A u \in Nodes : Len(u) <= Depth
  BY <1>6 DEF Depth
<1> QED BY <1>5, <1>7

-----------------------------------------------------------------------------
\* v is the longest node that w ends with.
LongestNode(v, w) == v \in Nodes /\ Ends(v, w) /\ \A x \in Nodes : Ends(x, w) => Len(x) <= Len(v)

\* What w's longest node can be extended by is all that matters of w.
LEMMA Extend ==
  ASSUME NEW v, NEW w \in Texts, NEW c \in Alphabet, NEW g,
         LongestNode(v, w), LongestNode(g, Append(v, c))
  PROVE  LongestNode(g, Append(w, c))
<1>1. v \in Nodes /\ v \in Texts /\ g \in Nodes /\ g \in Texts /\ Ends(v, w)
  BY NodeFacts DEF LongestNode
<1>2. Append(v, c) \in Texts /\ Append(w, c) \in Texts
  BY <1>1, AppendText
<1>3. Ends(g, Append(w, c))
  <2>1. Ends(Append(v, c), Append(w, c))
    BY <1>1, EndsAppend
  <2>2. Ends(g, Append(v, c))
    BY DEF LongestNode
  <2> QED BY <1>1, <1>2, <2>1, <2>2, EndsTrans
<1>4. ASSUME NEW x \in Nodes, Ends(x, Append(w, c)) PROVE Len(x) <= Len(g)
  <2>1. x \in Texts /\ Len(x) \in Nat /\ Len(g) \in Nat
    BY <1>1, NodeFacts DEF Texts
  <2>2. CASE x = <<>>
    <3>1. Len(x) = 0
      BY <2>2
    <3> QED BY <2>1, <3>1
  <2>3. CASE x # <<>>
    <3>0. /\ Front(x) \in Nodes /\ Front(x) \in Texts /\ Last(x) \in Alphabet
          /\ x = Append(Front(x), Last(x))
      BY <2>1, <2>3, NodeFacts, FrontText
    <3> DEFINE f == Front(x)
               l == Last(x)
    <3> HIDE DEF f, l
    <3>1. f \in Nodes /\ f \in Texts /\ l \in Alphabet /\ x = Append(f, l)
      BY <3>0 DEF f, l
    <3>2. l = c /\ Ends(f, w)
      BY <1>4, <3>1, EndsAppend
    <3>3. Len(f) <= Len(v)
      BY <3>1, <3>2 DEF LongestNode
    <3>4. Ends(f, v)
      BY <1>1, <3>1, <3>2, <3>3, EndsBoth
    <3>5. Ends(Append(f, l), Append(v, c))
      BY <1>1, <3>1, <3>2, <3>4, EndsAppend
    <3> QED BY <3>1, <3>5 DEF LongestNode
  <2> QED BY <2>2, <2>3
<1> QED BY <1>1, <1>3, <1>4 DEF LongestNode

\* The links of a depth are built from those of the depth above.
LEMMA LinksUnfold ==
  /\ Links[0] = RootLinks
  /\ \A d \in 1..Depth : Links[d] = Deeper(d, Links[d - 1])
<1> DEFINE Run(g, m) == g = [d \in 0..m |-> IF d = 0 THEN RootLinks ELSE Deeper(d, g[d - 1])]
           S == {m \in 0..Depth : \E g : Run(g, m)}
<1>0. Depth \in Nat
  BY DepthFacts
<1>1. 0 \in S
  <2>1. Run([d \in 0..0 |-> RootLinks], 0)
    OBVIOUS
  <2> HIDE DEF Run
  <2> QED BY <1>0, <2>1
<1>2. ASSUME NEW m \in S, m < Depth PROVE m + 1 \in S
  <2>1. PICK g : Run(g, m)
    BY <1>2
  <2> DEFINE h == [d \in 0..m + 1 |-> IF d <= m THEN g[d] ELSE Deeper(m + 1, g[m])]
  <2>2. Run(h, m + 1)
    <3>1. \A d \in 0..m + 1 : h[d] = IF d = 0 THEN RootLinks ELSE Deeper(d, h[d - 1])
      BY <2>1, <1>0
    <3> QED BY <3>1
  <2> HIDE DEF Run, h
  <2> QED BY <1>0, <1>2, <2>2
<1>3. Depth \in S
  <2> HIDE DEF S
  <2>1. S \in SUBSET (0..Depth)
    BY DEF S
  <2> QED BY <1>0, <1>1, <1>2, <2>1, CountUp
<1>4. PICK g : Run(g, Depth)
  BY <1>3
<1>5. Run(Links, Depth)
  BY <1>4 DEF Links
<1> HIDE DEF Run
<1>6. \A d \in 0..Depth : Links[d] = IF d = 0 THEN RootLinks ELSE Deeper(d, Links[d - 1])
  BY <1>0, <1>5 DEF Run
<1> QED BY <1>0, <1>6

\* The nodes of depth d and less.
UpTo(d) == {u \in Nodes : Len(u) <= d}

\* Right links down to depth d: every transition goes to the longest node of what was read, every link to that
\* of it without its first character.
RightLinks(d, links) ==
    /\ \A u \in UpTo(d) : \A c \in Alphabet : LongestNode(links.next[u][c], Append(u, c))
    /\ \A u \in UpTo(d) : u # <<>> => LongestNode(links.fail[u], Tail(u))

LEMMA NodeIsLongest == \A u \in Nodes : LongestNode(u, u)
BY NodeFacts, EndsEmpty DEF LongestNode, Ends

LEMMA RootIsRight == RightLinks(0, RootLinks)
<1>1. ASSUME NEW u \in UpTo(0) PROVE u = <<>>
  <2>1. u \in Texts /\ Len(u) \in Nat /\ Len(u) <= 0
    BY NodeFacts DEF UpTo, Texts
  <2> QED BY <2>1, EmptySeq DEF Texts
<1>2. ASSUME NEW c \in Alphabet PROVE LongestNode(RootLinks.next[<<>>][c], Append(<<>>, c))
  <2>1. RootLinks.next[<<>>][c] = IF <<c>> \in Nodes THEN <<c>> ELSE <<>>
    BY DEF RootLinks
  <2>2. Append(<<>>, c) = <<c>> /\ <<c>> \in Texts /\ Len(<<c>>) = 1
    BY DEF Texts
  <2>3. CASE <<c>> \in Nodes
    BY <2>1, <2>2, <2>3, NodeIsLongest
  <2>4. CASE <<c>> \notin Nodes
    <3>1. ASSUME NEW x \in Nodes, Ends(x, <<c>>) PROVE Len(x) <= Len(<<>>)
      <4>1. x \in Texts /\ Len(x) \in Nat /\ Len(x) <= 1
        BY <2>2, <3>1, NodeFacts DEF Ends, Texts
      <4>2. Len(x) # 1
        BY <2>2, <2>4, <3>1, <4>1, EndsWhole
      <4>3. Len(x) <= 0
        <5> DEFINE n == Len(x)
        <5> HIDE DEF n
        <5>1. n \in Nat /\ n <= 1 /\ n # 1
          BY <4>1, <4>2 DEF n
        <5>2. n <= 0
          BY <5>1
        <5> QED BY <5>2 DEF n
      <4>4. Len(<<>>) = 0
        OBVIOUS
      <4> QED BY <4>3, <4>4
    <3> QED BY <2>1, <2>2, <2>4, <3>1, NodeFacts, EndsEmpty DEF LongestNode
  <2> QED BY <2>3, <2>4
<1> QED BY <1>1, <1>2 DEF RightLinks

LEMMA DeeperIsRight ==
  ASSUME NEW d \in 1..Depth, NEW up, RightLinks(d - 1, up)
  PROVE  RightLinks(d, Deeper(d, up))
<1> DEFINE Link(u) == IF d = 1 THEN <<>> ELSE up.next[up.fail[Front(u)]][Last(u)]
           Step(u) == [c \in Alphabet |-> IF Append(u, c) \in Nodes THEN Append(u, c) ELSE up.next[Link(u)][c]]
           new == Deeper(d, up)
<1>1. /\ \A u \in UpTo(d) : new.fail[u] = IF Len(u) < d THEN up.fail[u] ELSE Link(u)
      /\ \A u \in UpTo(d) : new.next[u] = IF Len(u) < d THEN up.next[u] ELSE Step(u)
  BY DEF Deeper, UpTo
<1>2. d \in Nat \ {0} /\ \A u \in Nodes : u \in Texts /\ Len(u) \in Nat
  BY DepthFacts, NodeFacts
<1> HIDE DEF new
<1>3. ASSUME NEW u \in UpTo(d), Len(u) < d PROVE u \in UpTo(d - 1)
  BY <1>2, <1>3 DEF UpTo
\* The nodes of depth d.
<1>4. ASSUME NEW u \in Nodes, Len(u) = d
      PROVE  /\ u # <<>> /\ Tail(u) \in Texts /\ Len(Tail(u)) = d - 1
             /\ LongestNode(Link(u), Tail(u)) /\ Link(u) \in UpTo(d - 1)
  <2>1. u \in Texts /\ u # <<>>
    BY <1>2, <1>4
  <2>2. Tail(u) \in Texts /\ Len(Tail(u)) = d - 1
    BY <1>4, <2>1, EndsProper
  <2>3. LongestNode(Link(u), Tail(u))
    <3>1. CASE d = 1
      <4>1. Tail(u) = <<>>
        <5> DEFINE t == Tail(u)
        <5> HIDE DEF t
        <5>1. t \in Seq(Alphabet) /\ Len(t) = 0
          BY <2>2, <3>1 DEF Texts, t
        <5>2. t = <<>>
          BY <5>1, EmptySeq
        <5> QED BY <5>2 DEF t
      <4> QED BY <3>1, <4>1, NodeIsLongest, NodeFacts
    <3>2. CASE d # 1
      <4> DEFINE f == Front(u)
                 l == Last(u)
      <4>1. f \in Nodes /\ f \in Texts /\ l \in Alphabet /\ u = Append(f, l) /\ Len(f) = d - 1
        BY <1>4, <2>1, NodeFacts, FrontText
      <4>2. Link(u) = up.next[up.fail[f]][l]
        BY <3>2
      <4> HIDE DEF f, l, Link
      <4>3. f # <<>> /\ f \in UpTo(d - 1)
        BY <1>2, <3>2, <4>1 DEF UpTo
      <4>4. LongestNode(up.fail[f], Tail(f))
        BY <4>3 DEF RightLinks
      <4>5. Tail(f) \in Texts /\ Len(Tail(f)) = d - 2
        BY <1>2, <4>1, <4>3, EndsProper
      <4>6. up.fail[f] \in UpTo(d - 1)
        <5>1. up.fail[f] \in Nodes /\ Len(up.fail[f]) <= d - 2
          BY <4>4, <4>5 DEF LongestNode, Ends
        <5> QED BY <1>2, <5>1 DEF UpTo
      <4>7. LongestNode(up.next[up.fail[f]][l], Append(up.fail[f], l))
        BY <4>1, <4>6 DEF RightLinks
      <4>8. LongestNode(up.next[up.fail[f]][l], Append(Tail(f), l))
        BY <4>1, <4>4, <4>5, <4>7, Extend
      <4>9. Tail(u) = Append(Tail(f), l)
        BY <4>1, <4>3, TailOfAppend
      <4> QED BY <4>2, <4>8, <4>9
    <3> QED BY <3>1, <3>2
  <2> HIDE DEF Link
  <2>4. Link(u) \in UpTo(d - 1)
    BY <2>2, <2>3 DEF LongestNode, Ends, UpTo
  <2> QED BY <2>1, <2>2, <2>3, <2>4
<1>5. ASSUME NEW u \in Nodes, Len(u) = d, NEW c \in Alphabet PROVE LongestNode(Step(u)[c], Append(u, c))
  <2> DEFINE far == up.next[Link(u)][c]
  <2>1. Step(u)[c] = IF Append(u, c) \in Nodes THEN Append(u, c) ELSE far
    OBVIOUS
  <2>2. u # <<>> /\ u \in Texts /\ Append(u, c) \in Texts /\ Len(Append(u, c)) = d + 1
    BY <1>2, <1>4, <1>5, AppendText
  <2>3. CASE Append(u, c) \in Nodes
    BY <2>1, <2>3, NodeIsLongest
  <2>4. CASE Append(u, c) \notin Nodes
    <3> HIDE DEF Link
    <3>1. LongestNode(far, Append(Link(u), c))
      BY <1>4, <1>5 DEF RightLinks
    <3>2. LongestNode(far, Append(Tail(u), c))
      BY <1>4, <1>5, <3>1, Extend
    <3> DEFINE uc == Append(u, c)
    <3>3. Tail(uc) = Append(Tail(u), c)
      BY <2>2, TailOfAppend
    <3> HIDE DEF uc, far
    <3>4. uc \in Texts /\ uc # <<>> /\ Len(uc) = d + 1 /\ uc \notin Nodes
      <4>1. uc \in Texts /\ Len(uc) = d + 1 /\ uc \notin Nodes
        BY <2>2, <2>4 DEF uc
      <4> QED BY <1>2, <4>1
    <3>5. Tail(uc) \in Texts /\ Ends(Tail(uc), uc)
      BY <3>4, EndsProper
    <3>6. far \in Nodes /\ Ends(far, uc)
      <4>1. far \in Nodes /\ Ends(far, Tail(uc))
        BY <3>2, <3>3 DEF LongestNode
      <4> QED BY <1>2, <3>4, <3>5, <4>1, EndsTrans
    <3>7. ASSUME NEW x \in Nodes, Ends(x, uc) PROVE Len(x) <= Len(far)
      <4>1. x \in Texts /\ Len(x) \in Nat /\ Len(x) <= d + 1
        BY <1>2, <3>4, <3>7 DEF Ends
      <4>2. Len(x) # d + 1
        BY <3>4, <3>7, <4>1, EndsWhole
      <4>3. Ends(x, Tail(uc))
        BY <1>2, <3>4, <3>7, <4>1, <4>2, EndsProper
      <4> QED BY <3>2, <3>3, <4>3 DEF LongestNode
    <3>8. LongestNode(far, uc)
      BY <3>6, <3>7 DEF LongestNode
    <3> QED BY <2>1, <2>4, <3>8 DEF uc
  <2> QED BY <2>3, <2>4
<1> HIDE DEF Step, Link
<1>6. ASSUME NEW u \in UpTo(d), NEW c \in Alphabet PROVE LongestNode(new.next[u][c], Append(u, c))
  <2>1. CASE Len(u) < d
    BY <1>1, <1>3, <2>1 DEF RightLinks
  <2>2. CASE ~(Len(u) < d)
    <3>1. u \in Nodes /\ Len(u) = d
      BY <1>2, <2>2 DEF UpTo
    <3> QED BY <1>1, <1>5, <2>2, <3>1
  <2> QED BY <2>1, <2>2
<1>7. ASSUME NEW u \in UpTo(d), u # <<>> PROVE LongestNode(new.fail[u], Tail(u))
  <2>1. CASE Len(u) < d
    BY <1>1, <1>3, <1>7, <2>1 DEF RightLinks
  <2>2. CASE ~(Len(u) < d)
    <3>1. u \in Nodes /\ Len(u) = d
      BY <1>2, <2>2 DEF UpTo
    <3> QED BY <1>1, <1>4, <2>2, <3>1
  <2> QED BY <2>1, <2>2
<1> QED BY <1>6, <1>7 DEF RightLinks, new

LEMMA LinksAreRight ==
  /\ \A u \in Nodes : \A c \in Alphabet : LongestNode(Goto[u][c], Append(u, c))
  /\ \A u \in Nodes : u # <<>> => LongestNode(Fail[u], Tail(u))
<1> DEFINE S == {d \in 0..Depth : RightLinks(d, Links[d])}
<1>1. Depth \in Nat /\ 0 \in S
  BY DepthFacts, LinksUnfold, RootIsRight
<1>2. ASSUME NEW d \in S, d < Depth PROVE d + 1 \in S
  <2>1. d + 1 \in 1..Depth /\ (d + 1) - 1 = d
    BY <1>1, <1>2
  <2>2. RightLinks(d + 1, Deeper(d + 1, Links[d]))
    BY <2>1, DeeperIsRight
  <2> QED BY <2>1, <2>2, LinksUnfold
<1>3. Depth \in S
  <2> HIDE DEF S
  <2>1. S \in SUBSET (0..Depth)
    BY DEF S
  <2> QED BY <1>1, <1>2, <2>1, CountUp
<1>4. UpTo(Depth) = Nodes
  BY DepthFacts DEF UpTo
<1> QED BY <1>3, <1>4 DEF RightLinks, Goto, Fail

\* Right outputs down to depth d.
RightOut(f, d) == \A u \in UpTo(d) : f[u] = {t \in Inserted : Ends(t[3], u)}

LEMMA OutIsRight == \A u \in Nodes : Out(u) = {t \in Inserted : Ends(t[3], u)}
<1> DEFINE Body(f, v) == OwnOut(v) \cup IF v = <<>> THEN {} ELSE f[Fail[v]]
           best == [v \in Nodes |-> {t \in Inserted : Ends(t[3], v)}]
<1>1. ASSUME NEW v \in Nodes, v # <<>>
      PROVE  /\ Fail[v] \in Nodes /\ Len(Fail[v]) <= Len(v) - 1
             /\ {t \in Inserted : Ends(t[3], v)} = OwnOut(v) \cup {t \in Inserted : Ends(t[3], Fail[v])}
  <2>1. /\ v \in Texts /\ Len(v) \in Nat /\ Tail(v) \in Texts /\ Len(Tail(v)) = Len(v) - 1
        /\ Ends(Tail(v), v) /\ \A x \in Texts : Ends(x, v) /\ Len(x) < Len(v) => Ends(x, Tail(v))
    <3>1. v \in Texts
      BY NodeFacts
    <3>2. Len(v) \in Nat
      BY <3>1 DEF Texts
    <3> QED BY <1>1, <3>1, <3>2, EndsProper
  <2> DEFINE f == Fail[v]
             s == Tail(v)
  <2>2. LongestNode(f, s)
    BY <1>1, LinksAreRight
  <2> HIDE DEF f, s
  <2>3. f \in Nodes /\ f \in Texts /\ Ends(f, s) /\ Len(f) <= Len(s) /\ s \in Texts /\ Ends(f, v)
    <3>1. f \in Nodes /\ f \in Texts /\ Ends(f, s) /\ Len(f) <= Len(s) /\ s \in Texts /\ Ends(s, v)
      BY <2>1, <2>2, NodeFacts DEF LongestNode, Ends, s
    <3> QED BY <2>1, <3>1, EndsTrans
  <2>4. ASSUME NEW t \in Inserted PROVE Ends(t[3], v) <=> t \in OwnOut(v) \/ Ends(t[3], f)
    <3> DEFINE w == t[3]
    <3>1. w \in Texts /\ w \in Nodes /\ Len(w) \in Nat /\ (t \in OwnOut(v) <=> w = v)
      BY InsertedFacts, NodeFacts DEF OwnOut
    <3> HIDE DEF w
    <3>2. ASSUME Ends(w, v), w # v PROVE Ends(w, f)
      <4>1. Len(w) <= Len(v)
        BY <3>2 DEF Ends
      <4>2. Len(w) # Len(v)
        BY <2>1, <3>1, <3>2, EndsWhole
      <4>3. Ends(w, s)
        BY <2>1, <3>1, <3>2, <4>1, <4>2 DEF s
      <4>4. Len(w) <= Len(f)
        BY <2>2, <3>1, <4>3 DEF LongestNode
      <4> QED BY <2>3, <3>1, <4>3, <4>4, EndsBoth
    <3>3. ASSUME w = v PROVE Ends(w, v)
      BY <2>1, <3>3, EndsEmpty
    <3>4. ASSUME Ends(w, f) PROVE Ends(w, v)
      BY <2>1, <2>3, <3>1, <3>4, EndsTrans
    <3> QED BY <3>1, <3>2, <3>3, <3>4 DEF w
  <2>5. OwnOut(v) \subseteq Inserted
    BY DEF OwnOut
  <2>6. {t \in Inserted : Ends(t[3], v)} = OwnOut(v) \cup {t \in Inserted : Ends(t[3], f)}
    BY <2>4, <2>5
  <2>7. Len(f) <= Len(v) - 1
    BY <2>1, <2>3 DEF s
  <2> QED BY <2>3, <2>6, <2>7 DEF f
<1>2. {t \in Inserted : Ends(t[3], <<>>)} = OwnOut(<<>>)
  <2>1. ASSUME NEW t \in Inserted PROVE ~Ends(t[3], <<>>) /\ t[3] # <<>>
    <3>1. Len(t[3]) \in Nat \ {0} /\ Len(<<>>) = 0
      BY InsertedFacts
    <3> QED BY <3>1 DEF Ends
  <2> QED BY <2>1 DEF OwnOut
<1>3. best = [v \in Nodes |-> Body(best, v)]
  <2>1. ASSUME NEW v \in Nodes PROVE best[v] = Body(best, v)
    <3>1. CASE v = <<>>
      BY <1>2, <3>1
    <3>2. CASE v # <<>>
      <4>1. best[Fail[v]] = {t \in Inserted : Ends(t[3], Fail[v])}
        BY <1>1, <3>2
      <4> QED BY <1>1, <3>2, <4>1
    <3> QED BY <3>1, <3>2
  <2> QED BY <2>1
<1> DEFINE f == CHOOSE g : g = [v \in Nodes |-> Body(g, v)]
<1>4. f = [v \in Nodes |-> Body(f, v)]
  BY <1>3
<1>5. \A u \in Nodes : Out(u) = f[u]
  BY DEF Out
<1> HIDE DEF f
<1>6. \A v \in Nodes : f[v] = Body(f, v)
  BY <1>4
<1> DEFINE S == {d \in 0..Depth : RightOut(f, d)}
<1>7. Depth \in Nat /\ \A u \in Nodes : u \in Texts /\ Len(u) \in Nat /\ Len(u) <= Depth
  BY DepthFacts, NodeFacts
<1>8. 0 \in S
  <2>1. ASSUME NEW u \in UpTo(0) PROVE u = <<>> /\ u \in Nodes
    <3>1. u \in Texts /\ Len(u) = 0 /\ u \in Nodes
      BY <1>7 DEF UpTo
    <3> QED BY <3>1, EmptySeq DEF Texts
  <2>2. f[<<>>] = OwnOut(<<>>)
    BY <1>6, NodeFacts
  <2> QED BY <1>2, <1>7, <2>1, <2>2 DEF RightOut
<1>9. ASSUME NEW d \in S, d < Depth PROVE d + 1 \in S
  <2>1. ASSUME NEW u \in UpTo(d + 1) PROVE f[u] = {t \in Inserted : Ends(t[3], u)}
    <3>1. u \in Nodes /\ Len(u) \in Nat /\ Len(u) <= d + 1
      BY <1>7 DEF UpTo
    <3>2. CASE u = <<>>
      BY <1>2, <1>6, <3>1, <3>2
    <3>3. CASE u # <<>>
      <4>1. Fail[u] \in Nodes /\ Len(Fail[u]) <= Len(u) - 1
        BY <1>1, <3>1, <3>3
      <4>2. Fail[u] \in UpTo(d)
        BY <1>7, <1>9, <3>1, <4>1 DEF UpTo
      <4>3. f[Fail[u]] = {t \in Inserted : Ends(t[3], Fail[u])}
        BY <4>2 DEF RightOut
      <4> QED BY <1>1, <1>6, <3>1, <3>3, <4>3
    <3> QED BY <3>2, <3>3
  <2> QED BY <1>7, <1>9, <2>1 DEF RightOut
<1>10. Depth \in S
  <2> HIDE DEF S
  <2>1. S \in SUBSET (0..Depth)
    BY DEF S
  <2> QED BY <1>7, <1>8, <1>9, <2>1, CountUp
<1>11. \A u \in Nodes : f[u] = {t \in Inserted : Ends(t[3], u)}
  BY <1>7, <1>10 DEF RightOut, UpTo
<1> QED BY <1>5, <1>11

LEMMA NormalizeKeepsAlphabet == \A q \in Texts : NormalizeQuery(q) \in Texts
<1> SUFFICES ASSUME NEW q \in Texts PROVE NormalizeQuery(q) \in Texts
  OBVIOUS
<1> DEFINE n == Len(q)
           Run(g, m) == g = [i \in 0..m |-> IF i = 0 THEN <<>> ELSE Emit(g[i - 1], Lower[q[i]])]
           S == {m \in 0..n : \E g : Run(g, m)}
<1>1. n \in Nat /\ \A i \in 1..n : q[i] \in Alphabet /\ Lower[q[i]] \in Alphabet
  BY ScanAssumption DEF Texts
<1> HIDE DEF n
<1>2. 0 \in S
  <2>1. Run([i \in 0..0 |-> <<>>], 0)
    OBVIOUS
  <2> HIDE DEF Run
  <2> QED BY <1>1, <2>1
<1>3. ASSUME NEW m \in S, m < n PROVE m + 1 \in S
  <2>1. PICK g : Run(g, m)
    BY <1>3
  <2> DEFINE h == [i \in 0..m + 1 |-> IF i <= m THEN g[i] ELSE Emit(g[m], Lower[q[m + 1]])]
  <2>2. Run(h, m + 1)
    <3>1. \A i \in 0..m + 1 : h[i] = IF i = 0 THEN <<>> ELSE Emit(h[i - 1], Lower[q[i]])
      BY <2>1, <1>1
    <3> QED BY <3>1
  <2> HIDE DEF Run, h
  <2> QED BY <1>1, <1>3, <2>2
<1>4. n \in S
  <2> HIDE DEF S
  <2>1. S \in SUBSET (0..n)
    BY DEF S
  <2> QED BY <1>1, <1>2, <1>3, <2>1, CountUp
<1>5. PICK g : Run(g, n)
  BY <1>4
<1> DEFINE out == CHOOSE f : f = [i \in 0..n |-> IF i = 0 THEN <<>> ELSE Emit(f[i - 1], Lower[q[i]])]
<1>6. Run(out, n)
  BY <1>5
<1>7. NormalizeQuery(q) = IF out[n] # <<>> /\ Last(out[n]) = " " THEN Front(out[n]) ELSE out[n]
  BY DEF NormalizeQuery, n
<1> HIDE DEF out
<1>8. out[0] = <<>> /\ \A i \in 1..n : out[i] = Emit(out[i - 1], Lower[q[i]])
  BY <1>1, <1>6
<1> DEFINE T == {i \in 0..n : out[i] \in Texts}
<1>9. 0 \in T
  <2>1. out[0] \in Texts
    BY <1>8, NodeFacts
  <2> QED BY <1>1, <2>1
<1>10. ASSUME NEW k \in T, k < n PROVE k + 1 \in T
  <2>1. k + 1 \in 1..n /\ k + 1 \in 0..n /\ (k + 1) - 1 = k
    BY <1>1, <1>10
  <2>2. out[k + 1] = Emit(out[k], Lower[q[k + 1]])
    BY <1>8, <2>1
  <2>3. Emit(out[k], Lower[q[k + 1]]) \in Texts
    <3>1. Append(out[k], Lower[q[k + 1]]) \in Texts
      BY <1>1, <2>1, AppendText
    <3> QED BY <3>1 DEF Emit
  <2> QED BY <2>1, <2>2, <2>3
<1>11. n \in T
  <2> HIDE DEF T
  <2>1. T \in SUBSET (0..n)
    BY DEF T
  <2> QED BY <1>1, <1>9, <1>10, <2>1, CountUp
<1>12. out[n] \in Texts /\ (out[n] # <<>> => Front(out[n]) \in Texts)
  BY <1>11, FrontText
<1> QED BY <1>7, <1>12

\* The node the scan is at is the longest one the text read so far ends with.
LEMMA ScanStates ==
  ASSUME NEW q \in Texts
  PROVE  \E state : /\ \A i \in 0..Len(q) : LongestNode(state[i], SubSeq(q, 1, i))
                    /\ Search(q) = {t \in Inserted : \E i \in DOMAIN q :
                                          /\ IsAscii(q[i]) /\ t \in Out(state[i])
                                          /\ HasRouteBoundaries(q, i + 1 - Len(t[3]), i)}
<1> DEFINE n == Len(q)
           Run(g, m) == g = [i \in 0..m |-> IF i = 0 THEN <<>> ELSE Scan(g[i - 1], q[i])]
           S == {m \in 0..n : \E g : Run(g, m)}
<1>1. n \in Nat /\ \A i \in 1..n : q[i] \in Alphabet
  BY DEF Texts
<1> HIDE DEF n
<1>2. 0 \in S
  <2>1. Run([i \in 0..0 |-> <<>>], 0)
    OBVIOUS
  <2> HIDE DEF Run
  <2> QED BY <1>1, <2>1
<1>3. ASSUME NEW m \in S, m < n PROVE m + 1 \in S
  <2>1. PICK g : Run(g, m)
    BY <1>3
  <2> DEFINE h == [i \in 0..m + 1 |-> IF i <= m THEN g[i] ELSE Scan(g[m], q[m + 1])]
  <2>2. Run(h, m + 1)
    <3>1. \A i \in 0..m + 1 : h[i] = IF i = 0 THEN <<>> ELSE Scan(h[i - 1], q[i])
      BY <2>1, <1>1
    <3> QED BY <3>1
  <2> HIDE DEF Run, h
  <2> QED BY <1>1, <1>3, <2>2
<1>4. n \in S
  <2> HIDE DEF S
  <2>1. S \in SUBSET (0..n)
    BY DEF S
  <2> QED BY <1>1, <1>2, <1>3, <2>1, CountUp
<1>5. PICK g : Run(g, n)
  BY <1>4
<1> DEFINE state == CHOOSE f : f = [i \in 0..n |-> IF i = 0 THEN <<>> ELSE Scan(f[i - 1], q[i])]
<1>6. Run(state, n)
  BY <1>5
<1>7. Search(q) = {t \in Inserted : \E i \in DOMAIN q :
                         /\ IsAscii(q[i]) /\ t \in Out(state[i])
                         /\ HasRouteBoundaries(q, i + 1 - Len(t[3]), i)}
  BY DEF Search, n
<1> HIDE DEF state
<1>8. state[0] = <<>> /\ \A i \in 1..n : state[i] = Scan(state[i - 1], q[i])
  BY <1>1, <1>6
<1> DEFINE T == {i \in 0..n : LongestNode(state[i], SubSeq(q, 1, i))}
<1>9. 0 \in T
  <2>1. SubSeq(q, 1, 0) = <<>>
    BY SubSeqEmpty
  <2>2. LongestNode(<<>>, <<>>)
    BY NodeIsLongest, NodeFacts
  <2>3. LongestNode(state[0], SubSeq(q, 1, 0))
    BY <1>8, <2>1, <2>2
  <2> QED BY <1>1, <2>3
<1>10. ASSUME NEW k \in T, k < n PROVE k + 1 \in T
  <2>1. k + 1 \in 1..n /\ k + 1 \in 0..n /\ (k + 1) - 1 = k /\ k \in 0..n
    BY <1>1, <1>10
  <2> DEFINE w == SubSeq(q, 1, k)
             c == q[k + 1]
             v == state[k]
  <2>2. w \in Texts
    BY <2>1, StartText DEF n
  <2>3. SubSeq(q, 1, k + 1) = Append(w, c) /\ c \in Alphabet
    BY <2>1, StartGrows DEF n
  <2>4. state[k + 1] = Scan(v, c)
    BY <1>8, <2>1
  <2>5. LongestNode(v, w)
    BY <1>10
  <2> HIDE DEF w, c, v
  <2>6. LongestNode(Scan(v, c), Append(w, c))
    <3>1. CASE IsAscii(c)
      <4>1. LongestNode(Goto[v][c], Append(v, c))
        BY <2>3, <2>5, LinksAreRight DEF LongestNode
      <4> QED BY <2>2, <2>3, <2>5, <3>1, <4>1, Extend DEF Scan
    <3>2. CASE ~IsAscii(c)
      <4> DEFINE wc == Append(w, c)
      <4>1. wc \in Texts /\ Len(wc) \in Nat \ {0} /\ wc[Len(wc)] = c
        BY <2>2, <2>3, AppendText DEF Texts
      <4> HIDE DEF wc
      <4>2. ASSUME NEW x \in Nodes, Ends(x, wc) PROVE Len(x) <= Len(<<>>)
        <5>1. Len(x) \in Nat /\ \A i \in 1..Len(x) : IsAscii(x[i])
          BY NodeFacts DEF Texts
        <5>2. ASSUME Len(x) # 0 PROVE FALSE
          <6>1. 0 \in 0..Len(x) - 1 /\ Len(x) - 0 = Len(x) /\ Len(wc) - 0 = Len(wc) /\ Len(x) \in 1..Len(x)
            BY <4>1, <5>1, <5>2
          <6>2. x[Len(x)] = c
            BY <4>1, <4>2, <6>1 DEF Ends
          <6> QED BY <3>2, <5>1, <6>1, <6>2
        <5>3. Len(<<>>) = 0
          OBVIOUS
        <5> QED BY <5>1, <5>2, <5>3
      <4>3. LongestNode(<<>>, wc)
        BY <4>1, <4>2, NodeFacts, EndsEmpty DEF LongestNode
      <4> QED BY <3>2, <4>3 DEF Scan, wc
    <3> QED BY <3>1, <3>2
  <2> QED BY <2>1, <2>3, <2>4, <2>6 DEF w
<1>11. n \in T /\ \A i \in 0..n : i \in T
  <2> DEFINE U == {i \in 0..n : \A j \in 0..i : j \in T}
  <2> HIDE DEF T
  <2>1. 0 \in U
    BY <1>1, <1>9
  <2>2. ASSUME NEW k \in U, k < n PROVE k + 1 \in U
    BY <1>1, <1>10, <2>2
  <2>3. U \in SUBSET (0..n)
    OBVIOUS
  <2>4. n \in U
    <3> HIDE DEF U
    <3> QED BY <1>1, <2>1, <2>2, <2>3, CountUp
  <2> QED BY <1>1, <2>4
<1> QED BY <1>7, <1>11 DEF n

\* A text read up to i ends with a word where the word stands in it.
LEMMA EndsHere ==
  ASSUME NEW q \in Texts, NEW i \in 1..Len(q), NEW w \in Texts, w # <<>>
  PROVE  /\ Ends(w, SubSeq(q, 1, i)) <=>
                Len(w) <= i /\ SubSeq(q, i + 1 - Len(w), i) = w
<1> DEFINE p == SubSeq(q, 1, i)
           m == i + 1 - Len(w)
           o == SubSeq(q, m, i)
<1>1. /\ i \in Nat \ {0} /\ i \in 0..Len(q) /\ Len(q) \in Nat /\ Len(w) \in Nat \ {0}
      /\ \A k \in 1..Len(q) : q[k] \in Alphabet
  BY EmptySeq DEF Texts
<1>2. p \in Texts /\ Len(p) = i /\ \A k \in 1..i : p[k] = q[k]
  BY <1>1, StartText
<1>3. ASSUME Len(w) <= i PROVE /\ m \in 1..i /\ o \in Seq(Alphabet) /\ Len(o) = Len(w)
                               /\ \A k \in 1..Len(w) : o[k] = q[i - (Len(w) - k)]
  <2>1. m \in 1..i /\ m \in Int /\ i \in Int /\ m <= i /\ i - m + 1 = Len(w)
    BY <1>1, <1>3
  <2>2. \A k \in m..i : q[k] \in Alphabet
    BY <1>1, <2>1
  <2>3. \A k \in 1..Len(w) : m + k - 1 = i - (Len(w) - k)
    BY <1>1
  <2> HIDE DEF m
  <2>4. o \in Seq(Alphabet) /\ Len(o) = i - m + 1 /\ \A k \in 1..i - m + 1 : o[k] = q[m + k - 1]
    BY <2>1, <2>2, SubSeqProperties
  <2> QED BY <2>1, <2>3, <2>4
<1> HIDE DEF p, m, o
<1>4. ASSUME Ends(w, p) PROVE Len(w) <= i /\ o = w
  <2>1. Len(w) <= i
    BY <1>2, <1>4 DEF Ends
  <2>2. ASSUME NEW k \in 1..Len(w) PROVE o[k] = w[k]
    <3>1. Len(w) - k \in 0..Len(w) - 1 /\ Len(w) - (Len(w) - k) = k /\ i - (Len(w) - k) \in 1..i
      BY <1>1, <2>1
    <3>2. w[k] = p[i - (Len(w) - k)]
      BY <1>2, <1>4, <3>1 DEF Ends
    <3> QED BY <1>2, <1>3, <2>1, <3>1, <3>2
  <2> QED BY <1>3, <2>1, <2>2, SeqEqual DEF Texts
<1>5. ASSUME Len(w) <= i, o = w PROVE Ends(w, p)
  <2>1. ASSUME NEW k \in 0..Len(w) - 1 PROVE w[Len(w) - k] = p[Len(p) - k]
    <3>1. Len(w) - k \in 1..Len(w) /\ Len(w) - (Len(w) - k) = k /\ i - k \in 1..i
      BY <1>1, <1>5
    <3>2. o[Len(w) - k] = q[i - k]
      BY <1>3, <1>5, <3>1
    <3> QED BY <1>2, <1>5, <3>1, <3>2
  <2> QED BY <1>2, <1>5, <2>1 DEF Ends
<1> QED BY <1>4, <1>5 DEF p, m, o

\* Terms without characters outside ASCII, as aho_corasick.hpp asks for.
TermsAreAscii == \A t \in Terms : \A i \in DOMAIN t[3] : IsAscii(t[3][i])

LEMMA SearchIsExact ==
  ASSUME TermsAreAscii, NEW q \in Texts
  PROVE  Search(q) = {t \in Terms : ContainsRouteToken(q, t[3])}
<1>1. PICK state : /\ \A i \in 0..Len(q) : LongestNode(state[i], SubSeq(q, 1, i))
                   /\ Search(q) = {t \in Inserted : \E i \in DOMAIN q :
                                         /\ IsAscii(q[i]) /\ t \in Out(state[i])
                                         /\ HasRouteBoundaries(q, i + 1 - Len(t[3]), i)}
  BY ScanStates
<1>2. /\ Len(q) \in Nat /\ DOMAIN q = 1..Len(q) /\ 1..Len(q) \subseteq 0..Len(q)
      /\ \A i \in 1..Len(q) : i \in Nat \ {0}
  BY DEF Texts
<1>3. ASSUME NEW t \in Inserted, NEW i \in 1..Len(q)
      PROVE  IsAscii(q[i]) /\ t \in Out(state[i])
                 <=> Len(t[3]) <= i /\ SubSeq(q, i + 1 - Len(t[3]), i) = t[3]
  <2> DEFINE v == state[i]
             p == SubSeq(q, 1, i)
             w == t[3]
  <2>1. LongestNode(v, p)
    BY <1>1, <1>2
  <2>2. /\ p \in Texts /\ Len(p) = i /\ p[i] = q[i] /\ w \in Texts /\ w \in Nodes /\ w # <<>>
        /\ Len(w) \in Nat \ {0} /\ \A k \in 1..Len(w) : IsAscii(w[k])
    <3>1. i \in 0..Len(q) /\ i \in 1..i
      BY <1>2
    <3> QED BY <3>1, StartText, InsertedFacts, NodeFacts
  <2>3. Ends(w, p) <=> Len(w) <= i /\ SubSeq(q, i + 1 - Len(w), i) = w
    BY <2>2, EndsHere
  <2>4. t \in Out(v) <=> Ends(w, v)
    BY <2>1, OutIsRight DEF LongestNode
  <2> HIDE DEF v, p, w
  <2>5. Ends(w, v) <=> Ends(w, p)
    <3>1. v \in Texts /\ Ends(v, p) /\ (Ends(w, p) => Len(w) <= Len(v))
      BY <2>1, <2>2, NodeFacts DEF LongestNode
    <3> QED BY <2>2, <3>1, EndsTrans, EndsBoth
  <2>6. Ends(w, p) => IsAscii(q[i])
    <3> SUFFICES ASSUME Ends(w, p) PROVE IsAscii(q[i])
      OBVIOUS
    <3>1. 0 \in 0..Len(w) - 1 /\ Len(w) - 0 = Len(w) /\ Len(p) - 0 = i /\ Len(w) \in 1..Len(w)
      BY <1>2, <2>2
    <3>2. w[Len(w)] = p[i]
      BY <3>1 DEF Ends
    <3> QED BY <2>2, <3>1, <3>2
  <2> QED BY <2>3, <2>4, <2>5, <2>6 DEF v, p, w
<1>4. ASSUME NEW t \in Inserted
      PROVE  (\E i \in DOMAIN q : /\ IsAscii(q[i]) /\ t \in Out(state[i])
                                     /\ HasRouteBoundaries(q, i + 1 - Len(t[3]), i))
             <=> ContainsRouteToken(q, t[3])
  <2> DEFINE w == t[3]
  <2>1. w # <<>> /\ Len(w) \in Nat \ {0}
    BY InsertedFacts DEF Inserted
  <2>2. \A i \in 1..Len(q) : IsAscii(q[i]) /\ t \in Out(state[i])
                                    <=> Len(w) <= i /\ SubSeq(q, i + 1 - Len(w), i) = w
    BY <1>3
  <2> HIDE DEF w
  <2>3. ASSUME NEW i \in 1..Len(q), Len(w) <= i, SubSeq(q, i + 1 - Len(w), i) = w,
               HasRouteBoundaries(q, i + 1 - Len(w), i)
        PROVE  ContainsRouteToken(q, w)
    <3> DEFINE s == i + 1 - Len(w)
    <3>1. s \in 1..Len(q) /\ s + Len(w) - 1 = i /\ i <= Len(q)
      BY <1>2, <2>1, <2>3
    <3>2. SubSeq(q, s, i) = w /\ HasRouteBoundaries(q, s, i)
      BY <2>3
    <3> HIDE DEF s
    <3> QED BY <2>1, <3>1, <3>2 DEF ContainsRouteToken
  <2>4. ASSUME ContainsRouteToken(q, w)
        PROVE  \E i \in 1..Len(q) : /\ Len(w) <= i /\ SubSeq(q, i + 1 - Len(w), i) = w
                                       /\ HasRouteBoundaries(q, i + 1 - Len(w), i)
    <3>1. PICK s \in 1..Len(q) : /\ s + Len(w) - 1 <= Len(q)
                                    /\ SubSeq(q, s, s + Len(w) - 1) = w
                                    /\ HasRouteBoundaries(q, s, s + Len(w) - 1)
      BY <2>4 DEF ContainsRouteToken
    <3> DEFINE e == s + Len(w) - 1
    <3>2. e \in 1..Len(q) /\ Len(w) <= e /\ e + 1 - Len(w) = s
      BY <1>2, <2>1, <3>1
    <3>3. SubSeq(q, s, e) = w /\ HasRouteBoundaries(q, s, e)
      BY <3>1
    <3> HIDE DEF e
    <3> QED BY <3>2, <3>3
  <2>5. (\E i \in 1..Len(q) : /\ IsAscii(q[i]) /\ t \in Out(state[i])
                                 /\ HasRouteBoundaries(q, i + 1 - Len(w), i))
        <=> ContainsRouteToken(q, w)
    BY <2>2, <2>3, <2>4
  <2> QED BY <1>2, <2>5 DEF w
<1>5. ASSUME NEW t \in Terms, ContainsRouteToken(q, t[3]) PROVE t \in Inserted
  BY <1>5 DEF ContainsRouteToken, Inserted, TermsAreAscii
<1> QED BY <1>1, <1>4, <1>5, InsertedFacts

-----------------------------------------------------------------------------
\* The hits are those of routes of the table.
Inv == /\ jur \in Jurisdictions
       /\ \A h \in hits : h[1] \in DOMAIN Table[jur]

\* The automaton reports terms of the table only.
LEMMA SummaryOfTerms ==
  ASSUME NEW found \in SUBSET Terms
  PROVE  \A h \in Summary(found) : h[1] \in {t[1] : t \in Terms}
BY DEF Summary

LEMMA SearchFindsTerms == \A t : Search(t) \subseteq Terms
BY DEF Search, Inserted

THEOREM HitsHaveRoutes == Spec => []Inv
<1>1. Init => Inv
  BY DEF Init, Inv
<1>2. Inv /\ [Next]_vars => Inv'
  <2> SUFFICES ASSUME Inv, [Next]_vars
               PROVE  Inv'
    OBVIOUS
  <2>1. ASSUME NEW i \in DOMAIN Table[jur], NEW f \in Table[jur][i].terms, ScanHit(i, f)
        PROVE  Inv'
    BY <2>1 DEF Inv, ScanHit
  <2>2. ASSUME NEW c \in Alphabet, Write(c)
        PROVE  Inv'
    BY <2>2 DEF Inv, Write
  <2>3. CASE Decide
    <3>1. CASE jur = "small"
      <4>1. hits' = Summary(Search(NormalizeQuery(text))) /\ jur' = jur
        BY <2>3, <3>1 DEF Decide
      <4>2. Search(NormalizeQuery(text)) \in SUBSET Terms
        BY SearchFindsTerms
      <4>3. \A h \in hits' : h[1] \in {t[1] : t \in Terms}
        BY <4>1, <4>2, SummaryOfTerms
      <4>4. Table[jur] = SmallTable
        BY <3>1 DEF Table
      <4> QED BY <4>1, <4>3, <4>4, SmallTableAssumption DEF Inv
    <3>2. CASE jur # "small"
      BY <2>3, <3>2 DEF Inv, Decide
    <3> QED BY <3>1, <3>2
  <2>4. CASE NextQuestion
    BY <2>4 DEF Inv, NextQuestion
  <2>5. CASE UNCHANGED vars
    BY <2>5 DEF Inv, vars
  <2> QED BY <2>1, <2>2, <2>3, <2>4, <2>5 DEF Next
<1> QED BY <1>1, <1>2, PTL DEF Spec

\* What the invariant says of the decision.
LEMMA DecisionOfTable ==
  ASSUME Inv
  PROVE  /\ Matched(Table[jur], hits) \in SUBSET DOMAIN Table[jur]
         /\ Decision.forced = Forced(Table[jur], Matched(Table[jur], hits))
         /\ Decision.allow = AllowList(Table[jur], Matched(Table[jur], hits))
<1>1. Matched(Table[jur], hits) \in SUBSET DOMAIN Table[jur]
  BY DEF Inv, Matched
<1> QED BY <1>1 DEF Decision, RouteDecision

\* AllowCoversForced: a section that a fired route forces is never outside the allow-list that the fired
\* routes bring together, however many of the routes of either server a question fires.
THEOREM AllowListKeepsForced == Spec => []AllowCoversForced
<1>1. Inv => AllowCoversForced
  BY DecisionOfTable, TablesCover, AllowCovers DEF AllowCoversForced, Inv
<1> QED BY <1>1, HitsHaveRoutes, PTL

\* CapCoversForced: the cap on legislation leaves room for every forced section that retrieval finds,
\* however many routes fire.
THEOREM CapLeavesRoom == Spec => []CapCoversForced
<1>1. Inv => CapCoversForced
  <2> SUFFICES ASSUME Inv, NEW n \in 0..Cardinality(Decision.forced)
               PROVE  ComputeMaxHits(n, Cardinality(Decision.allow)) >= n
    BY DEF CapCoversForced
  <2> DEFINE F == Decision.forced
             A == Decision.allow
  <2>1. F \subseteq Sections(Table[jur]) /\ A \subseteq Sections(Table[jur])
    BY DecisionOfTable DEF Forced, AllowList, AllowCandidates, Sections
  <2>2. IsFiniteSet(Sections(Table[jur]))
    BY TablesCover DEF Inv
  <2>3. IsFiniteSet(F) /\ IsFiniteSet(A)
    BY <2>1, <2>2, FS_Subset
  <2>4. A # {} => F \subseteq A
    BY DecisionOfTable, TablesCover, AllowCovers DEF Inv
  <2>5. Cardinality(F) \in Nat /\ Cardinality(A) \in Nat
    BY <2>3, FS_CardinalityType
  <2>6. CASE A = {}
    <3>1. Cardinality(A) = 0
      BY <2>6, FS_EmptySet
    <3> HIDE DEF F, A
    <3> QED BY <2>5, <3>1, CapHasRoom DEF F, A
  <2>7. CASE A # {}
    <3>1. Cardinality(F) <= Cardinality(A)
      BY <2>3, <2>4, <2>7, FS_Subset
    <3> QED BY <2>5, <3>1, CapHasRoom
  <2> QED BY <2>6, <2>7
<1> QED BY <1>1, HitsHaveRoutes, PTL

\* MoreTermsKeepSections: another trigger term never takes a section away, unless it is an exclusion.
THEOREM MoreTermsMoreSections == Spec => MoreTermsKeepSections
<1> DEFINE Keeps == hits \subseteq hits' /\ (\A h \in hits' \ hits : h[2] # "Exclude")
                      => /\ Decision.forced \subseteq Decision'.forced
                         /\ Decision.allow \subseteq Decision'.allow
<1>1. [Next]_vars => [Keeps]_vars
  <2> SUFFICES ASSUME [Next]_vars, hits \subseteq hits', \A h \in hits' \ hits : h[2] # "Exclude"
               PROVE  /\ Decision.forced \subseteq Decision'.forced
                      /\ Decision.allow \subseteq Decision'.allow
    OBVIOUS
  <2> DEFINE t == Table[jur]
  <2>1. jur' = jur
    BY DEF Next, ScanHit, Write, Decide, NextQuestion, vars
  <2>2. Matched(t, hits) \subseteq Matched(t, hits')
    BY MatchedGrows
  <2>3. /\ Forced(t, Matched(t, hits)) \subseteq Forced(t, Matched(t, hits'))
        /\ AllowList(t, Matched(t, hits)) \subseteq AllowList(t, Matched(t, hits'))
    BY <2>2, ListsGrow
  <2>4. /\ Decision.forced = Forced(t, Matched(t, hits))
        /\ Decision.allow = AllowList(t, Matched(t, hits))
    BY DEF Decision, RouteDecision
  <2>5. /\ Decision'.forced = Forced(t, Matched(t, hits'))
        /\ Decision'.allow = AllowList(t, Matched(t, hits'))
    BY <2>1 DEF Decision, RouteDecision
  <2> QED BY <2>3, <2>4, <2>5
<1> QED BY <1>1, PTL DEF Spec, MoreTermsKeepSections

-----------------------------------------------------------------------------
\* A question is made of the alphabet's characters, and the hits of a decided one are what the automaton found.
ScanInv == /\ text \in Texts
           /\ phase = "decided" /\ jur = "small" => hits = Summary(Search(NormalizeQuery(text)))

LEMMA HitsAreTheScans == Spec => []ScanInv
<1>1. Init => ScanInv
  BY NodeFacts DEF Init, ScanInv
<1>2. ScanInv /\ [Next]_vars => ScanInv'
  <2> SUFFICES ASSUME ScanInv, [Next]_vars
               PROVE  ScanInv'
    OBVIOUS
  <2>1. ASSUME NEW i \in DOMAIN Table[jur], NEW f \in Table[jur][i].terms, ScanHit(i, f)
        PROVE  ScanInv'
    BY <2>1 DEF ScanInv, ScanHit
  <2>2. ASSUME NEW c \in Alphabet, Write(c)
        PROVE  ScanInv'
    <3>1. text' = Append(text, c) /\ phase' = "scan" /\ text \in Texts
      BY <2>2 DEF ScanInv, Write
    <3>2. text' \in Texts
      BY <3>1, AppendText
    <3> QED BY <3>1, <3>2 DEF ScanInv
  <2>3. CASE Decide
    BY <2>3 DEF ScanInv, Decide
  <2>4. CASE NextQuestion
    BY <2>4, NodeFacts DEF ScanInv, NextQuestion
  <2>5. CASE UNCHANGED vars
    BY <2>5 DEF ScanInv, vars
  <2> QED BY <2>1, <2>2, <2>3, <2>4, <2>5 DEF Next
<1> QED BY <1>1, <1>2, PTL DEF Spec

\* ScanIsExact: whatever the terms of a table, overlapping or inside each other, one pass of the automaton over
\* a question of any length finds those that a search at every position would, and no other, provided no term
\* has a character outside ASCII (aho_corasick.hpp demands it; such a term is not inserted).
THEOREM ScanFindsEveryTerm == TermsAreAscii => (Spec => []ScanIsExact)
<1> SUFFICES ASSUME TermsAreAscii
             PROVE  Spec => []ScanIsExact
  OBVIOUS
<1>1. ScanInv => ScanIsExact
  <2> SUFFICES ASSUME ScanInv, phase = "decided", jur = "small"
               PROVE  hits = Summary({t \in Terms : ContainsRouteToken(NormalizeQuery(text), t[3])})
    BY DEF ScanIsExact
  <2>1. hits = Summary(Search(NormalizeQuery(text)))
    BY DEF ScanInv
  <2>2. NormalizeQuery(text) \in Texts
    BY NormalizeKeepsAlphabet DEF ScanInv
  <2>3. Search(NormalizeQuery(text)) = {t \in Terms : ContainsRouteToken(NormalizeQuery(text), t[3])}
    BY <2>2, SearchIsExact
  <2> QED BY <2>1, <2>3
<1> QED BY <1>1, HitsAreTheScans, PTL
==============================================================================
